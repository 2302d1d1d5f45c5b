--------------------------- MODULE StartupProofs ---------------------------
(***************************************************************************)
(* How rtlamr starts, for every environment and every list of arguments:   *)
(* what the flags are after the parse, what the decoder's buffers are made *)
(* of, what a decoder that the launcher starts is set to, and that a set   *)
(* of message types has one center frequency.                              *)
(***************************************************************************)
EXTENDS Startup, SequenceTheorems, FiniteSetTheorems, TLAPS

(* The arguments, how many of them have been parsed, and what a flag that  *)
(* stands at the i-th place is set to.                                     *)
A == Args(launch)
K == Len(A) - Len(rest)
IsFlag(arg) == arg.text \in Flags
Got(i) == IF TakesValue(A[i]) THEN A[i + 1] ELSE Word("true")

FromEnv == {f \in DOMAIN env : Parses(env[f])}
Initial(f) == IF f \in DOMAIN env THEN Assigned(f, Default(f), env[f]) ELSE Default(f)

(* The parse is between two arguments: what is parsed are flags and their  *)
(* values, each of which parsed, and no flag still waits for its value.    *)
Between ==
  /\ K > 0 => ~TakesValue(A[K])
  /\ \A i \in Parsed : IsFlag(A[i]) \/ (i > 1 /\ TakesValue(A[i - 1]))

(* The flags that are set are those of the environment and those parsed.   *)
GivenAre == given = FromEnv \cup {A[i].text : i \in {i \in Parsed : IsFlag(A[i])}}

(* A flag that was parsed has the value it got at some place, one that was *)
(* not has that of the environment or the default one; a list has all.     *)
ValuesAre ==
  \A f \in Flags :
    IF f \in ListFlags
    THEN /\ f \in DOMAIN env => env[f].items \subseteq value[f].items
         /\ \A i \in Parsed : A[i].text = f => A[i + 1].items \subseteq value[f].items
    ELSE \/ \E i \in Parsed : A[i].text = f /\ value[f] = Got(i)
         \/ value[f] = Initial(f) /\ \A i \in Parsed : A[i].text # f

Started == \E s \in Starts : launch = s.launch /\ env = s.env
Before == {"env", "parse", "flags", "msgtype"}
Built == {"connect", "visit", "ready", "cancelled"}
After == Built \cup {"flags", "msgtype", "register", "fatal"}

ParseInv ==
  /\ Started
  /\ pc \in Before \cup After \cup {"exit"}
  /\ K \in 0 .. Len(A) /\ rest = SubSeq(A, K + 1, Len(A))
  /\ DOMAIN value = Flags
  /\ pc = "env" => K = 0 /\ given = {} /\ \A f \in Flags : value[f] = Default(f)
  /\ pc \in {"parse"} \cup After => Between /\ GivenAre /\ ValuesAre
  /\ pc \in After => K = Len(A) \/ ~IsFlag(A[K + 1])
(* The types that are registered.                                          *)
Done == msgType \ names

Own(pre) == {p \in Done : ParserCfg(p).Preamble = pre}

(* Each is registered once, under its own preamble.                        *)
OncePerPreamble ==
  /\ DOMAIN preambles = Preambles
  /\ \A pre \in Preambles :
       /\ preambles[pre] \in Seq(Own(pre))
       /\ \A p \in Own(pre) : \E i \in DOMAIN preambles[pre] : preambles[pre][i] = p
       /\ \A i, j \in DOMAIN preambles[pre] : preambles[pre][i] = preambles[pre][j] => i = j

(* The lengths are the largest that are asked for, so a registered type's. *)
LargestOf ==
  /\ Cfg.ChipLength = IF Done = {} THEN 0 ELSE symbolLength
  /\ \A p \in Done : /\ ParserCfg(p).PreambleSymbols <= Cfg.PreambleSymbols
                     /\ ParserCfg(p).PacketSymbols <= Cfg.PacketSymbols
  /\ IF Done = {} THEN Cfg.PreambleSymbols = 0 /\ Cfg.PacketSymbols = 0
     ELSE \E p, q, r \in Done : /\ Cfg.PreambleSymbols = ParserCfg(p).PreambleSymbols
                                /\ Cfg.PacketSymbols = ParserCfg(q).PacketSymbols
                                /\ Cfg.CenterFreq = ParserCfg(r).CenterFreq

Wanted == value["-msgtype"].items
Lengths ==
  [Signal |-> BlockSize + SymbolLength,
   Quantized |-> BufferLength,
   csum |-> BlockSize + SymbolLength + 1,
   pkt |-> (Cfg.PacketSymbols + 7) \div 8,
   packed |-> (BlockSize + PreambleLength + 7) \div 8,
   block |-> 2 * BlockSize]

GeometryInv ==
  /\ pc \in {"msgtype", "register"} \cup Built => ValidLength
  /\ pc \in Before \cup {"exit"} =>
       msgType = {} /\ names = {} /\ OncePerPreamble /\ LargestOf
  /\ pc \in {"register"} \cup Built =>
       /\ msgType = IF Wanted = {"all"} THEN {"scm", "scm+", "idm", "r900"} ELSE Wanted
       /\ names \subseteq msgType
       /\ Done \subseteq Registered /\ OncePerPreamble /\ LargestOf
  /\ pc \in Built => names = {} /\ len = Lengths
  /\ pc \notin Built => len = << >>
  /\ pc = "ready" =>
       /\ fc = Added(VisitOrder[1]) \o Added(VisitOrder[2]) \o Added(VisitOrder[3])
       /\ tuner = [freq |-> CenterFreq,
                   gain |-> IF "-tunergain" \in given THEN "set" ELSE "auto"]
-----------------------------------------------------------------------------
(* The launcher's arguments are pairs of a flag and its value.             *)
IsPairs(S, s, W) ==
  /\ s \in Seq(S)
  /\ \E n \in Nat : Len(s) = 2 * n /\ W = {<<s[2 * i - 1], s[2 * i]>> : i \in 1 .. n}

LEMMA OnePair ==
  ASSUME NEW S, NEW f \in S, NEW v \in S PROVE IsPairs(S, <<f, v>>, {<<f, v>>})
<1> DEFINE s == <<f, v>>
<1>1. s \in Seq(S) /\ Len(s) = 2 * 1 /\ s[1] = f /\ s[2] = v
  OBVIOUS
<1>2. \A i \in 1 .. 1 : 2 * i - 1 = 1 /\ 2 * i = 2
  OBVIOUS
<1> HIDE DEF s
<1>3. {<<f, v>>} = {<<s[2 * i - 1], s[2 * i]>> : i \in 1 .. 1}
  BY <1>1, <1>2
<1> QED
  BY <1>1, <1>3 DEF IsPairs, s

LEMMA TwoPairs ==
  ASSUME NEW S, NEW f \in S, NEW v \in S, NEW g \in S, NEW w \in S
  PROVE  IsPairs(S, <<f, v, g, w>>, {<<f, v>>, <<g, w>>})
<1> DEFINE s == <<f, v, g, w>>
           P(i) == <<s[2 * i - 1], s[2 * i]>>
<1>1. s \in Seq(S) /\ Len(s) = 2 * 2 /\ s[1] = f /\ s[2] = v /\ s[3] = g /\ s[4] = w
  OBVIOUS
<1>2. /\ 2 * 1 - 1 = 1 /\ 2 * 1 = 2 /\ 2 * 2 - 1 = 3 /\ 2 * 2 = 4
      /\ \A i \in 1 .. 2 : i = 1 \/ i = 2
  OBVIOUS
<1>3. P(1) = <<f, v>> /\ P(2) = <<g, w>>
  BY <1>1, <1>2
<1> HIDE DEF P
<1>4. {<<f, v>>, <<g, w>>} = {P(i) : i \in 1 .. 2}
  BY <1>2, <1>3
<1> HIDE DEF s
<1> QED
  BY <1>1, <1>4 DEF IsPairs, P, s

LEMMA NoPair == ASSUME NEW S PROVE IsPairs(S, << >>, {})
<1>1. << >> \in Seq(S) /\ Len(<< >>) = 2 * 0
  OBVIOUS
<1>2. {} = {<<(<< >>)[2 * i - 1], (<< >>)[2 * i]>> : i \in 1 .. 0}
  OBVIOUS
<1> QED
  BY <1>1, <1>2 DEF IsPairs

LEMMA JoinPairs ==
  ASSUME NEW S, NEW s, NEW t, NEW V, NEW W, IsPairs(S, s, V), IsPairs(S, t, W)
  PROVE  /\ IsPairs(S, s \o t, V \cup W)
         /\ Len(s \o t) >= Len(s)
         /\ Len(s) \in Nat /\ Len(s \o t) \in Nat
         /\ \A i \in 1 .. Len(s) : (s \o t)[i] = s[i]
<1> DEFINE u == s \o t
<1>1. PICK n \in Nat : Len(s) = 2 * n /\ V = {<<s[2 * i - 1], s[2 * i]>> : i \in 1 .. n}
  BY DEF IsPairs
<1>2. PICK m \in Nat : Len(t) = 2 * m /\ W = {<<t[2 * i - 1], t[2 * i]>> : i \in 1 .. m}
  BY DEF IsPairs
<1>3. /\ u \in Seq(S) /\ Len(u) = 2 * (n + m)
      /\ \A i \in 1 .. 2 * n : u[i] = s[i]
      /\ \A i \in 1 .. 2 * m : u[2 * n + i] = t[i]
  <2>1. s \in Seq(S) /\ t \in Seq(S)
    BY DEF IsPairs
  <2>2. u \in Seq(S) /\ Len(u) = Len(s) + Len(t)
    BY <2>1
  <2>3. \A i \in 1 .. Len(u) : u[i] = IF i <= Len(s) THEN s[i] ELSE t[i - Len(s)]
    BY <2>1
  <2> QED
    BY <1>1, <1>2, <2>2, <2>3
<1> HIDE DEF u
<1> DEFINE P(i) == <<u[2 * i - 1], u[2 * i]>>
<1>4. ASSUME NEW i \in 1 .. n PROVE P(i) = <<s[2 * i - 1], s[2 * i]>>
  <2>1. 2 * i - 1 \in 1 .. 2 * n /\ 2 * i \in 1 .. 2 * n
    OBVIOUS
  <2> QED
    BY <1>3, <2>1
<1>5. ASSUME NEW i \in 1 .. m PROVE P(n + i) = <<t[2 * i - 1], t[2 * i]>>
  <2>1. /\ 2 * i - 1 \in 1 .. 2 * m /\ 2 * i \in 1 .. 2 * m
        /\ 2 * (n + i) - 1 = 2 * n + (2 * i - 1) /\ 2 * (n + i) = 2 * n + 2 * i
    OBVIOUS
  <2> QED
    BY <1>3, <2>1
<1> HIDE DEF P
<1>6. V \cup W = {P(i) : i \in 1 .. n + m}
  <2>1. V = {P(i) : i \in 1 .. n}
    BY <1>1, <1>4
  <2>2. W = {P(n + i) : i \in 1 .. m}
    BY <1>2, <1>5
  <2>3. \A i \in 1 .. n + m : i \in 1 .. n \/ \E j \in 1 .. m : i = n + j
    <3>1. ASSUME NEW i \in 1 .. n + m, i > n PROVE i - n \in 1 .. m /\ i = n + (i - n)
      BY <3>1
    <3> QED
      BY <3>1
  <2>4. \A i \in 1 .. n : i \in 1 .. n + m
    OBVIOUS
  <2>5. \A i \in 1 .. m : n + i \in 1 .. n + m
    OBVIOUS
  <2> QED
    BY <2>1, <2>2, <2>3, <2>4, <2>5
<1>7. IsPairs(S, u, V \cup W)
  <2>1. V \cup W = {<<u[2 * i - 1], u[2 * i]>> : i \in 1 .. n + m}
    BY <1>6 DEF P
  <2>2. n + m \in Nat
    OBVIOUS
  <2> QED
    BY <1>3, <2>1, <2>2 DEF IsPairs
<1>8. Len(u) >= Len(s) /\ Len(s) \in Nat /\ Len(u) \in Nat
  BY <1>1, <1>3
<1> QED
  BY <1>1, <1>3, <1>7, <1>8 DEF u

(* What a pair says, for every launch.                                     *)
Frequency(l) == freqPlan(l)[l.device + 1]

Pairs(l) ==
  {<<Word("-server"), Word(port(l))>>, <<Word("-format"), Word("csv")>>,
   <<Word("-msgtype"), List(types(l))>>}
    \cup (IF l.mode = "survey" THEN {} ELSE {<<Word("-unique"), Word("true")>>})
    \cup (IF l.mode = "mixed" \/ Frequency(l) = 0 THEN {}
          ELSE {<<Word("-centerfreq"), List({Frequency(l)})>>})
    \cup (IF gainSet(l) THEN {<<Word("-tunergain"), Word("40.0")>>} ELSE {})
    \cup (IF l.duration THEN {<<Word("-duration"), Word("2h")>>} ELSE {})

Words(l) ==
  {Word("-server"), Word(port(l)), Word("-format"), Word("csv"), Word("-msgtype"),
   List(types(l)), Word("-unique"), Word("true"), Word("-centerfreq"),
   List({Frequency(l)}), Word("-tunergain"), Word("40.0"), Word("-duration"), Word("2h")}

(* The list the launcher builds is made of these pairs, and its first six  *)
(* arguments are always the same three.                                    *)
LEMMA LaunchedPairs ==
  ASSUME NEW l, l.mode \in Modes
  PROVE  /\ IsPairs(Words(l), Args(l), Pairs(l))
         /\ Len(Args(l)) >= 6
         /\ Args(l)[1] = Word("-server") /\ Args(l)[2] = Word(port(l))
         /\ Args(l)[3] = Word("-format") /\ Args(l)[4] = Word("csv")
         /\ Args(l)[5] = Word("-msgtype") /\ Args(l)[6] = List(types(l))
<1> DEFINE S == Words(l)
           server == <<Word("-server"), Word(port(l))>>
           format == <<Word("-format"), Word("csv")>>
           front == <<Word("-server"), Word(port(l)), Word("-format"), Word("csv")>>
           type == <<Word("-msgtype"), List(types(l))>>
           freq == IF l.mode = "mixed" THEN << >> ELSE freqArgs(Frequency(l))
           gain == gainArgs(l)
           limit == IF l.duration THEN <<Word("-duration"), Word("2h")>> ELSE << >>
           Unique == IF l.mode = "survey" THEN {} ELSE {<<Word("-unique"), Word("true")>>}
           Freq == IF l.mode = "mixed" \/ Frequency(l) = 0 THEN {}
                   ELSE {<<Word("-centerfreq"), List({Frequency(l)})>>}
           Gain == IF gainSet(l) THEN {<<Word("-tunergain"), Word("40.0")>>} ELSE {}
           Limit == IF l.duration THEN {<<Word("-duration"), Word("2h")>>} ELSE {}
<1>1. IsPairs(S, front, {server, format}) /\ IsPairs(S, type, {type})
  <2>1. /\ Word("-server") \in S /\ Word(port(l)) \in S /\ Word("-format") \in S
        /\ Word("csv") \in S /\ Word("-msgtype") \in S /\ List(types(l)) \in S
    BY DEF Words
  <2> HIDE DEF S
  <2>2. IsPairs(S, front, {server, format})
    BY <2>1, TwoPairs
  <2>3. IsPairs(S, type, {type})
    BY <2>1, OnePair
  <2> QED
    BY <2>2, <2>3
<1>2. IsPairs(S, uniqueArgs(l), Unique)
  BY OnePair, NoPair DEF Words, uniqueArgs
<1>3. IsPairs(S, freq, Freq)
  BY OnePair, NoPair DEF Words, freqArgs
<1>4. IsPairs(S, gain, Gain)
  BY OnePair, NoPair DEF Words, gainArgs
<1>5. IsPairs(S, limit, Limit)
  BY OnePair, NoPair DEF Words
<1>6. Args(l) = ((front \o ((type \o uniqueArgs(l)) \o freq)) \o gain) \o limit
  <2>1. l.mode # "user"
    BY DEF Modes
  <2> QED
    BY <2>1 DEF Args, modeArgs, Frequency
<1>7. /\ front[3] = Word("-format") /\ front[4] = Word("csv")
      /\ front[1] = Word("-server") /\ front[2] = Word(port(l)) /\ Len(front) = 4
      /\ type[1] = Word("-msgtype") /\ type[2] = List(types(l)) /\ Len(type) = 2
  OBVIOUS
<1> HIDE DEF S, server, format, front, type, freq, gain, limit, Unique, Freq, Gain, Limit
<1> DEFINE T1 == type \o uniqueArgs(l)
           T2 == T1 \o freq
           X == front \o T2
           Y == X \o gain
<1>10. /\ IsPairs(S, T1, {type} \cup Unique) /\ Len(T1) >= 2
       /\ T1[1] = type[1] /\ T1[2] = type[2]
  <2>1. /\ IsPairs(S, T1, {type} \cup Unique)
        /\ Len(T1) >= Len(type)
        /\ \A i \in 1 .. Len(type) : T1[i] = type[i]
    BY <1>1, <1>2, JoinPairs
  <2> QED
    BY <1>7, <2>1
<1> HIDE DEF T1
<1>11. /\ IsPairs(S, T2, ({type} \cup Unique) \cup Freq) /\ Len(T2) >= 2
       /\ T2[1] = type[1] /\ T2[2] = type[2]
  <2>1. /\ IsPairs(S, T2, ({type} \cup Unique) \cup Freq)
        /\ Len(T2) >= Len(T1) /\ Len(T1) \in Nat /\ Len(T2) \in Nat
        /\ \A i \in 1 .. Len(T1) : T2[i] = T1[i]
    BY <1>3, <1>10, JoinPairs
  <2>2. 1 \in 1 .. Len(T1) /\ 2 \in 1 .. Len(T1)
    BY <1>10, <2>1
  <2> QED
    BY <1>10, <2>1, <2>2
<1> HIDE DEF T2
<1>12. /\ IsPairs(S, X, {server, format} \cup (({type} \cup Unique) \cup Freq))
       /\ Len(X) >= 6
       /\ \A i \in 1 .. 4 : X[i] = front[i]
       /\ X[5] = type[1] /\ X[6] = type[2]
  <2>1. front \in Seq(S) /\ T2 \in Seq(S) /\ Len(T2) \in Nat
    BY <1>1, <1>11 DEF IsPairs
  <2>2. /\ Len(X) = 4 + Len(T2)
        /\ \A i \in 1 .. Len(T2) : X[4 + i] = T2[i]
        /\ \A i \in 1 .. 4 : X[i] = front[i]
    <3>1. /\ Len(front \o T2) = Len(front) + Len(T2)
          /\ \A i \in 1 .. Len(front) + Len(T2) :
               (front \o T2)[i] = IF i <= Len(front) THEN front[i] ELSE T2[i - Len(front)]
      BY <2>1, ConcatProperties
    <3>2. \A i \in 1 .. 4 : i \in 1 .. 4 + Len(T2) /\ i <= 4
      BY <2>1
    <3>3. \A i \in 1 .. Len(T2) : 4 + i \in 1 .. 4 + Len(T2) /\ ~(4 + i <= 4) /\ (4 + i) - 4 = i
      BY <2>1
    <3> QED
      BY <1>7, <3>1, <3>2, <3>3
  <2>3. X[5] = T2[1] /\ X[6] = T2[2]
    <3>1. 1 \in 1 .. Len(T2) /\ 2 \in 1 .. Len(T2) /\ 4 + 1 = 5 /\ 4 + 2 = 6
      BY <1>11, <2>1
    <3>2. X[4 + 1] = T2[1] /\ X[4 + 2] = T2[2]
      BY <2>2, <3>1
    <3> QED
      BY <3>1, <3>2
  <2> QED
    BY <1>1, <1>11, <2>1, <2>2, <2>3, JoinPairs
<1> HIDE DEF X
<1>13. /\ IsPairs(S, Y, ({server, format} \cup (({type} \cup Unique) \cup Freq)) \cup Gain)
       /\ Len(Y) >= 6 /\ \A i \in 1 .. 6 : Y[i] = X[i]
  <2>2. /\ Len(X) \in Nat /\ Len(Y) \in Nat /\ Len(Y) >= Len(X)
        /\ \A i \in 1 .. Len(X) : Y[i] = X[i]
        /\ IsPairs(S, Y, ({server, format} \cup (({type} \cup Unique) \cup Freq)) \cup Gain)
    BY <1>4, <1>12, JoinPairs
  <2>3. \A i \in 1 .. 6 : i \in 1 .. Len(X)
    BY <1>12, <2>2
  <2> QED
    BY <1>12, <2>2, <2>3
<1> HIDE DEF Y
<1> DEFINE Z == Y \o limit
<1>14. /\ IsPairs(S, Z, (({server, format} \cup (({type} \cup Unique) \cup Freq)) \cup Gain) \cup Limit)
       /\ Len(Z) >= 6 /\ \A i \in 1 .. 6 : Z[i] = X[i]
  <2>2. /\ Len(Y) \in Nat /\ Len(Z) \in Nat /\ Len(Z) >= Len(Y)
        /\ \A i \in 1 .. Len(Y) : Z[i] = Y[i]
        /\ IsPairs(S, Z, (({server, format} \cup (({type} \cup Unique) \cup Freq)) \cup Gain) \cup Limit)
    BY <1>5, <1>13, JoinPairs
  <2>3. \A i \in 1 .. 6 : i \in 1 .. Len(Y)
    BY <1>13, <2>2
  <2> QED
    BY <1>13, <2>2, <2>3
<1>15. Args(l) = Z
  BY <1>6 DEF T1, T2, X, Y
<1>16. Pairs(l) = (({server, format} \cup (({type} \cup Unique) \cup Freq)) \cup Gain) \cup Limit
  BY DEF Pairs, server, format, type, Unique, Freq, Gain, Limit
<1> HIDE DEF Z
<1> QED
  BY <1>7, <1>12, <1>14, <1>15, <1>16 DEF S

LEMMA NamesAre ==
  Names = {"all", "gas", "idm", "netidm", "r900", "r900bcd", "scm", "scm+"}
<1>1. DOMAIN Sorted = 1 .. 8
  BY DEF Sorted
<1>2. /\ Sorted[1] = "all" /\ Sorted[2] = "gas" /\ Sorted[3] = "idm" /\ Sorted[4] = "netidm"
      /\ Sorted[5] = "r900" /\ Sorted[6] = "r900bcd" /\ Sorted[7] = "scm" /\ Sorted[8] = "scm+"
  BY DEF Sorted
<1> HIDE DEF Sorted
<1>3. \A i \in 1 .. 8 : i = 1 \/ i = 2 \/ i = 3 \/ i = 4 \/ i = 5 \/ i = 6 \/ i = 7 \/ i = 8
  OBVIOUS
<1> QED
  BY <1>1, <1>2, <1>3 DEF Names

(* In each pair a flag has the value that the mode gives it.               *)
LEMMA PairKinds ==
  ASSUME NEW l, l.mode \in Modes, l.device \in 0 .. 2, NEW w \in Pairs(l)
  PROVE  /\ IsFlag(w[1]) /\ ~IsFlag(w[2])
         /\ w[1].text = "-server" => w[2] = Word(port(l))
         /\ w[1].text = "-format" => w[2] = Word("csv")
         /\ w[1].text = "-msgtype" => w[2] = List(types(l))
         /\ w[1].text = "-unique" => l.mode # "survey"
         /\ w[1].text = "-centerfreq" =>
              w[2] = List({Frequency(l)}) /\ l.mode # "mixed" /\ Frequency(l) # 0
         /\ w[1].text = "-tunergain" => w[2] = Word("40.0")
         /\ w[1].text = "-duration" => w[2] = Word("2h") /\ l.duration
         /\ ~TakesValue(w[1]) => w[1] = Word("-unique") /\ l.mode # "survey"
<1> USE DEF Word, List, IsFlag, TakesValue, Flags, BoolFlags, ListFlags, ValueFlags
<1>1. CASE w = <<Word("-server"), Word(port(l))>>
  <2>1. port(l) \in {"12340", "12341", "12342"}
    <3>1. l.device + 1 \in 1 .. 3
      OBVIOUS
    <3> QED
      BY <3>1 DEF port, Ports
  <2>2. w[1] = Word("-server") /\ w[2] = Word(port(l))
    BY <1>1
  <2> QED
    BY <2>1, <2>2
<1>2. CASE w = <<Word("-format"), Word("csv")>>
  <2>1. w[1] = Word("-format") /\ w[2] = Word("csv")
    BY <1>2
  <2> QED
    BY <2>1
<1>3. CASE w = <<Word("-msgtype"), List(types(l))>>
  <2>1. w[1] = Word("-msgtype") /\ w[2] = List(types(l))
    BY <1>3
  <2> QED
    BY <2>1
<1>4. CASE w = <<Word("-unique"), Word("true")>> /\ l.mode # "survey"
  <2>1. w[1] = Word("-unique") /\ w[2] = Word("true")
    BY <1>4
  <2> QED
    BY <1>4, <2>1
<1>5. CASE /\ w = <<Word("-centerfreq"), List({Frequency(l)})>>
           /\ l.mode # "mixed" /\ Frequency(l) # 0
  <2>1. w[1] = Word("-centerfreq") /\ w[2] = List({Frequency(l)})
    BY <1>5
  <2> QED
    BY <1>5, <2>1
<1>6. CASE w = <<Word("-tunergain"), Word("40.0")>>
  <2>1. w[1] = Word("-tunergain") /\ w[2] = Word("40.0")
    BY <1>6
  <2> QED
    BY <2>1
<1>7. CASE w = <<Word("-duration"), Word("2h")>> /\ l.duration
  <2>1. w[1] = Word("-duration") /\ w[2] = Word("2h")
    BY <1>7
  <2> QED
    BY <1>7, <2>1
<1> QED
  BY <1>1, <1>2, <1>3, <1>4, <1>5, <1>6, <1>7 DEF Pairs

Launched == launch.mode # "user"

LEMMA LaunchIs ==
  ASSUME Started, Launched
  PROVE  launch.mode \in Modes /\ launch.device \in 0 .. 2
<1>1. PICK s \in Starts : launch = s.launch /\ env = s.env
  BY DEF Started
<1>2. s.launch.mode # "user"
  BY <1>1 DEF Launched
<1>3. /\ launch.mode \in Modes
      /\ launch.found \in 1 .. (IF launch.mode = "survey" THEN 3 ELSE 2)
      /\ launch.device \in 0 .. launch.found - 1
  BY <1>1, <1>2, StartAssumption
<1>4. launch.found \in 1 .. 3
  BY <1>3
<1> QED
  BY <1>3, <1>4

(* Where flags and values stand in a launcher's list.                      *)
LEMMA LaunchedList ==
  ASSUME Started, Launched
  PROVE  \E n \in Nat :
           /\ Len(A) = 2 * n
           /\ \A k \in 1 .. n : <<A[2 * k - 1], A[2 * k]>> \in Pairs(launch)
           /\ \A w \in Pairs(launch) : \E k \in 1 .. n : w = <<A[2 * k - 1], A[2 * k]>>
           /\ \A k \in 1 .. n : IsFlag(A[2 * k - 1]) /\ ~IsFlag(A[2 * k])
           /\ \A i \in 1 .. 2 * n : \E k \in 1 .. n : i = 2 * k - 1 \/ i = 2 * k
<1>1. PICK n \in Nat :
        /\ Len(A) = 2 * n
        /\ Pairs(launch) = {<<A[2 * k - 1], A[2 * k]>> : k \in 1 .. n}
  BY LaunchIs, LaunchedPairs DEF IsPairs, A
<1>2. ASSUME NEW k \in 1 .. n PROVE IsFlag(A[2 * k - 1]) /\ ~IsFlag(A[2 * k])
  <2> DEFINE w == <<A[2 * k - 1], A[2 * k]>>
  <2>1. w \in Pairs(launch) /\ w[1] = A[2 * k - 1] /\ w[2] = A[2 * k]
    BY <1>1
  <2> QED
    BY <2>1, LaunchIs, PairKinds
<1>3. ASSUME NEW i \in 1 .. 2 * n PROVE \E k \in 1 .. n : i = 2 * k - 1 \/ i = 2 * k
  <2> DEFINE k == (i + 1) \div 2
  <2>1. k \in 1 .. n /\ (i = 2 * k - 1 \/ i = 2 * k)
    OBVIOUS
  <2> QED
    BY <2>1
<1> QED
  BY <1>1, <1>2, <1>3

(* No value is the name of a flag, whoever wrote the list.                 *)
LEMMA ArgumentsOK ==
  ASSUME Started
  PROVE  /\ \E S : A \in Seq(S)
         /\ Len(A) \in Nat
         /\ \A i \in 2 .. Len(A) :
              TakesValue(A[i - 1]) =>
                ~IsFlag(A[i]) /\ (A[i - 1].text = "-msgtype" => NamesTypes(A[i]))
<1>1. CASE Launched
  <2>1. A \in Seq(Words(launch))
    BY <1>1, LaunchIs, LaunchedPairs DEF IsPairs, A
  <2>2. PICK n \in Nat :
          /\ Len(A) = 2 * n
          /\ \A k \in 1 .. n : <<A[2 * k - 1], A[2 * k]>> \in Pairs(launch)
          /\ \A k \in 1 .. n : IsFlag(A[2 * k - 1]) /\ ~IsFlag(A[2 * k])
          /\ \A i \in 1 .. 2 * n : \E k \in 1 .. n : i = 2 * k - 1 \/ i = 2 * k
    BY <1>1, LaunchedList
  <2>3. ASSUME NEW i \in 2 .. Len(A), TakesValue(A[i - 1])
        PROVE  ~IsFlag(A[i]) /\ (A[i - 1].text = "-msgtype" => NamesTypes(A[i]))
    <3>1. PICK k \in 1 .. n : i - 1 = 2 * k - 1 \/ i - 1 = 2 * k
      <4>1. i - 1 \in 1 .. 2 * n
        BY <2>2
      <4> QED
        BY <2>2, <4>1
    <3>2. IsFlag(A[i - 1])
      BY <2>3 DEF IsFlag, TakesValue
    <3>3. i - 1 = 2 * k - 1 /\ i = 2 * k
      BY <2>2, <3>1, <3>2
    <3>4. ~IsFlag(A[i])
      BY <2>2, <3>3
    <3>5. ASSUME A[i - 1].text = "-msgtype" PROVE NamesTypes(A[i])
      <4> DEFINE w == <<A[2 * k - 1], A[2 * k]>>
      <4>1. w \in Pairs(launch) /\ w[1] = A[i - 1] /\ w[2] = A[i]
        BY <2>2, <3>3
      <4>2. A[i] = List(types(launch))
        BY <1>1, <3>5, <4>1, LaunchIs, PairKinds
      <4> QED
        BY <4>2, NamesAre DEF NamesTypes, List, types
    <3> QED
      BY <3>4, <3>5
  <2> QED
    BY <2>1, <2>2, <2>3
<1>2. CASE ~Launched
  <2>1. PICK s \in Starts : launch = s.launch /\ env = s.env
    BY DEF Started
  <2> DEFINE args == launch.args
  <2>2. A = args
    BY <1>2 DEF A, Args, Launched
  <2>3. /\ Len(args) \in Nat /\ args = [i \in 1 .. Len(args) |-> args[i]]
        /\ \A i \in 2 .. Len(args) : TakesValue(args[i - 1]) => args[i].text \notin Flags
    BY <1>2, <2>1, StartAssumption DEF Launched
  <2>4. \A i \in 2 .. Len(args) : args[i - 1].text = "-msgtype" => NamesTypes(args[i])
    BY <1>2, <2>1, NamesAssumption DEF Launched
  <2> HIDE DEF args
  <2>5. args \in Seq({args[i] : i \in 1 .. Len(args)})
    <3> DEFINE n == Len(args)
               g == [i \in 1 .. n |-> args[i]]
    <3>1. g \in Seq({args[i] : i \in 1 .. n})
      <4>1. n \in Nat
        BY <2>3
      <4> HIDE DEF n
      <4> QED
        BY <4>1, IsASeq
    <3> QED
      BY <2>3, <3>1
  <2> QED
    BY <2>2, <2>3, <2>4, <2>5 DEF IsFlag
<1> QED
  BY <1>1, <1>2
-----------------------------------------------------------------------------
(* What is left of a list behind a flag and its value.                     *)
LEMMA BehindTwo ==
  ASSUME NEW S, NEW s \in Seq(S), Len(s) >= 2
  PROVE  /\ SubSeq(s, 3, Len(s)) \in Seq(S)
         /\ Len(SubSeq(s, 3, Len(s))) = Len(s) - 2
         /\ \A i \in 1 .. Len(s) - 2 : SubSeq(s, 3, Len(s))[i] = s[i + 2]
<1> DEFINE m == 3
           n == Len(s)
<1>1. m \in Int /\ n \in Int /\ n >= 2 /\ \A i \in m .. n : s[i] \in S
  BY LenProperties, ElementOfSeq
<1>2. /\ SubSeq(s, m, n) \in Seq(S)
      /\ Len(SubSeq(s, m, n)) = IF m <= n THEN n - m + 1 ELSE 0
      /\ \A i \in 1 .. n - m + 1 : SubSeq(s, m, n)[i] = s[m + i - 1]
  <2> HIDE DEF m, n
  <2> QED
    BY <1>1, SubSeqProperties
<1>3. /\ (IF m <= n THEN n - m + 1 ELSE 0) = n - 2 /\ n - m + 1 = n - 2
      /\ \A i \in 1 .. n - 2 : m + i - 1 = i + 2
  <2> HIDE DEF n
  <2> QED
    BY ONLY <1>1
<1> QED
  BY <1>2, <1>3

(* What is still to be parsed, and what remains of it behind one or two    *)
(* arguments.                                                              *)
LEMMA RestIs ==
  ASSUME Started, K \in 0 .. Len(A), rest = SubSeq(A, K + 1, Len(A))
  PROVE  /\ Len(rest) \in Nat /\ Len(rest) = Len(A) - K
         /\ rest # << >> <=> K < Len(A)
         /\ K < Len(A) => /\ Head(rest) = A[K + 1]
                          /\ Tail(rest) = SubSeq(A, K + 2, Len(A))
                          /\ Len(Tail(rest)) = Len(A) - (K + 1)
         /\ Len(rest) > 1 => /\ rest[2] = A[K + 2]
                             /\ SubSeq(rest, 3, Len(rest)) = SubSeq(A, K + 3, Len(A))
                             /\ Len(SubSeq(rest, 3, Len(rest))) = Len(A) - (K + 2)
<1> DEFINE n == Len(A)
<1>1. PICK S : A \in Seq(S)
  BY ArgumentsOK
<1>2. n \in Nat /\ K \in 0 .. n /\ \A i \in 1 .. n : A[i] \in S
  BY <1>1, LenProperties, ElementOfSeq
<1>3. rest = SubSeq(A, K + 1, n)
  OBVIOUS
<1>4. \A i \in K + 1 .. n : A[i] \in S
  BY <1>2
<1> HIDE DEF n
<1>5. /\ rest \in Seq(S) /\ Len(rest) = n - K
      /\ \A i \in 1 .. n - K : rest[i] = A[K + i]
  <2> DEFINE m == K + 1
  <2>1. m \in Int /\ n \in Int /\ \A i \in m .. n : A[i] \in S
    BY <1>2, <1>4
  <2>2. /\ SubSeq(A, m, n) \in Seq(S)
        /\ Len(SubSeq(A, m, n)) = IF m <= n THEN n - m + 1 ELSE 0
        /\ \A i \in 1 .. n - m + 1 : SubSeq(A, m, n)[i] = A[m + i - 1]
    <3> HIDE DEF m
    <3> QED
      BY <2>1, SubSeqProperties
  <2>3. n - m + 1 = n - K /\ \A i \in 1 .. n - K : m + i - 1 = K + i
    BY <1>2
  <2> QED
    BY <1>2, <1>3, <2>2, <2>3
<1>6. rest # << >> <=> K < n
  <2>1. rest = << >> <=> Len(rest) = 0
    BY <1>5, EmptySeq
  <2> QED
    BY <1>2, <1>5, <2>1
<1>7. ASSUME K < n
      PROVE  /\ Head(rest) = A[K + 1]
             /\ Tail(rest) = SubSeq(A, K + 2, n) /\ Len(Tail(rest)) = n - (K + 1)
  <2>1. Head(rest) = rest[1] /\ rest[1] = A[K + 1]
    BY <1>2, <1>5, <1>6, <1>7, HeadTailProperties
  <2>2. Tail(rest) \in Seq(S) /\ Len(Tail(rest)) = n - K - 1
    BY <1>2, <1>5, <1>6, <1>7, HeadTailProperties
  <2>3. Tail(rest) = SubSeq(A, K + 2, n)
    <3> DEFINE m == K + 1
    <3>1. m \in Int /\ n \in Int /\ m <= n
      BY <1>2, <1>7
    <3>2. Tail(SubSeq(A, m, n)) = SubSeq(A, m + 1, n)
      <4> HIDE DEF m
      <4> QED
        BY <1>1, <1>4, <3>1, HeadTailOfSubSeq DEF m
    <3>3. m + 1 = K + 2
      BY <1>2
    <3> QED
      BY <1>3, <3>2, <3>3
  <2> QED
    BY <1>2, <2>1, <2>2, <2>3
<1>8. ASSUME Len(rest) > 1
      PROVE  /\ rest[2] = A[K + 2]
             /\ SubSeq(rest, 3, Len(rest)) = SubSeq(A, K + 3, n)
             /\ Len(SubSeq(rest, 3, Len(rest))) = n - (K + 2)
  <2>1. rest[2] = A[K + 2] /\ K + 2 <= n
    BY <1>2, <1>5, <1>8
  <2> DEFINE s == SubSeq(rest, 3, n - K)
             t == SubSeq(A, K + 3, n)
  <2>2. /\ s \in Seq(S) /\ Len(s) = (n - K) - 2
        /\ \A i \in 1 .. (n - K) - 2 : s[i] = rest[i + 2]
    <3>1. Len(rest) = n - K /\ n - K >= 2
      BY <1>2, <1>5, <2>1
    <3> QED
      BY <1>5, <3>1, BehindTwo
  <2>3. /\ t \in Seq(S) /\ Len(t) = (n - K) - 2
        /\ \A i \in 1 .. (n - K) - 2 : t[i] = A[K + 2 + i]
    <3> DEFINE m == K + 3
    <3>1. m \in Int /\ n \in Int /\ \A i \in m .. n : A[i] \in S
      BY <1>2
    <3>2. /\ SubSeq(A, m, n) \in Seq(S)
          /\ Len(SubSeq(A, m, n)) = IF m <= n THEN n - m + 1 ELSE 0
          /\ \A i \in 1 .. n - m + 1 : SubSeq(A, m, n)[i] = A[m + i - 1]
      <4> HIDE DEF m
      <4> QED
        BY <3>1, SubSeqProperties
    <3>3. /\ n - m + 1 = (n - K) - 2 /\ (IF m <= n THEN n - m + 1 ELSE 0) = (n - K) - 2
          /\ \A i \in 1 .. (n - K) - 2 : m + i - 1 = K + 2 + i
      BY <1>2, <2>1
    <3> QED
      BY <3>2, <3>3
  <2>4. \A i \in 1 .. (n - K) - 2 : rest[i + 2] = A[K + 2 + i]
    <3>1. ASSUME NEW i \in 1 .. (n - K) - 2 PROVE rest[i + 2] = A[K + 2 + i]
      <4>1. i + 2 \in 1 .. n - K /\ K + (i + 2) = K + 2 + i
        BY <1>2, <2>1
      <4> QED
        BY <1>5, <4>1
    <3> QED
      BY <3>1
  <2> HIDE DEF s, t
  <2>5. s = t
    BY <2>2, <2>3, <2>4, SeqEqual
  <2>6. (n - K) - 2 = n - (K + 2)
    BY <1>2
  <2> QED
    BY <1>5, <2>1, <2>2, <2>5, <2>6 DEF s, t
<1> QED
  BY <1>2, <1>5, <1>6, <1>7, <1>8 DEF n
(* Nothing is parsed and nothing set when rtlamr starts.                   *)
LEMMA InitParseInv == Init => ParseInv
<1> SUFFICES ASSUME Init PROVE ParseInv
  OBVIOUS
<1>1. Started /\ rest = A /\ pc = "env" /\ given = {} /\ value = [f \in Flags |-> Default(f)]
  BY DEF Init, FlagsInit, Started, A
<1>2. PICK S : A \in Seq(S)
  BY <1>1, ArgumentsOK
<1>3. K = 0 /\ Len(A) \in Nat /\ SubSeq(A, 1, Len(A)) = A
  BY <1>1, <1>2, SubSeqFull, LenProperties DEF K
<1>4. K \in 0 .. Len(A) /\ rest = SubSeq(A, K + 1, Len(A))
  BY <1>1, <1>3
<1> QED
  BY <1>1, <1>3, <1>4 DEF ParseInv, Before, After, Built

(* Nothing but the parse changes the flags.                                *)
LEMMA OthersKeepFlags ==
  ASSUME ParseInv, UNCHANGED flagVars, pc \in After \cup {"exit"},
         pc' \in After \cup {"exit"}, pc' = "exit" <=> pc = "exit"
  PROVE  ParseInv'
<1>1. UNCHANGED <<launch, env, rest, value, given>>
  BY DEF flagVars
<1>2. /\ A' = A /\ K' = K /\ Parsed' = Parsed /\ (Started <=> Started')
      /\ \A i : Got(i)' = Got(i)
      /\ \A f : Initial(f)' = Initial(f)
      /\ FromEnv' = FromEnv
  BY <1>1 DEF A, K, Parsed, Started, Got, Initial, FromEnv
<1>3. (Between => Between') /\ (GivenAre => GivenAre') /\ (ValuesAre => ValuesAre')
  <2>1. Between => Between'
    BY <1>2 DEF Between
  <2>2. GivenAre => GivenAre'
    BY <1>1, <1>2 DEF GivenAre
  <2>3. ValuesAre => ValuesAre'
    BY <1>1, <1>2 DEF ValuesAre
  <2> QED
    BY <2>1, <2>2, <2>3
<1>4. pc \in After => pc' \in After
  BY DEF After, Built
<1>5. pc \in After => pc # "exit" /\ pc # "env" /\ pc # "parse"
  BY DEF After, Built
<1>6. pc' # "env" /\ pc' # "parse"
  BY DEF After, Built
<1> QED
  BY <1>1, <1>2, <1>3, <1>4, <1>5, <1>6 DEF ParseInv

(* The environment sets the flags first, each from its own default.        *)
LEMMA EnvKeepsParse == ASSUME ParseInv, EnvOverride PROVE ParseInv'
<1>1. /\ pc = "env" /\ pc' = "parse" /\ UNCHANGED <<launch, env, rest>>
      /\ value' = [f \in Flags |->
                     IF f \in DOMAIN env THEN Assigned(f, value[f], env[f]) ELSE value[f]]
      /\ given' = FromEnv
  BY DEF EnvOverride, FromEnv
<1>2. /\ A' = A /\ K' = K /\ Started /\ Started' /\ FromEnv' = FromEnv
      /\ \A f : Initial(f)' = Initial(f)
  BY <1>1 DEF A, K, Started, FromEnv, Initial, ParseInv
<1>3. K = 0 /\ Parsed' = {}
  <2>1. K = 0
    BY <1>1 DEF ParseInv
  <2> QED
    BY <1>2, <2>1 DEF Parsed, A, K
<1>4. \A f \in Flags : value[f] = Default(f)
  BY <1>1 DEF ParseInv
<1>5. DOMAIN value' = Flags /\ \A f \in Flags : value'[f] = Initial(f)
  BY <1>1, <1>4 DEF Initial
<1>6. Between' /\ GivenAre'
  BY <1>1, <1>2, <1>3 DEF Between, GivenAre
<1>7. ValuesAre'
  <2>1. ASSUME NEW f \in ListFlags, f \in DOMAIN env
        PROVE  env[f].items \subseteq value'[f].items
    <3>1. value'[f] = List(Default(f).items \cup env[f].items)
      BY <1>5, <2>1 DEF Initial, Assigned, Flags
    <3> QED
      BY <3>1 DEF List
  <2>2. \A f \in Flags : value'[f] = Initial(f)'
    BY <1>2, <1>5
  <2> QED
    BY <1>1, <1>3, <2>1, <2>2 DEF ValuesAre
<1> QED
  BY <1>1, <1>2, <1>3, <1>5, <1>6, <1>7 DEF ParseInv, Before, After, Built

(* A flag and its value are parsed.                                        *)
LEMMA ValueKeepsParse == ASSUME ParseInv, ParseValueFlag PROVE ParseInv'
<1> DEFINE f == A[K + 1].text
           arg == A[K + 2]
<1>0. /\ Started /\ K \in 0 .. Len(A) /\ rest = SubSeq(A, K + 1, Len(A))
      /\ DOMAIN value = Flags /\ Between /\ GivenAre /\ ValuesAre
      /\ Len(A) \in Nat
  BY ArgumentsOK DEF ParseInv, ParseValueFlag
<1>1. /\ K + 2 <= Len(A) /\ Head(rest) = A[K + 1] /\ rest[2] = arg
      /\ SubSeq(rest, 3, Len(rest)) = SubSeq(A, K + 3, Len(A))
      /\ Len(SubSeq(rest, 3, Len(rest))) = Len(A) - (K + 2)
  <2>1. Len(rest) > 1
    BY DEF ParseValueFlag
  <2>2. Len(rest) = Len(A) - K /\ K < Len(A)
    BY <1>0, <2>1, RestIs
  <2> QED
    BY <1>0, <2>1, <2>2, RestIs
<1>2. /\ pc = "parse" /\ TakesValue(A[K + 1]) /\ f \in Flags \ BoolFlags
      /\ value' = [value EXCEPT ![f] = Assigned(f, value[f], arg)]
      /\ given' = IF Parses(arg) THEN given \cup {f} ELSE given
      /\ pc' = IF Parses(arg) THEN "parse" ELSE "exit"
      /\ rest' = SubSeq(A, K + 3, Len(A)) /\ Len(rest') = Len(A) - (K + 2)
      /\ UNCHANGED <<launch, env>>
  BY <1>1 DEF ParseValueFlag, FromArgument, TakesValue
<1>3. /\ A' = A /\ Started' /\ FromEnv' = FromEnv
      /\ (\A g : Initial(g)' = Initial(g)) /\ (\A i : Got(i)' = Got(i))
  BY <1>0, <1>2 DEF A, Started, FromEnv, Initial, Got
<1>4. /\ K' = K + 2 /\ K' \in 0 .. Len(A) /\ rest' = SubSeq(A, K' + 1, Len(A))
      /\ K \in Nat
  <2>1. K' = Len(A) - Len(rest')
    BY <1>3 DEF K
  <2>2. K' = K + 2 /\ K' + 1 = K + 3 /\ K \in Nat
    BY <1>0, <1>2, <2>1
  <2>3. K + 2 \in 0 .. Len(A)
    BY <1>0, <1>1, <2>2
  <2> QED
    BY <1>2, <2>2, <2>3
<1>5. DOMAIN value' = Flags
  BY <1>0, <1>2
<1>6. CASE ~Parses(arg)
  <2>1. pc' = "exit"
    BY <1>2, <1>6
  <2> QED
    BY <1>3, <1>4, <1>5, <2>1 DEF ParseInv, Before, After, Built
<1>7. CASE Parses(arg)
  <2>1. pc' = "parse" /\ given' = given \cup {f}
    BY <1>2, <1>7
  <2>2. Parsed = 1 .. K /\ Parsed' = 1 .. K + 2 /\ Parsed' = Parsed \cup {K + 1, K + 2}
    <3>1. Parsed = 1 .. K /\ Parsed' = 1 .. K'
      BY <1>3 DEF Parsed, K, A
    <3> QED
      BY <1>4, <3>1
  <2>3. ~IsFlag(arg) /\ IsFlag(A[K + 1]) /\ ~TakesValue(arg)
    <3>1. K + 2 \in 2 .. Len(A) /\ (K + 2) - 1 = K + 1
      BY <1>0, <1>1, <1>4
    <3>2. ~IsFlag(arg)
      BY <1>0, <1>2, <3>1, ArgumentsOK
    <3> QED
      BY <1>2, <3>2 DEF IsFlag, TakesValue
  <2>4. Between'
    <3>1. K' > 0 => ~TakesValue(A'[K'])
      BY <1>3, <1>4, <2>3
    <3>2. ASSUME NEW i \in Parsed'
          PROVE  IsFlag(A'[i]) \/ (i > 1 /\ TakesValue(A'[i - 1]))
      <4>1. CASE i \in Parsed
        BY <1>0, <1>3, <4>1 DEF Between
      <4>2. CASE i = K + 1
        BY <1>3, <2>3, <4>2
      <4>3. CASE i = K + 2
        <5>1. i > 1 /\ i - 1 = K + 1
          BY <1>4, <4>3
        <5> QED
          BY <1>2, <1>3, <5>1
      <4> QED
        BY <2>2, <4>1, <4>2, <4>3
    <3> QED
      BY <3>1, <3>2 DEF Between
  <2>5. GivenAre'
    <3>1. {i \in Parsed' : IsFlag(A'[i])} = {i \in Parsed : IsFlag(A[i])} \cup {K + 1}
      BY <1>3, <2>2, <2>3
    <3>2. {A'[i].text : i \in {i \in Parsed' : IsFlag(A'[i])}} =
            {A[i].text : i \in {i \in Parsed : IsFlag(A[i])}} \cup {f}
      BY <1>3, <3>1
    <3> QED
      BY <1>0, <1>3, <2>1, <3>2 DEF GivenAre
  <2>6. ValuesAre'
    <3> DEFINE OK(g) ==
          IF g \in ListFlags
          THEN /\ g \in DOMAIN env => env[g].items \subseteq value'[g].items
               /\ \A i \in Parsed' : A[i].text = g => A[i + 1].items \subseteq value'[g].items
          ELSE \/ \E i \in Parsed' : A[i].text = g /\ value'[g] = Got(i)
               \/ value'[g] = Initial(g) /\ \A i \in Parsed' : A[i].text # g
    <3>0. arg.text \notin Flags
      BY <2>3 DEF IsFlag
    <3>1. ASSUME NEW g \in Flags, g # f PROVE OK(g)
      <4>1. value'[g] = value[g]
        BY <1>0, <1>2, <3>1
      <4>2. \A i \in {K + 1, K + 2} : A[i].text # g
        BY <3>0, <3>1
      <4>3. \A i \in Parsed' : A[i].text = g => i \in Parsed
        BY <2>2, <4>2
      <4>4. Parsed \subseteq Parsed'
        BY <2>2
      <4>5. CASE g \in ListFlags
        <5>1. /\ g \in DOMAIN env => env[g].items \subseteq value[g].items
              /\ \A i \in Parsed : A[i].text = g => A[i + 1].items \subseteq value[g].items
          BY <1>0, <4>5 DEF ValuesAre
        <5> QED
          BY <4>1, <4>3, <4>5, <5>1
      <4>6. CASE g \notin ListFlags
        <5>1. \/ \E i \in Parsed : A[i].text = g /\ value[g] = Got(i)
              \/ value[g] = Initial(g) /\ \A i \in Parsed : A[i].text # g
          BY <1>0, <4>6 DEF ValuesAre
        <5> QED
          BY <4>1, <4>3, <4>4, <4>6, <5>1
      <4> QED
        BY <4>5, <4>6
    <3>2. ASSUME f \in ListFlags PROVE OK(f)
      <4>1. value'[f].items = value[f].items \cup arg.items
        BY <1>0, <1>2, <3>2 DEF Assigned, List
      <4>2. A[K + 2].text # f /\ (K + 1) + 1 = K + 2
        BY <1>2, <1>4, <3>0
      <4>3. /\ f \in DOMAIN env => env[f].items \subseteq value[f].items
            /\ \A i \in Parsed : A[i].text = f => A[i + 1].items \subseteq value[f].items
        BY <1>0, <1>2, <3>2 DEF ValuesAre
      <4>4. ASSUME NEW i \in Parsed', A[i].text = f PROVE A[i + 1].items \subseteq value'[f].items
        <5>1. i \in Parsed \/ i = K + 1
          BY <2>2, <4>2, <4>4
        <5> QED
          BY <4>1, <4>2, <4>3, <4>4, <5>1
      <4> QED
        BY <3>2, <4>1, <4>3, <4>4
    <3>3. ASSUME f \notin ListFlags PROVE OK(f)
      <4>1. value'[f] = arg
        BY <1>0, <1>2, <1>7, <3>3 DEF Assigned, Parses
      <4>2. Got(K + 1) = arg
        <5>1. (K + 1) + 1 = K + 2
          BY <1>4
        <5> QED
          BY <1>2, <5>1 DEF Got
      <4> QED
        BY <2>2, <3>3, <4>1, <4>2
    <3>4. \A g \in Flags : OK(g)
      BY <3>1, <3>2, <3>3, <1>2
    <3> QED
      BY <1>2, <1>3, <3>4 DEF ValuesAre
  <2> QED
    BY <1>3, <1>4, <1>5, <2>1, <2>4, <2>5, <2>6 DEF ParseInv, Before, After, Built
<1> QED
  BY <1>6, <1>7

LEMMA MissingKeepsParse == ASSUME ParseInv, MissingValue PROVE ParseInv'
<1>1. /\ Len(rest) = 1 /\ rest' = << >> /\ pc' = "exit"
      /\ UNCHANGED <<launch, env, value, given>>
  BY DEF MissingValue
<1>2. A' = A /\ Started' /\ Len(A) \in Nat /\ DOMAIN value' = Flags
  BY <1>1, ArgumentsOK DEF A, Started, ParseInv
<1>3. K' = Len(A) /\ K' \in 0 .. Len(A)
  BY <1>1, <1>2 DEF K
<1>4. rest' = SubSeq(A, K' + 1, Len(A))
  BY <1>1, <1>2, <1>3, SubSeqEmpty
<1> QED
  BY <1>1, <1>2, <1>3, <1>4 DEF ParseInv, After, Built

(* A flag without a value is parsed.                                       *)
LEMMA BoolKeepsParse == ASSUME ParseInv, ParseBoolFlag PROVE ParseInv'
<1> DEFINE f == A[K + 1].text
<1>0. /\ Started /\ K \in 0 .. Len(A) /\ rest = SubSeq(A, K + 1, Len(A))
      /\ DOMAIN value = Flags /\ Between /\ GivenAre /\ ValuesAre
      /\ Len(A) \in Nat
  BY ArgumentsOK DEF ParseInv, ParseBoolFlag
<1>1. /\ K < Len(A) /\ Head(rest) = A[K + 1]
      /\ Tail(rest) = SubSeq(A, K + 2, Len(A)) /\ Len(Tail(rest)) = Len(A) - (K + 1)
  BY <1>0, RestIs DEF ParseBoolFlag
<1>2. /\ pc = "parse" /\ f \in BoolFlags
      /\ value' = [value EXCEPT ![f] = Word("true")]
      /\ given' = given \cup {f}
      /\ pc' = "parse"
      /\ rest' = SubSeq(A, K + 2, Len(A)) /\ Len(rest') = Len(A) - (K + 1)
      /\ UNCHANGED <<launch, env>>
  BY <1>1 DEF ParseBoolFlag
<1>3. /\ A' = A /\ Started' /\ FromEnv' = FromEnv
      /\ (\A g : Initial(g)' = Initial(g)) /\ (\A i : Got(i)' = Got(i))
  BY <1>0, <1>2 DEF A, Started, FromEnv, Initial, Got
<1>4. /\ K' = K + 1 /\ K' \in 0 .. Len(A) /\ rest' = SubSeq(A, K' + 1, Len(A))
      /\ K \in Nat
  <2>1. K' = Len(A) - Len(rest')
    BY <1>3 DEF K
  <2>2. K' = K + 1 /\ K' + 1 = K + 2
    BY <1>0, <1>2, <2>1
  <2> QED
    BY <1>0, <1>1, <1>2, <2>2
<1>5. DOMAIN value' = Flags
  BY <1>0, <1>2
<1>6. Parsed' = Parsed \cup {K + 1}
  <2>1. Parsed = 1 .. K /\ Parsed' = 1 .. K'
    BY <1>3 DEF Parsed, K, A
  <2> QED
    BY <1>4, <2>1
<1>7. f \in Flags /\ IsFlag(A[K + 1]) /\ ~TakesValue(A[K + 1])
  BY <1>2 DEF IsFlag, TakesValue, Flags
<1>8. Between'
  <2>1. K' > 0 => ~TakesValue(A'[K'])
    BY <1>3, <1>4, <1>7
  <2>2. ASSUME NEW i \in Parsed'
        PROVE  IsFlag(A'[i]) \/ (i > 1 /\ TakesValue(A'[i - 1]))
    BY <1>0, <1>3, <1>6, <1>7 DEF Between
  <2> QED
    BY <2>1, <2>2 DEF Between
<1>9. GivenAre'
  <2>1. {i \in Parsed' : IsFlag(A'[i])} = {i \in Parsed : IsFlag(A[i])} \cup {K + 1}
    BY <1>3, <1>6, <1>7
  <2>2. {A'[i].text : i \in {i \in Parsed' : IsFlag(A'[i])}} =
          {A[i].text : i \in {i \in Parsed : IsFlag(A[i])}} \cup {f}
    BY <1>3, <2>1
  <2> QED
    BY <1>0, <1>2, <1>3, <2>2 DEF GivenAre
<1>10. ValuesAre'
  <2> DEFINE OK(g) ==
        IF g \in ListFlags
        THEN /\ g \in DOMAIN env => env[g].items \subseteq value'[g].items
             /\ \A i \in Parsed' : A[i].text = g => A[i + 1].items \subseteq value'[g].items
        ELSE \/ \E i \in Parsed' : A[i].text = g /\ value'[g] = Got(i)
             \/ value'[g] = Initial(g) /\ \A i \in Parsed' : A[i].text # g
  <2>1. ASSUME NEW g \in Flags, g # f PROVE OK(g)
    <3>1. value'[g] = value[g]
      BY <1>0, <1>2, <2>1
    <3> QED
      BY <1>0, <1>6, <2>1, <3>1 DEF ValuesAre
  <2>2. OK(f)
    <3>1. f \notin ListFlags
      BY <1>2 DEF BoolFlags, ListFlags
    <3>2. value'[f] = Word("true") /\ Got(K + 1) = Word("true")
      BY <1>0, <1>2, <1>7 DEF Got
    <3> QED
      BY <1>6, <3>1, <3>2
  <2>3. \A g \in Flags : OK(g)
    BY <2>1, <2>2
  <2> QED
    BY <1>2, <1>3, <2>3 DEF ValuesAre
<1> QED
  BY <1>2, <1>3, <1>4, <1>5, <1>8, <1>9, <1>10 DEF ParseInv, Before, After, Built

LEMMA EndKeepsParse == ASSUME ParseInv, ParseEnds PROVE ParseInv'
<1>0. /\ Started /\ K \in 0 .. Len(A) /\ rest = SubSeq(A, K + 1, Len(A))
      /\ DOMAIN value = Flags /\ Between /\ GivenAre /\ ValuesAre
      /\ Len(A) \in Nat
  BY ArgumentsOK DEF ParseInv, ParseEnds
<1>1. /\ UNCHANGED <<launch, env, rest, value, given>>
      /\ pc' \in {"exit", "flags"}
      /\ rest # << >> => Head(rest).text \notin Flags
  BY DEF ParseEnds, flagVars
<1>2. /\ A' = A /\ K' = K /\ Parsed' = Parsed /\ (Started <=> Started')
      /\ \A i : Got(i)' = Got(i)
      /\ \A f : Initial(f)' = Initial(f)
      /\ FromEnv' = FromEnv
  BY <1>1 DEF A, K, Parsed, Started, Got, Initial, FromEnv
<1>3. K = Len(A) \/ ~IsFlag(A[K + 1])
  <2>1. K < Len(A) => rest # << >> /\ Head(rest) = A[K + 1]
    BY <1>0, RestIs
  <2> QED
    BY <1>0, <1>1, <2>1 DEF IsFlag
<1>4. Between' /\ GivenAre'
  BY <1>0, <1>1, <1>2 DEF Between, GivenAre
<1>5. ValuesAre'
  BY <1>0, <1>1, <1>2 DEF ValuesAre
<1> QED
  BY <1>0, <1>1, <1>2, <1>3, <1>4, <1>5 DEF ParseInv, Before, After, Built

(* One argument after the other, and then nothing more.                    *)
LEMMA NextParseInv == ParseInv /\ [Next]_vars => ParseInv'
<1> SUFFICES ASSUME ParseInv, [Next]_vars PROVE ParseInv'
  OBVIOUS
<1>1. CASE ParseFlags
  BY <1>1, EnvKeepsParse, ValueKeepsParse, MissingKeepsParse, BoolKeepsParse, EndKeepsParse
     DEF ParseFlags
<1>2. CASE SetUpDecoder \/ Connect \/ Visit
  <2>1. UNCHANGED flagVars
    BY <1>2 DEF SetUpDecoder, Connect, Visit, HandleFlags, SortTypes, UnknownType,
                RegisterProtocol, Register, Allocate
  <2>2. /\ pc \in {"flags", "msgtype", "register", "connect", "visit"}
        /\ pc' \in {"msgtype", "fatal", "register", "connect", "visit", "cancelled", "ready"}
    BY <1>2 DEF SetUpDecoder, Connect, Visit, HandleFlags, SortTypes, UnknownType,
                RegisterProtocol, Register, Allocate
  <2> QED
    BY <2>1, <2>2, OthersKeepFlags DEF After, Built
<1>3. CASE UNCHANGED vars
  <2>1. UNCHANGED <<pc, launch, env, rest, value, given>>
    BY <1>3 DEF vars, flagVars
  <2>2. /\ A' = A /\ K' = K /\ Parsed' = Parsed /\ (Started <=> Started')
        /\ \A i : Got(i)' = Got(i)
        /\ \A f : Initial(f)' = Initial(f)
        /\ FromEnv' = FromEnv
    BY <2>1 DEF A, K, Parsed, Started, Got, Initial, FromEnv
  <2>3. (Between => Between') /\ (GivenAre => GivenAre')
    BY <2>1, <2>2 DEF Between, GivenAre
  <2>4. ValuesAre => ValuesAre'
    BY <2>1, <2>2 DEF ValuesAre
  <2> QED
    BY <2>1, <2>2, <2>3, <2>4 DEF ParseInv
<1> QED
  BY <1>1, <1>2, <1>3 DEF Next, Over

(* What the parse leaves behind, for every list and every environment.     *)
(* At every moment of the start, and whoever wrote the arguments, what has *)
(* been parsed accounts for every flag: a theorem about EnvOverride and    *)
(* flag.Parse, on which all that is said of the flags below rests.         *)
THEOREM ParseInvariance == Spec => []ParseInv
BY InitParseInv, NextParseInv, PTL DEF Spec
-----------------------------------------------------------------------------
(* What the parsers' configurations have in common.                        *)
LEMMA ParserFacts ==
  ASSUME NEW p \in Registered
  PROVE  /\ ParserCfg(p).Preamble \in Preambles
         /\ ParserCfg(p).PreambleSymbols \in {16, 21, 32}
         /\ ParserCfg(p).PacketSymbols \in {96, 116, 128, 736}
         /\ ParserCfg(p).PreambleSymbols <= ParserCfg(p).PacketSymbols
         /\ ParserCfg(p).bytes \in {0, 12, 16, 92}
         /\ ParserCfg(p).bytes * 8 <= ParserCfg(p).PacketSymbols
         /\ ParserCfg(p).Preamble = "r900" =>
              ParserCfg(p).PreambleSymbols = 32 /\ ParserCfg(p).PacketSymbols = 116
<1>1. CASE p \in {"idm", "netidm"}
  BY <1>1 DEF ParserCfg, IDM, Preambles
<1>2. CASE p \in {"r900", "r900bcd"}
  BY <1>2 DEF ParserCfg, R900, Preambles
<1>3. CASE p = "scm"
  BY <1>3 DEF ParserCfg, SCM, Preambles
<1>4. CASE p = "scm+"
  BY <1>4 DEF ParserCfg, SCMPlus, Preambles
<1> QED
  BY <1>1, <1>2, <1>3, <1>4 DEF Registered

LEMMA LargerIs ==
  ASSUME NEW a \in Int, NEW b \in Int PROVE Larger(a, b) = IF a >= b THEN a ELSE b
<1> DEFINE c == IF a >= b THEN a ELSE b
<1>1. c \in {a, b} /\ \A x \in {a, b} : c >= x
  OBVIOUS
<1>2. \A y \in {a, b} : (\A x \in {a, b} : y >= x) => y = c
  OBVIOUS
<1>3. Max({a, b}) = c
  BY <1>1, <1>2 DEF Max
<1> QED
  BY <1>3 DEF Larger

(* Nothing is registered yet.                                              *)
LEMMA NoneRegistered ==
  ASSUME Done = {}, preambles = [pre \in Preambles |-> << >>],
         Cfg.ChipLength = 0, Cfg.PreambleSymbols = 0, Cfg.PacketSymbols = 0
  PROVE  OncePerPreamble /\ LargestOf
<1>1. \A pre \in Preambles : Own(pre) = {} /\ preambles[pre] = << >>
  BY DEF Own
<1>2. << >> \in Seq({}) /\ DOMAIN << >> = {}
  OBVIOUS
<1>3. OncePerPreamble
  BY <1>1, <1>2 DEF OncePerPreamble
<1> QED
  BY <1>3 DEF LargestOf

LEMMA InitGeometryInv == Init => GeometryInv
<1> SUFFICES ASSUME Init PROVE GeometryInv
  OBVIOUS
<1>1. /\ pc = "env" /\ msgType = {} /\ names = {} /\ len = << >>
      /\ preambles = [pre \in Preambles |-> << >>]
      /\ Cfg.ChipLength = 0 /\ Cfg.PreambleSymbols = 0 /\ Cfg.PacketSymbols = 0
  BY DEF Init, FlagsInit, DecoderInit
<1>2. OncePerPreamble /\ LargestOf
  BY <1>1, NoneRegistered DEF Done
<1> QED
  BY <1>1, <1>2 DEF GeometryInv, Built

(* What is said of the decoder depends on it and on the flags.             *)
LEMMA SameDecoder ==
  ASSUME UNCHANGED <<value, given, decoderVars>>
  PROVE  /\ Done' = Done /\ Wanted' = Wanted /\ Lengths' = Lengths /\ CenterFreq' = CenterFreq
         /\ ValidLength' <=> ValidLength
         /\ OncePerPreamble => OncePerPreamble'
         /\ LargestOf => LargestOf'
         /\ \A f : Added(f)' = Added(f)
<1>1. UNCHANGED <<msgType, names, preambles, Cfg, len>>
  BY DEF decoderVars
<1>2. Done' = Done /\ \A pre : Own(pre)' = Own(pre)
  BY <1>1 DEF Done, Own
<1>3. symbolLength' = symbolLength
  BY DEF symbolLength
<1>4. Wanted' = Wanted /\ CenterFreq' = CenterFreq /\ (ValidLength' <=> ValidLength)
  BY <1>1, <1>3 DEF Wanted, CenterFreq, ValidLength
<1>5. Lengths' = Lengths
  BY <1>1 DEF Lengths, BlockSize, SymbolLength, BufferLength, PreambleLength, PacketLength
<1>6. OncePerPreamble => OncePerPreamble'
  BY <1>1, <1>2 DEF OncePerPreamble
<1>7. LargestOf => LargestOf'
  BY <1>1, <1>2, <1>3 DEF LargestOf
<1>8. \A f : Added(f)' = Added(f)
  BY DEF Added, InForce
<1> QED
  BY <1>2, <1>4, <1>5, <1>6, <1>7, <1>8

(* One more type: the lengths grow to what it asks for, ...                *)
LEMMA RegisterKeepsLargest ==
  ASSUME GeometryInv, pc = "register",
         NEW name \in Registered, name \in names, Register(name)
  PROVE  LargestOf' /\ Done' = Done \cup {name} /\ Done' \subseteq Registered
<1> DEFINE p == ParserCfg(name)
<1>1. /\ names \subseteq msgType /\ Done \subseteq Registered /\ LargestOf /\ ValidLength
  BY DEF GeometryInv, Built
<1>2. /\ Cfg'.CenterFreq = p.CenterFreq
      /\ Cfg'.ChipLength = Larger(Cfg.ChipLength, symbolLength)
      /\ Cfg'.PreambleSymbols = Larger(Cfg.PreambleSymbols, p.PreambleSymbols)
      /\ Cfg'.PacketSymbols = Larger(Cfg.PacketSymbols, p.PacketSymbols)
      /\ names' = names \ {name} /\ msgType' = msgType /\ value' = value
  BY DEF Register, Merged, flagVars
<1>3. Done' = Done \cup {name} /\ Done' # {} /\ Done' \subseteq Registered
  BY <1>1, <1>2 DEF Done
<1>4. symbolLength' = symbolLength /\ symbolLength \in Nat
  <2>1. symbolLength' = symbolLength
    BY <1>2 DEF symbolLength
  <2>2. symbolLength \in Nat
    BY <1>1 DEF ValidLength
  <2> QED
    BY <2>1, <2>2
<1>5. /\ p.PreambleSymbols \in Nat /\ p.PacketSymbols \in Nat
      /\ \A q \in Done : /\ ParserCfg(q).PreambleSymbols \in Nat
                         /\ ParserCfg(q).PacketSymbols \in Nat
  BY <1>1, ParserFacts
<1>6. /\ Cfg.PreambleSymbols \in Nat /\ Cfg.PacketSymbols \in Nat
      /\ Cfg.ChipLength \in Nat /\ Cfg.ChipLength <= symbolLength
  BY <1>1, <1>4, <1>5 DEF LargestOf
<1>7. /\ Cfg'.ChipLength = symbolLength
      /\ Cfg'.PreambleSymbols = IF Cfg.PreambleSymbols >= p.PreambleSymbols
                                THEN Cfg.PreambleSymbols ELSE p.PreambleSymbols
      /\ Cfg'.PacketSymbols = IF Cfg.PacketSymbols >= p.PacketSymbols
                              THEN Cfg.PacketSymbols ELSE p.PacketSymbols
  BY <1>2, <1>4, <1>5, <1>6, LargerIs
<1>8. \A q \in Done' : /\ ParserCfg(q).PreambleSymbols <= Cfg'.PreambleSymbols
                       /\ ParserCfg(q).PacketSymbols <= Cfg'.PacketSymbols
  <2>1. /\ p.PreambleSymbols <= Cfg'.PreambleSymbols
        /\ p.PacketSymbols <= Cfg'.PacketSymbols
    BY <1>5, <1>6, <1>7
  <2>2. ASSUME NEW q \in Done
        PROVE  /\ ParserCfg(q).PreambleSymbols <= Cfg'.PreambleSymbols
               /\ ParserCfg(q).PacketSymbols <= Cfg'.PacketSymbols
    <3>1. /\ ParserCfg(q).PreambleSymbols <= Cfg.PreambleSymbols
          /\ ParserCfg(q).PacketSymbols <= Cfg.PacketSymbols
      BY <1>1 DEF LargestOf
    <3> QED
      BY <1>5, <1>6, <1>7, <3>1
  <2> QED
    BY <1>3, <2>1, <2>2
<1>9. /\ \E q \in Done' : Cfg'.PreambleSymbols = ParserCfg(q).PreambleSymbols
      /\ \E q \in Done' : Cfg'.PacketSymbols = ParserCfg(q).PacketSymbols
  <2>1. CASE Done = {}
    <3>1. Cfg.PreambleSymbols = 0 /\ Cfg.PacketSymbols = 0
      BY <1>1, <2>1 DEF LargestOf
    <3>2. Cfg'.PreambleSymbols = p.PreambleSymbols /\ Cfg'.PacketSymbols = p.PacketSymbols
      BY <1>5, <1>7, <3>1
    <3> QED
      BY <1>3, <3>2
  <2>2. CASE Done # {}
    <3>1. /\ \E q \in Done : Cfg.PreambleSymbols = ParserCfg(q).PreambleSymbols
          /\ \E q \in Done : Cfg.PacketSymbols = ParserCfg(q).PacketSymbols
      BY <1>1, <2>2 DEF LargestOf
    <3> QED
      BY <1>3, <1>7, <3>1
  <2> QED
    BY <2>1, <2>2
<1>10. \E q \in Done' : Cfg'.CenterFreq = ParserCfg(q).CenterFreq
  BY <1>2, <1>3
<1> QED
  BY <1>3, <1>4, <1>7, <1>8, <1>9, <1>10 DEF LargestOf

(* ... and it stands behind the others of its preamble.                    *)
LEMMA RegisterKeepsOnce ==
  ASSUME GeometryInv, pc = "register",
         NEW name \in Registered, name \in names, Register(name)
  PROVE  OncePerPreamble'
<1> DEFINE own == ParserCfg(name).Preamble
<1>1. OncePerPreamble /\ names \subseteq msgType
  BY DEF GeometryInv, Built
<1>2. preambles' = [preambles EXCEPT ![own] = Append(@, name)]
  BY DEF Register, Associated
<1>3. Done' = Done \cup {name} /\ name \notin Done
  BY RegisterKeepsLargest DEF Done
<1>4. own \in Preambles
  BY ParserFacts
<1>5. DOMAIN preambles' = Preambles
  BY <1>1, <1>2 DEF OncePerPreamble
<1>6. ASSUME NEW pre \in Preambles, pre # own
      PROVE  preambles'[pre] = preambles[pre] /\ Own(pre)' = Own(pre)
  BY <1>1, <1>2, <1>3, <1>6 DEF OncePerPreamble, Own
<1>7. Own(own)' = Own(own) \cup {name} /\ name \notin Own(own)
  BY <1>3 DEF Own
<1> DEFINE s == preambles[own]
           t == Append(s, name)
           n == Len(s)
           T == Own(own)
<1>8. s \in Seq(T) /\ n \in Nat /\ DOMAIN s = 1 .. n
  BY <1>1, <1>4, LenProperties DEF OncePerPreamble
<1>9. preambles'[own] = t
  BY <1>1, <1>2, <1>4 DEF OncePerPreamble
<1>10. /\ \A p \in T : \E i \in 1 .. n : s[i] = p
       /\ \A i, j \in 1 .. n : s[i] = s[j] => i = j
  BY <1>1, <1>4, <1>8 DEF OncePerPreamble
<1>11. \A i \in 1 .. n : s[i] \in T
  BY <1>8, ElementOfSeq
<1> HIDE DEF s, T, own
<1>12. /\ t \in Seq(T \cup {name}) /\ DOMAIN t = 1 .. n + 1 /\ t[n + 1] = name
       /\ \A i \in 1 .. n : t[i] = s[i]
  <2>1. s \in Seq(T \cup {name})
    BY <1>8, SeqMonotonic
  <2>2. /\ t \in Seq(T \cup {name}) /\ Len(t) = n + 1 /\ t[n + 1] = name
        /\ \A i \in 1 .. n : t[i] = s[i]
    BY <2>1, AppendProperties
  <2> QED
    BY <2>2, LenProperties
<1> HIDE DEF t, n
<1>13. \A p \in T \cup {name} : \E i \in DOMAIN t : t[i] = p
  <2>1. n + 1 \in 1 .. n + 1 /\ \A i \in 1 .. n : i \in 1 .. n + 1
    BY <1>8
  <2> QED
    BY <1>10, <1>12, <2>1
<1>14. \A i, j \in DOMAIN t : t[i] = t[j] => i = j
  <2>1. \A i \in 1 .. n + 1 : i \in 1 .. n \/ i = n + 1
    BY <1>8
  <2>2. name \notin T
    BY <1>7 DEF T, own
  <2>3. \A i \in 1 .. n : t[i] \in T
    BY <1>11, <1>12
  <2> QED
    BY <1>10, <1>12, <2>1, <2>2, <2>3
<1>15. ASSUME NEW pre \in Preambles
       PROVE  /\ preambles'[pre] \in Seq(Own(pre)')
              /\ \A p \in Own(pre)' : \E i \in DOMAIN preambles'[pre] : preambles'[pre][i] = p
              /\ \A i, j \in DOMAIN preambles'[pre] :
                   preambles'[pre][i] = preambles'[pre][j] => i = j
  <2>1. CASE pre = own
    <3>1. preambles'[pre] = t /\ Own(pre)' = T \cup {name}
      BY <1>7, <1>9, <2>1 DEF T
    <3> QED
      BY <1>12, <1>13, <1>14, <3>1
  <2>2. CASE pre # own
    <3>1. preambles'[pre] = preambles[pre] /\ Own(pre)' = Own(pre)
      BY <1>6, <2>2
    <3> QED
      BY <1>1, <3>1 DEF OncePerPreamble
  <2> QED
    BY <2>1, <2>2
<1> QED
  BY <1>5, <1>15 DEF OncePerPreamble

(* The stages of the start, one after the other.                           *)
LEMMA NextGeometryInv == GeometryInv /\ [Next]_vars => GeometryInv'
<1> SUFFICES ASSUME GeometryInv, [Next]_vars PROVE GeometryInv'
  OBVIOUS
<1> USE DEF Before, Built
<1>1. CASE ParseFlags /\ UNCHANGED <<decoderVars, fc, tuner>>
  <2>1. pc \in {"env", "parse"} /\ pc' \in {"parse", "exit", "flags"}
    BY <1>1 DEF ParseFlags, EnvOverride, ParseValueFlag, MissingValue, ParseBoolFlag, ParseEnds
  <2>2. msgType = {} /\ names = {} /\ OncePerPreamble /\ LargestOf /\ len = << >>
    BY <2>1 DEF GeometryInv
  <2>3. UNCHANGED <<msgType, names, preambles, Cfg, len>>
    BY <1>1 DEF decoderVars
  <2>4. Done = {} /\ Done' = {} /\ \A pre : Own(pre)' = Own(pre)
    BY <2>2, <2>3 DEF Done, Own
  <2>5. OncePerPreamble' /\ LargestOf'
    BY <2>2, <2>3, <2>4 DEF OncePerPreamble, LargestOf
  <2> QED
    BY <2>1, <2>2, <2>3, <2>5 DEF GeometryInv
<1>2. CASE HandleFlags /\ UNCHANGED <<fc, tuner>>
  <2>1. /\ pc = "flags" /\ pc' \in {"msgtype", "fatal"} /\ (pc' = "msgtype" => ValidLength)
        /\ UNCHANGED <<value, given, decoderVars>>
    BY <1>2 DEF HandleFlags, flagVars
  <2>2. msgType = {} /\ names = {} /\ OncePerPreamble /\ LargestOf /\ len = << >>
    BY <2>1 DEF GeometryInv
  <2>3. /\ OncePerPreamble' /\ LargestOf' /\ (pc' = "msgtype" => ValidLength')
        /\ msgType' = {} /\ names' = {} /\ len' = << >>
    BY <2>1, <2>2, SameDecoder DEF decoderVars
  <2> QED
    BY <2>1, <2>3 DEF GeometryInv
<1>3. CASE SortTypes /\ UNCHANGED <<fc, tuner>>
  <2>1. /\ pc = "msgtype" /\ pc' = "register" /\ names' = msgType'
        /\ msgType' = IF Wanted = {"all"} THEN {"scm", "scm+", "idm", "r900"} ELSE Wanted
        /\ UNCHANGED <<value, given, preambles, Cfg, len>>
    BY <1>3 DEF SortTypes, flagVars, Wanted
  <2>2. /\ msgType = {} /\ names = {} /\ OncePerPreamble /\ LargestOf /\ len = << >>
        /\ ValidLength
    BY <2>1 DEF GeometryInv
  <2>3. Done = {} /\ Done' = {} /\ \A pre : Own(pre)' = Own(pre)
    BY <2>1, <2>2 DEF Done, Own
  <2>4. OncePerPreamble' /\ LargestOf'
    BY <2>1, <2>2, <2>3 DEF OncePerPreamble, LargestOf
  <2>5. ValidLength' /\ Wanted' = Wanted
    BY <2>1, <2>2 DEF ValidLength, symbolLength, Wanted
  <2> QED
    BY <2>1, <2>2, <2>3, <2>4, <2>5 DEF GeometryInv
<1>4. CASE UnknownType /\ UNCHANGED <<fc, tuner>>
  BY <1>4 DEF UnknownType, GeometryInv, decoderVars
<1>5. CASE RegisterProtocol /\ UNCHANGED <<fc, tuner>>
  <2>1. PICK name \in Registered : pc = "register" /\ name \in names /\ Register(name)
    BY <1>5 DEF RegisterProtocol, IsNext
  <2>2. /\ pc' = "register" /\ names' = names \ {name} /\ msgType' = msgType /\ len' = len
        /\ UNCHANGED <<value, given>>
    BY <2>1 DEF Register, flagVars
  <2>3. LargestOf' /\ OncePerPreamble' /\ Done' \subseteq Registered
    BY <2>1, RegisterKeepsLargest, RegisterKeepsOnce
  <2>4. ValidLength' /\ Wanted' = Wanted
    BY <2>1, <2>2 DEF GeometryInv, ValidLength, symbolLength, Wanted
  <2> QED
    BY <2>1, <2>2, <2>3, <2>4 DEF GeometryInv
<1>6. CASE Allocate /\ UNCHANGED <<fc, tuner>>
  <2>1. /\ pc = "register" /\ names = {} /\ len' = Lengths /\ pc' = "connect"
        /\ UNCHANGED <<value, given, msgType, names, preambles, Cfg>>
    BY <1>6 DEF Allocate, Lengths, flagVars
  <2>2. /\ Done' = Done /\ Wanted' = Wanted /\ Lengths' = Lengths
        /\ (ValidLength' <=> ValidLength) /\ symbolLength' = symbolLength
        /\ \A pre : Own(pre)' = Own(pre)
    BY <2>1 DEF Done, Own, Wanted, Lengths, BlockSize, SymbolLength, BufferLength,
                PreambleLength, PacketLength, ValidLength, symbolLength
  <2>3. OncePerPreamble /\ LargestOf
    BY <2>1 DEF GeometryInv
  <2>4. OncePerPreamble' /\ LargestOf'
    BY <2>1, <2>2, <2>3 DEF OncePerPreamble, LargestOf
  <2> QED
    BY <2>1, <2>2, <2>4 DEF GeometryInv
<1>7. CASE Connect
  <2>1. /\ pc = "connect" /\ pc' \in {"visit", "cancelled"}
        /\ UNCHANGED <<value, given, decoderVars>>
    BY <1>7 DEF Connect, flagVars
  <2> QED
    BY <2>1, SameDecoder DEF GeometryInv, decoderVars
<1>8. CASE Visit
  <2>1. /\ pc = "visit" /\ pc' = "ready"
        /\ UNCHANGED <<value, given, decoderVars>>
        /\ fc' = Added(VisitOrder[1]) \o Added(VisitOrder[2]) \o Added(VisitOrder[3])
        /\ tuner' = [freq |-> CenterFreq,
                     gain |-> IF "-tunergain" \in given THEN "set" ELSE "auto"]
    BY <1>8 DEF Visit, flagVars
  <2>2. /\ Added(VisitOrder[1])' = Added(VisitOrder[1])
        /\ Added(VisitOrder[2])' = Added(VisitOrder[2])
        /\ Added(VisitOrder[3])' = Added(VisitOrder[3])
    BY <2>1, SameDecoder
  <2> QED
    BY <2>1, <2>2, SameDecoder DEF GeometryInv, decoderVars
<1>9. CASE UNCHANGED vars
  <2>1. UNCHANGED <<pc, value, given, decoderVars, fc, tuner>>
    BY <1>9 DEF vars, flagVars
  <2>2. /\ Added(VisitOrder[1])' = Added(VisitOrder[1])
        /\ Added(VisitOrder[2])' = Added(VisitOrder[2])
        /\ Added(VisitOrder[3])' = Added(VisitOrder[3])
    BY <2>1, SameDecoder
  <2> QED
    BY <2>1, <2>2, SameDecoder DEF GeometryInv, decoderVars
<1> QED
  BY <1>1, <1>2, <1>3, <1>4, <1>5, <1>6, <1>7, <1>8, <1>9 DEF Next, SetUpDecoder, Over

(* The decoder's configuration is that of the types registered so far, and *)
(* the buffers' lengths follow from it: a theorem about HandleFlags,       *)
(* NewReceiver, RegisterProtocol and Allocate.                             *)
THEOREM GeometryInvariance == Spec => []GeometryInv
BY InitGeometryInv, NextGeometryInv, PTL DEF Spec
-----------------------------------------------------------------------------
(* A chain has the filters that are in force, the unique filter last.      *)
LEMMA OneAfterAnother ==
  ASSUME NEW S, NEW s \in Seq(S), NEW f \in S, NEW t, t = << >> \/ t = <<f>>
  PROVE  /\ s \o t \in Seq(S)
         /\ Len(s \o t) = IF t = << >> THEN Len(s) ELSE Len(s) + 1
         /\ \A i \in 1 .. Len(s) : (s \o t)[i] = s[i]
         /\ t # << >> => (s \o t)[Len(s) + 1] = f
<1>1. CASE t = << >>
  <2>1. s \o t = s
    BY <1>1, ConcatEmptySeq
  <2> QED
    BY <1>1, <2>1
<1>2. CASE t = <<f>>
  <2>1. s \o t = Append(s, f)
    BY <1>2, AppendIsConcat
  <2>2. t # << >>
    BY <1>2
  <2> QED
    BY <2>1, <2>2, AppendProperties
<1> QED
  BY <1>1, <1>2

LEMMA ChainIs ==
  ASSUME NEW s, s = Added(VisitOrder[1]) \o Added(VisitOrder[2]) \o Added(VisitOrder[3])
  PROVE  /\ \A f \in {"-filterid", "-filtertype"} : InForce(f) <=> \E i \in DOMAIN s : s[i] = f
         /\ \A i \in DOMAIN s : s[i] = "-unique" => i = Len(s)
         /\ InForce("-unique") <=> \E i \in DOMAIN s : s[i] = "-unique"
<1> DEFINE S == {"-filterid", "-filtertype", "-unique"}
           a == Added("-filterid")
           b == Added("-filtertype")
           c == Added("-unique")
<1>1. s = (a \o b) \o c
  BY DEF VisitOrder
<1>2. /\ a = << >> \/ a = <<"-filterid">>
      /\ b = << >> \/ b = <<"-filtertype">>
      /\ c = << >> \/ c = <<"-unique">>
      /\ InForce("-filterid") <=> a # << >>
      /\ InForce("-filtertype") <=> b # << >>
      /\ InForce("-unique") <=> c # << >>
  BY DEF Added
<1>0. "-filterid" \in S /\ "-filtertype" \in S /\ "-unique" \in S
  OBVIOUS
<1> HIDE DEF S, a, b, c
<1> DEFINE n == IF a = << >> THEN 0 ELSE 1
           m == IF b = << >> THEN n ELSE n + 1
           k == IF c = << >> THEN m ELSE m + 1
<1>3. /\ a \in Seq(S) /\ Len(a) = n
      /\ a # << >> => a[1] = "-filterid"
  <2>1. << >> \in Seq(S) /\ Len(<< >>) = 0
    OBVIOUS
  <2>2. ASSUME NEW f \in S PROVE <<f>> \in Seq(S) /\ Len(<<f>>) = 1 /\ <<f>>[1] = f
    OBVIOUS
  <2>3. CASE a = << >>
    BY <2>1, <2>3
  <2>4. CASE a # << >>
    <3>1. a = <<"-filterid">>
      BY <1>2, <2>4
    <3>2. a \in Seq(S) /\ Len(a) = 1 /\ a[1] = "-filterid"
      BY <1>0, <2>2, <3>1
    <3> QED
      BY <2>4, <3>2
  <2> QED
    BY <2>3, <2>4
<1>4. /\ a \o b \in Seq(S) /\ Len(a \o b) = m
      /\ a # << >> => (a \o b)[1] = "-filterid"
      /\ b # << >> => (a \o b)[n + 1] = "-filtertype"
  <2>1. /\ a \o b \in Seq(S)
        /\ Len(a \o b) = IF b = << >> THEN Len(a) ELSE Len(a) + 1
        /\ \A i \in 1 .. Len(a) : (a \o b)[i] = a[i]
        /\ b # << >> => (a \o b)[Len(a) + 1] = "-filtertype"
    BY <1>0, <1>2, <1>3, OneAfterAnother
  <2>2. a # << >> => 1 \in 1 .. n
    OBVIOUS
  <2> HIDE DEF n
  <2> QED
    BY <1>3, <2>1, <2>2
<1>5. /\ s \in Seq(S) /\ Len(s) = k
      /\ a # << >> => s[1] = "-filterid"
      /\ b # << >> => s[n + 1] = "-filtertype"
      /\ c # << >> => s[m + 1] = "-unique"
  <2> DEFINE t == a \o b
  <2>1. t \in Seq(S) /\ Len(t) = m
    BY <1>4
  <2>2. /\ t \o c \in Seq(S)
        /\ Len(t \o c) = IF c = << >> THEN Len(t) ELSE Len(t) + 1
        /\ \A i \in 1 .. Len(t) : (t \o c)[i] = t[i]
        /\ c # << >> => (t \o c)[Len(t) + 1] = "-unique"
    <3> HIDE DEF t, m
    <3> QED
      BY <1>0, <1>2, <2>1, OneAfterAnother
  <2>3. (a # << >> => 1 \in 1 .. m) /\ (b # << >> => n + 1 \in 1 .. m)
    OBVIOUS
  <2>4. s = t \o c /\ (a # << >> => t[1] = "-filterid") /\ (b # << >> => t[n + 1] = "-filtertype")
    BY <1>1, <1>4
  <2> HIDE DEF n, m, t
  <2> QED
    BY <2>1, <2>2, <2>3, <2>4
<1>6. DOMAIN s = 1 .. k
  BY <1>5, LenProperties
<1>7. \A i \in 1 .. k : \/ a # << >> /\ i = 1
                        \/ b # << >> /\ i = n + 1
                        \/ c # << >> /\ i = m + 1
  OBVIOUS
<1>8. /\ a # << >> => 1 \in 1 .. k
      /\ b # << >> => n + 1 \in 1 .. k
      /\ c # << >> => m + 1 \in 1 .. k /\ k = m + 1
  OBVIOUS
<1> HIDE DEF n, m, k
<1> QED
  BY <1>2, <1>5, <1>6, <1>7, <1>8

(* A list flag is set exactly when the environment or an argument gave it, *)
(* and nothing that was asked for is lost from its list.                   *)
LEMMA FiltersHold == ParseInv /\ GeometryInv => FiltersInForce
<1> SUFFICES ASSUME ParseInv, GeometryInv, pc = "ready" PROVE FiltersInForce
  BY DEF FiltersInForce
<1>1. /\ GivenAre /\ ValuesAre
      /\ fc = Added(VisitOrder[1]) \o Added(VisitOrder[2]) \o Added(VisitOrder[3])
  BY DEF ParseInv, GeometryInv, After, Built
<1>2. ASSUME NEW f \in ListFlags
      PROVE  /\ Asked(f) # {} <=> InForce(f)
             /\ UNION {arg.items : arg \in Asked(f)} \subseteq value[f].items
  <2>1. f \in Flags /\ f # "-unique"
    BY DEF Flags, ListFlags
  <2>2. InForce(f) <=> f \in FromEnv \/ \E i \in Parsed : A[i].text = f
    BY <1>1, <2>1 DEF InForce, GivenAre, IsFlag
  <2>3. \A arg : arg \in Asked(f) <=> \/ f \in FromEnv /\ arg = env[f]
                                      \/ \E i \in Parsed : A[i].text = f /\ arg = A[i + 1]
    BY DEF Asked, FromEnv, A
  <2>4. \A arg \in Asked(f) : arg.items \subseteq value[f].items
    BY <1>1, <2>1, <2>3 DEF ValuesAre, FromEnv
  <2>5. Asked(f) # {} <=> InForce(f)
    BY <2>2, <2>3
  <2> QED
    BY <2>4, <2>5
<1>3. ListFlags = {"-filterid", "-filtertype"}
  BY DEF ListFlags
<1> QED
  BY <1>1, <1>2, <1>3, ChainIs DEF FiltersInForce

(* Every list that a filter flag was given takes effect: a theorem about   *)
(* flag.Parse, flag.Visit and the filters' Set for all command lines.      *)
THEOREM FiltersForced == Spec => []FiltersInForce
BY ParseInvariance, GeometryInvariance, FiltersHold, PTL
-----------------------------------------------------------------------------
(* What of a launcher's list has been parsed when the parse is over: all   *)
(* of it, or as far as -unique, whose "true" is no flag.                   *)
LEMMA LaunchedParsed ==
  ASSUME ParseInv, Launched, pc \in After
  PROVE  /\ launch.mode = "survey" => K = Len(A)
         /\ launch.mode # "survey" => \E i \in Parsed : A[i] = Word("-unique")
         /\ 1 \in Parsed /\ 3 \in Parsed /\ 5 \in Parsed
<1>1. /\ Started /\ Between /\ (K = Len(A) \/ ~IsFlag(A[K + 1]))
      /\ K \in 0 .. Len(A)
  BY DEF ParseInv
<1>2. PICK n \in Nat :
        /\ Len(A) = 2 * n
        /\ \A k \in 1 .. n : <<A[2 * k - 1], A[2 * k]>> \in Pairs(launch)
        /\ \A w \in Pairs(launch) : \E k \in 1 .. n : w = <<A[2 * k - 1], A[2 * k]>>
        /\ \A k \in 1 .. n : IsFlag(A[2 * k - 1]) /\ ~IsFlag(A[2 * k])
        /\ \A i \in 1 .. 2 * n : \E k \in 1 .. n : i = 2 * k - 1 \/ i = 2 * k
  BY <1>1, LaunchedList
<1>3. Parsed = 1 .. K
  BY DEF Parsed, K, A
<1>4. K < Len(A) => K > 0 /\ A[K] = Word("-unique") /\ launch.mode # "survey"
  <2> SUFFICES ASSUME K < Len(A)
               PROVE  K > 0 /\ A[K] = Word("-unique") /\ launch.mode # "survey"
    OBVIOUS
  <2>1. PICK k \in 1 .. n : K + 1 = 2 * k - 1 \/ K + 1 = 2 * k
    <3>1. K + 1 \in 1 .. 2 * n
      BY <1>1, <1>2
    <3> QED
      BY <1>2, <3>1
  <2>2. K + 1 = 2 * k
    BY <1>1, <1>2, <2>1
  <2>3. K > 0 /\ K = 2 * k - 1
    BY <1>1, <2>2
  <2> DEFINE w == <<A[2 * k - 1], A[2 * k]>>
  <2>4. w \in Pairs(launch) /\ w[1] = A[K] /\ ~TakesValue(A[K])
    BY <1>1, <1>2, <2>3 DEF Between
  <2>5. w[1] = Word("-unique") /\ launch.mode # "survey"
    BY <1>1, <2>4, LaunchIs, PairKinds
  <2> QED
    BY <2>3, <2>4, <2>5
<1>5. K >= 6
  <2>1. /\ Len(A) >= 6 /\ A[1] = Word("-server") /\ A[3] = Word("-format")
        /\ A[5] = Word("-msgtype")
    BY <1>1, LaunchIs, LaunchedPairs DEF A
  <2>2. A[1] # Word("-unique") /\ A[3] # Word("-unique") /\ A[5] # Word("-unique")
    BY <2>1 DEF Word
  <2>3. A[2] # Word("-unique") /\ A[4] # Word("-unique")
    <3>1. 1 \in 1 .. n /\ 2 \in 1 .. n
      BY <1>2, <2>1
    <3>2. ~IsFlag(A[2 * 1]) /\ ~IsFlag(A[2 * 2])
      BY <1>2, <3>1
    <3> QED
      BY <3>2 DEF IsFlag, Word, Flags, BoolFlags
  <2>4. K # 1 /\ K # 2 /\ K # 3 /\ K # 4 /\ K # 5
    BY <1>4, <2>1, <2>2, <2>3
  <2> QED
    BY <1>1, <1>4, <2>1, <2>4
<1>6. launch.mode # "survey" => \E i \in Parsed : A[i] = Word("-unique")
  <2> SUFFICES ASSUME launch.mode # "survey", K = Len(A)
               PROVE  \E i \in Parsed : A[i] = Word("-unique")
    <3>1. K < Len(A) => K \in Parsed
      BY <1>1, <1>3, <1>5
    <3> QED
      BY <1>1, <1>4, <3>1
  <2> DEFINE w == <<Word("-unique"), Word("true")>>
  <2>1. w \in Pairs(launch)
    BY DEF Pairs
  <2>2. PICK k \in 1 .. n : w = <<A[2 * k - 1], A[2 * k]>>
    BY <1>2, <2>1
  <2>3. A[2 * k - 1] = Word("-unique") /\ 2 * k - 1 \in 1 .. K
    BY <1>2, <2>2
  <2> QED
    BY <1>3, <2>3
<1> QED
  BY <1>1, <1>3, <1>4, <1>5, <1>6

(* A flag that was parsed, or only named, is one of a pair.                *)
LEMMA LaunchedFlag ==
  ASSUME Started, Launched, NEW i \in 1 .. Len(A), IsFlag(A[i])
  PROVE  \E w \in Pairs(launch) : w[1] = A[i] /\ w[2] = A[i + 1]
<1>1. PICK n \in Nat :
        /\ Len(A) = 2 * n
        /\ \A k \in 1 .. n : <<A[2 * k - 1], A[2 * k]>> \in Pairs(launch)
        /\ \A k \in 1 .. n : IsFlag(A[2 * k - 1]) /\ ~IsFlag(A[2 * k])
        /\ \A j \in 1 .. 2 * n : \E k \in 1 .. n : j = 2 * k - 1 \/ j = 2 * k
  BY LaunchedList
<1>2. PICK k \in 1 .. n : i = 2 * k - 1
  BY <1>1
<1> DEFINE w == <<A[2 * k - 1], A[2 * k]>>
<1>3. w \in Pairs(launch) /\ w[1] = A[i] /\ w[2] = A[i + 1]
  BY <1>1, <1>2
<1> QED
  BY <1>3

(* What the launcher names are its arguments, those that were parsed too.  *)
LEMMA LaunchedNames ==
  ASSUME ParseInv, Launched, NEW f \in Flags
  PROVE  f \in Named(A) <=> \E i \in 1 .. Len(A) : A[i].text = f
<1>1. PICK S : A \in Seq(S)
  BY ArgumentsOK DEF ParseInv
<1>2. DOMAIN A = 1 .. Len(A)
  BY <1>1, LenProperties
<1> QED
  BY <1>2 DEF Named

(* A flag that the launcher does not pass is as the environment has it: it *)
(* is set exactly when it is inherited, and then to the inherited value.   *)
LEMMA LaunchedNot ==
  ASSUME ParseInv, Launched, pc \in After, NEW f \in Flags \ ListFlags,
         \A w \in Pairs(launch) : w[1].text # f
  PROVE  /\ f \in given <=> Inherited(f)
         /\ Inherited(f) => value[f] = env[f]
<1>1. Started /\ GivenAre /\ ValuesAre /\ Parsed \subseteq 1 .. Len(A)
  BY DEF ParseInv, Parsed, K, A
<1>2. \A i \in 1 .. Len(A) : A[i].text # f
  BY <1>1, LaunchedFlag DEF IsFlag
<1>3. Inherited(f) <=> f \in DOMAIN env /\ Parses(env[f])
  BY <1>2, LaunchedNames DEF Inherited, A
<1>4. f \in given <=> f \in DOMAIN env /\ Parses(env[f])
  BY <1>1, <1>2 DEF GivenAre, FromEnv
<1>5. value[f] = Initial(f)
  BY <1>1, <1>2 DEF ValuesAre
<1>6. Inherited(f) => Initial(f) = env[f]
  BY <1>3 DEF Initial, Assigned, Parses
<1> QED
  BY <1>3, <1>4, <1>5, <1>6

(* One that it passes is not inherited.                                    *)
LEMMA LaunchedOwn ==
  ASSUME ParseInv, Launched, NEW f \in Flags, \E i \in Parsed : A[i].text = f
  PROVE  ~Inherited(f)
<1>1. Parsed \subseteq 1 .. Len(A)
  BY DEF ParseInv, Parsed, K, A
<1> QED
  BY <1>1, LaunchedNames DEF Inherited, A

(* One that has been parsed is set, to the value it was passed with.       *)
LEMMA LaunchedIs ==
  ASSUME ParseInv, Launched, pc \in After, NEW f \in Flags \ ListFlags,
         \E i \in Parsed : A[i].text = f
  PROVE  /\ f \in given
         /\ f \notin BoolFlags => \E w \in Pairs(launch) : w[1].text = f /\ value[f] = w[2]
         /\ f \in BoolFlags => value[f] = Word("true")
<1>1. Started /\ GivenAre /\ ValuesAre /\ Parsed \subseteq 1 .. Len(A)
  BY DEF ParseInv, Parsed, K, A
<1>2. f \in given
  BY <1>1 DEF GivenAre, IsFlag
<1>3. PICK i \in Parsed : A[i].text = f /\ value[f] = Got(i)
  BY <1>1 DEF ValuesAre
<1>4. f \in BoolFlags => value[f] = Word("true")
  BY <1>3 DEF Got, TakesValue
<1>5. f \notin BoolFlags => \E w \in Pairs(launch) : w[1].text = f /\ value[f] = w[2]
  <2>1. PICK w \in Pairs(launch) : w[1] = A[i] /\ w[2] = A[i + 1]
    BY <1>1, <1>3, LaunchedFlag DEF IsFlag
  <2>2. f \notin BoolFlags => value[f] = A[i + 1]
    BY <1>3 DEF Got, TakesValue
  <2> QED
    BY <1>3, <2>1, <2>2
<1> QED
  BY <1>2, <1>4, <1>5

(* The first three pairs are always parsed, and -unique exactly when the   *)
(* mode has it; in survey mode the environment's stands.                   *)
LEMMA ModeHolds == ParseInv /\ GeometryInv => AsItsMode
<1> SUFFICES ASSUME ParseInv, GeometryInv, pc = "ready", Launched PROVE AsItsMode
  BY DEF AsItsMode, ByLauncher, Launched
<1>1. pc \in After /\ Started /\ launch.mode \in Modes /\ launch.device \in 0 .. 2
  BY LaunchIs DEF ParseInv, After, Built
<1>2. /\ A[1] = Word("-server") /\ A[3] = Word("-format") /\ A[5] = Word("-msgtype")
      /\ 1 \in Parsed /\ 3 \in Parsed /\ 5 \in Parsed
  BY <1>1, LaunchedPairs, LaunchedParsed DEF A
<1>3. /\ value["-server"] = Word(port(launch))
      /\ value["-format"] = Word("csv")
      /\ value["-msgtype"] = List(types(launch))
  <2> DEFINE V == {"-server", "-format", "-msgtype"}
  <2>1. V \subseteq Flags \ ListFlags /\ \A f \in V : f \notin BoolFlags
    BY DEF Flags, ListFlags, BoolFlags, ValueFlags
  <2>2. \A f \in V : \E i \in Parsed : A[i].text = f
    BY <1>2 DEF Word
  <2>3. \A f \in V : \E w \in Pairs(launch) : w[1].text = f /\ value[f] = w[2]
    BY <1>1, <2>1, <2>2, LaunchedIs
  <2> QED
    BY <1>1, <2>3, PairKinds
<1>4. Parsers = types(launch)
  <2>1. msgType = IF Wanted = {"all"} THEN {"scm", "scm+", "idm", "r900"} ELSE Wanted
    BY DEF GeometryInv, Built
  <2>2. Wanted = types(launch)
    BY <1>3 DEF Wanted, List
  <2> QED
    BY <2>1, <2>2 DEF Parsers, types
<1>5. InForce("-unique") <=> \/ launch.mode # "survey"
                             \/ Inherited("-unique") /\ env["-unique"] = Word("true")
  <2>1. "-unique" \in Flags \ ListFlags /\ "-unique" \in BoolFlags
    BY DEF Flags, ListFlags, BoolFlags
  <2>2. CASE launch.mode # "survey"
    <3>1. \E i \in Parsed : A[i].text = "-unique"
      BY <1>1, <2>2, LaunchedParsed DEF Word
    <3>2. InForce("-unique")
      BY <1>1, <2>1, <3>1, LaunchedIs DEF InForce
    <3> QED
      BY <2>2, <3>2
  <2>3. CASE launch.mode = "survey"
    <3>1. \A w \in Pairs(launch) : w[1].text # "-unique"
      BY <1>1, <2>3, PairKinds
    <3>2. /\ "-unique" \in given <=> Inherited("-unique")
          /\ Inherited("-unique") => value["-unique"] = env["-unique"]
      BY <1>1, <2>1, <3>1, LaunchedNot
    <3> QED
      BY <2>3, <3>2 DEF InForce
  <2> QED
    BY <2>2, <2>3
<1>6. InForce("-unique") <=> Dedups
  BY ChainIs DEF GeometryInv, Dedups
<1> QED
  BY <1>3, <1>4, <1>5, <1>6 DEF AsItsMode, port

(* A decoder the launcher starts serves its mode, but for an inherited     *)
(* -unique in survey mode: a theorem about main's lists, runDecoder,       *)
(* EnvOverride and flag.Parse for every environment.                       *)
THEOREM ModeOfLauncher == Spec => []AsItsMode
BY ParseInvariance, GeometryInvariance, ModeHolds, PTL

(* In survey mode the whole list is parsed, so each pair takes effect; and *)
(* without a planned frequency the only parser's own is taken.             *)
LEMMA SurveyHolds == ParseInv /\ GeometryInv => SurveyAsLaunched
<1> SUFFICES ASSUME ParseInv, GeometryInv, pc = "ready", Launched, launch.mode = "survey"
             PROVE  AsLaunched
  BY DEF SurveyAsLaunched, ByLauncher, Launched
<1>1. /\ pc \in After /\ Started /\ launch.mode \in Modes /\ launch.device \in 0 .. 2
      /\ K = Len(A) /\ Parsed = 1 .. Len(A)
  BY LaunchIs, LaunchedParsed DEF ParseInv, After, Built, Parsed, K, A
<1>2. tuner = [freq |-> CenterFreq, gain |-> IF "-tunergain" \in given THEN "set" ELSE "auto"]
  BY DEF GeometryInv
<1>3. ASSUME NEW w \in Pairs(launch) PROVE \E i \in Parsed : A[i] = w[1]
  <2>1. PICK n \in Nat :
          /\ Len(A) = 2 * n
          /\ \A v \in Pairs(launch) : \E k \in 1 .. n : v = <<A[2 * k - 1], A[2 * k]>>
    BY <1>1, LaunchedList
  <2>2. PICK k \in 1 .. n : w = <<A[2 * k - 1], A[2 * k]>>
    BY <2>1
  <2>3. A[2 * k - 1] = w[1] /\ 2 * k - 1 \in 1 .. Len(A)
    BY <2>1, <2>2
  <2> QED
    BY <1>1, <2>3
<1> DEFINE freq == Frequency(launch)
<1>4. shownFreq(launch) = IF freq = 0 THEN 912380000 ELSE freq
  BY DEF shownFreq, Frequency
<1> DEFINE tuned == IF Inherited("-centerfreq") THEN Hz(env["-centerfreq"])
                    ELSE shownFreq(launch)
<1>5. ASSUME freq # 0 PROVE CenterFreq = tuned
  <2> DEFINE w == <<Word("-centerfreq"), List({freq})>>
  <2>1. w \in Pairs(launch) /\ w[1] = Word("-centerfreq")
    BY <1>5 DEF Pairs
  <2>2. /\ \E i \in Parsed : A[i].text = "-centerfreq"
        /\ "-centerfreq" \in Flags \ ListFlags /\ "-centerfreq" \notin BoolFlags
    BY <1>3, <2>1 DEF Word, Flags, ListFlags, BoolFlags, ValueFlags
  <2>3. /\ "-centerfreq" \in given
        /\ \E v \in Pairs(launch) : v[1].text = "-centerfreq" /\ value["-centerfreq"] = v[2]
    BY <1>1, <2>2, LaunchedIs
  <2>4. value["-centerfreq"] = List({freq})
    BY <1>1, <2>3, PairKinds
  <2>5. value["-centerfreq"].items = {freq}
    BY <2>4 DEF List
  <2>6. CenterFreq = freq
    BY <2>3, <2>5 DEF CenterFreq, Hz
  <2>7. ~Inherited("-centerfreq")
    BY <2>2, LaunchedOwn
  <2> QED
    BY <1>4, <1>5, <2>6, <2>7
<1>6. ASSUME freq = 0 PROVE CenterFreq = tuned
  <2>1. \A w \in Pairs(launch) : w[1].text # "-centerfreq"
    BY <1>1, <1>6, PairKinds
  <2>2. "-centerfreq" \in Flags \ ListFlags
    BY DEF Flags, ValueFlags, ListFlags
  <2>3. /\ "-centerfreq" \in given <=> Inherited("-centerfreq")
        /\ Inherited("-centerfreq") => value["-centerfreq"] = env["-centerfreq"]
    BY <1>1, <2>1, <2>2, LaunchedNot
  <2>4. Cfg.CenterFreq = 912380000
    <3>1. AsItsMode /\ names = {} /\ LargestOf
      BY ModeHolds DEF GeometryInv, Built
    <3>2. msgType = {"r900"}
      BY <3>1 DEF AsItsMode, ByLauncher, Launched, Parsers, types
    <3>3. Done = {"r900"}
      BY <3>1, <3>2 DEF Done
    <3>4. \E r \in Done : Cfg.CenterFreq = ParserCfg(r).CenterFreq
      BY <3>1, <3>3 DEF LargestOf
    <3>5. ParserCfg("r900").CenterFreq = 912380000
      BY DEF ParserCfg, R900
    <3> QED
      BY <3>3, <3>4, <3>5
  <2>5. CASE Inherited("-centerfreq")
    BY <2>3, <2>5 DEF CenterFreq
  <2>6. CASE ~Inherited("-centerfreq")
    BY <1>4, <1>6, <2>3, <2>4, <2>6 DEF CenterFreq
  <2> QED
    BY <2>5, <2>6
<1>7. tuner.freq = tuned
  BY <1>2, <1>5, <1>6
<1>8. "-tunergain" \in given /\ gainSet(launch) /\ value["-tunergain"] = Word("40.0")
  <2> DEFINE w == <<Word("-tunergain"), Word("40.0")>>
  <2>1. w \in Pairs(launch) /\ w[1] = Word("-tunergain")
    BY DEF Pairs, gainSet
  <2>2. /\ \E i \in Parsed : A[i].text = "-tunergain"
        /\ "-tunergain" \in Flags \ ListFlags /\ "-tunergain" \notin BoolFlags
    BY <1>3, <2>1 DEF Word, Flags, ListFlags, ValueFlags, BoolFlags
  <2>3. /\ "-tunergain" \in given
        /\ \E v \in Pairs(launch) : v[1].text = "-tunergain" /\ value["-tunergain"] = v[2]
    BY <1>1, <2>2, LaunchedIs
  <2> QED
    BY <1>1, <2>3, PairKinds DEF gainSet
<1>9. tuner.gain = "set"
  BY <1>2, <1>8
<1>10. /\ "-duration" \in given <=> launch.duration \/ Inherited("-duration")
       /\ launch.duration => value["-duration"] = Word("2h")
  <2>1. "-duration" \in Flags \ ListFlags /\ "-duration" \notin BoolFlags
    BY DEF Flags, ListFlags, ValueFlags, BoolFlags
  <2>2. CASE launch.duration
    <3> DEFINE w == <<Word("-duration"), Word("2h")>>
    <3>1. w \in Pairs(launch) /\ w[1] = Word("-duration")
      BY <2>2 DEF Pairs
    <3>2. \E i \in Parsed : A[i].text = "-duration"
      BY <1>3, <3>1 DEF Word
    <3>3. /\ "-duration" \in given
          /\ \E v \in Pairs(launch) : v[1].text = "-duration" /\ value["-duration"] = v[2]
      BY <1>1, <2>1, <3>2, LaunchedIs
    <3>4. value["-duration"] = Word("2h")
      BY <1>1, <3>3, PairKinds
    <3> QED
      BY <2>2, <3>3, <3>4
  <2>3. CASE ~launch.duration
    <3>1. \A w \in Pairs(launch) : w[1].text # "-duration"
      BY <1>1, <2>3, PairKinds
    <3>2. "-duration" \in given <=> Inherited("-duration")
      BY <1>1, <2>1, <3>1, LaunchedNot
    <3> QED
      BY <2>3, <3>2
  <2> QED
    BY <2>2, <2>3
<1> QED
  BY <1>7, <1>8, <1>9, <1>10 DEF AsLaunched

(* A survey decoder does what the launcher was asked for, with the values  *)
(* the launcher passes, and what the environment says where it passes      *)
(* none: a theorem about the same code, with NewReceiver's choice of the   *)
(* frequency and the gain.                                                 *)
THEOREM LaunchedForSurvey == Spec => []SurveyAsLaunched
BY ParseInvariance, GeometryInvariance, SurveyHolds, PTL
-----------------------------------------------------------------------------
(* Some type is asked for, by whoever sets -msgtype.                       *)
LEMMA SomeType == ASSUME ParseInv, pc \in After PROVE Wanted # {}
<1> DEFINE f == "-msgtype"
<1>1. /\ Started /\ Between /\ ValuesAre /\ K \in 0 .. Len(A) /\ Parsed = 1 .. K
      /\ f \in Flags /\ f \notin ListFlags /\ f \notin BoolFlags
  BY DEF ParseInv, Flags, ListFlags, BoolFlags, ValueFlags, Parsed, K, A
<1>2. ASSUME NEW i \in Parsed, A[i].text = f, value[f] = Got(i) PROVE NamesTypes(value[f])
  <2>1. TakesValue(A[i])
    BY <1>1, <1>2 DEF TakesValue
  <2>2. i # K
    BY <1>1, <2>1 DEF Between
  <2>3. i + 1 \in 2 .. Len(A) /\ (i + 1) - 1 = i
    BY <1>1, <2>2, ArgumentsOK
  <2>4. NamesTypes(A[i + 1])
    BY <1>1, <1>2, <2>1, <2>3, ArgumentsOK
  <2> QED
    BY <1>2, <2>1, <2>4 DEF Got
<1>3. ASSUME value[f] = Initial(f) PROVE NamesTypes(value[f])
  <2>1. CASE f \in DOMAIN env
    <3>1. NamesTypes(env[f])
      BY <1>1, <2>1, NamesAssumption DEF Started
    <3>2. Initial(f) = env[f]
      BY <1>1, <2>1, <3>1 DEF Initial, Assigned, NamesTypes
    <3> QED
      BY <1>3, <3>1, <3>2
  <2>2. CASE f \notin DOMAIN env
    <3>1. value[f] = List({"scm"})
      BY <1>1, <1>3, <2>2 DEF Initial, Default
    <3> QED
      BY <3>1, NamesAre DEF NamesTypes, List
  <2> QED
    BY <2>1, <2>2
<1>4. NamesTypes(value[f])
  BY <1>1, <1>2, <1>3 DEF ValuesAre
<1> QED
  BY <1>4 DEF NamesTypes, Wanted

(* No length is beyond the powers of two that are listed.                  *)
LEMMA PowersDo ==
  ASSUME NEW v \in Nat, v <= 8192
  PROVE  NextPowerOf2(v) \in Powers /\ NextPowerOf2(v) >= v
<1> DEFINE S == {n \in Powers : n >= v}
<1>1. \E n \in S : \A m \in S : n <= m
  BY DEF Powers
<1>2. Min(S) \in S
  BY <1>1 DEF Min
<1> QED
  BY <1>2 DEF NextPowerOf2

(* The sizes of the buffers are those of one valid symbol length and of    *)
(* registered types.                                                       *)
LEMMA Sizes ==
  ASSUME ParseInv, GeometryInv, pc \in Built
  PROVE  /\ Cfg.PreambleSymbols \in {16, 21, 32}
         /\ Cfg.PacketSymbols \in {96, 116, 128, 736}
         /\ Cfg.PreambleSymbols <= Cfg.PacketSymbols
         /\ \E m \in {2, 8, 10, 12, 14, 16, 18, 20, 22, 24}, b \in Nat :
              /\ Cfg.ChipLength = 4 * m /\ SymbolLength = 8 * m
              /\ PreambleLength = 8 * (Cfg.PreambleSymbols * m)
              /\ PacketLength = 8 * (Cfg.PacketSymbols * m)
              /\ BlockSize = 8 * b /\ b > 0 /\ b >= Cfg.PreambleSymbols * m
         /\ len = Lengths /\ msgType # {} /\ msgType \subseteq Registered /\ Done = msgType
<1>1. /\ msgType = IF Wanted = {"all"} THEN {"scm", "scm+", "idm", "r900"} ELSE Wanted
      /\ names = {} /\ Done \subseteq Registered /\ LargestOf /\ ValidLength /\ len = Lengths
  BY DEF GeometryInv, Built
<1>2. Done # {} /\ Done = msgType
  BY <1>1, SomeType DEF Done, After
<1> DEFINE s == symbolLength
           n == Cfg.PreambleSymbols
           t == Cfg.PacketSymbols
<1>3. s \in {8, 32, 40, 48, 56, 64, 72, 80, 88, 96} /\ Cfg.ChipLength = s
  BY <1>1, <1>2 DEF ValidLength, LargestOf
<1>4. PICK m \in {2, 8, 10, 12, 14, 16, 18, 20, 22, 24} : s = 4 * m
  <2> HIDE DEF s
  <2> QED
    BY <1>3
<1>5. n \in {16, 21, 32} /\ t \in {96, 116, 128, 736} /\ n <= t
  <2>1. PICK p \in Done, q \in Done :
          n = ParserCfg(p).PreambleSymbols /\ t = ParserCfg(q).PacketSymbols
    BY <1>1, <1>2 DEF LargestOf
  <2>2. ParserCfg(p).PreambleSymbols <= t
    <3>1. ParserCfg(p).PreambleSymbols <= ParserCfg(p).PacketSymbols
      BY <1>1, <2>1, ParserFacts
    <3>2. ParserCfg(p).PacketSymbols <= t
      BY <1>1 DEF LargestOf
    <3>3. /\ ParserCfg(p).PreambleSymbols \in Int /\ ParserCfg(p).PacketSymbols \in Int
          /\ t \in Int
      BY <1>1, <2>1, ParserFacts
    <3> QED
      BY <3>1, <3>2, <3>3
  <2> QED
    BY <1>1, <2>1, <2>2, ParserFacts
<1> HIDE DEF s, n, t
<1>6. SymbolLength = 8 * m
  BY <1>3, <1>4 DEF SymbolLength
<1>7. n * m \in Nat /\ t * m \in Nat /\ n * (8 * m) = 8 * (n * m) /\ t * (8 * m) = 8 * (t * m)
  BY <1>4, <1>5
<1>8. PreambleLength = 8 * (n * m) /\ PacketLength = 8 * (t * m)
  BY <1>6, <1>7 DEF PreambleLength, PacketLength, n, t
<1>9. 8 * (n * m) \in Nat /\ 8 * (n * m) <= 8192
  BY <1>4, <1>5
<1>10. BlockSize \in Powers /\ BlockSize >= 8 * (n * m)
  BY <1>8, <1>9, PowersDo DEF BlockSize
<1>11. PICK b \in Nat : BlockSize = 8 * b /\ b > 0
  <2>1. \A k \in Powers : \E b \in {2, 4, 8, 16, 32, 64, 128, 256, 512, 1024} : k = 8 * b
    BY DEF Powers
  <2> QED
    BY <1>10, <2>1
<1>12. b >= n * m
  BY <1>7, <1>10, <1>11
<1> QED
  <2>1. /\ Cfg.ChipLength = 4 * m /\ SymbolLength = 8 * m
        /\ PreambleLength = 8 * (n * m) /\ PacketLength = 8 * (t * m)
        /\ BlockSize = 8 * b /\ b > 0 /\ b >= n * m
    BY <1>3, <1>4, <1>6, <1>8, <1>11, <1>12
  <2> QED
    BY <1>1, <1>2, <1>5, <2>1 DEF n, t

LEMMA ProductGrows ==
  ASSUME NEW i \in Nat, NEW j \in Nat, NEW m \in Nat, i <= j PROVE i * m <= j * m
OBVIOUS

(* With every length a multiple of m or b, the indices compare term by     *)
(* term.                                                                   *)
LEMMA IndicesHold == ParseInv /\ GeometryInv => IndicesInRange
<1> SUFFICES ASSUME ParseInv, GeometryInv, pc \in Built PROVE IndicesInRange
  BY DEF IndicesInRange, Allocated, GeometryInv
<1> DEFINE n == Cfg.PreambleSymbols
           t == Cfg.PacketSymbols
<1>1. /\ n \in {16, 21, 32} /\ t \in {96, 116, 128, 736} /\ n <= t
      /\ len = Lengths /\ msgType \subseteq Registered /\ Done = msgType
  BY Sizes
<1>2. PICK m \in {2, 8, 10, 12, 14, 16, 18, 20, 22, 24}, b \in Nat :
        /\ SymbolLength = 8 * m /\ PreambleLength = 8 * (n * m) /\ PacketLength = 8 * (t * m)
        /\ BlockSize = 8 * b /\ b > 0 /\ b >= n * m
  BY Sizes
<1>3. /\ len.Signal = 8 * b + 8 * m
      /\ len.Quantized = 8 * (t * m) + 8 * b
      /\ len.csum = 8 * b + 8 * m + 1
      /\ len.pkt = (t + 7) \div 8
      /\ len.packed = (8 * b + 8 * (n * m) + 7) \div 8
      /\ len.block = 2 * (8 * b)
  BY <1>1, <1>2 DEF Lengths, BufferLength
<1>4. LastPosition = 8 * b - 1
  BY <1>2 DEF LastPosition
<1>5. ASSUME NEW p \in Parsers PROVE ParserCfg(p).PreambleSymbols \in 1 .. n
  <2>1. ParserCfg(p).PreambleSymbols <= n
    BY <1>1 DEF Parsers, GeometryInv, Built, LargestOf
  <2>2. ParserCfg(p).PreambleSymbols \in {16, 21, 32}
    BY <1>1, ParserFacts DEF Parsers
  <2> QED
    BY <1>1, <2>1, <2>2
<1>6. /\ n * m \in Nat /\ t * m \in Nat /\ n * m <= t * m
      /\ (t - 1) * m = t * m - m
  BY <1>1, <1>2, ProductGrows
<1> HIDE DEF n, t
<1>7. len.packed = b + n * m
  <2> DEFINE c == n * m
  <2>1. c \in Nat /\ len.packed = (8 * b + 8 * c + 7) \div 8
    BY <1>3, <1>6
  <2> HIDE DEF c
  <2>2. (8 * b + 8 * c + 7) \div 8 = b + c
    BY <2>1
  <2> QED
    BY <2>1, <2>2 DEF c
<1>8. 2 * (len.Signal - SymbolLength) = len.block /\ len.Quantized - PacketLength = BlockSize
  <2> DEFINE c == t * m
  <2>1. c \in Nat /\ len.Quantized = 8 * c + 8 * b /\ PacketLength = 8 * c
    BY <1>2, <1>3, <1>6
  <2> HIDE DEF c
  <2> QED
    BY <1>2, <1>3, <2>1
<1>9. SymbolLength + LastPosition <= len.csum - 1
  BY <1>2, <1>3, <1>4
<1>10. len.packed * 8 <= len.Quantized
  <2> DEFINE c == t * m
             d == n * m
  <2>1. c \in Nat /\ d \in Nat /\ d <= c /\ len.Quantized = 8 * c + 8 * b /\ len.packed = b + d
    BY <1>3, <1>6, <1>7
  <2> HIDE DEF c, d
  <2> QED
    BY <2>1
<1>11. ASSUME NEW p \in Parsers
       PROVE  LET last == ParserCfg(p).PreambleSymbols - 1 IN
              /\ LastPosition \div 8 + last * (SymbolLength \div 8) < len.packed
              /\ last * SymbolLength + BlockSize <= len.Quantized
  <2> DEFINE last == ParserCfg(p).PreambleSymbols - 1
             c == t * m
             d == n * m
             e == last * m
  <2>1. last \in Nat /\ last <= n
    BY <1>1, <1>5 DEF n
  <2>2. e \in Nat /\ e <= d /\ last * (8 * m) = 8 * e
    BY <1>1, <1>2, <2>1, ProductGrows DEF n
  <2>3. c \in Nat /\ d \in Nat /\ d <= c /\ len.Quantized = 8 * c + 8 * b /\ len.packed = b + d
    BY <1>3, <1>6, <1>7
  <2>4. (8 * b - 1) \div 8 = b - 1 /\ (8 * m) \div 8 = m
    BY <1>2
  <2>5. /\ LastPosition \div 8 + last * (SymbolLength \div 8) = b - 1 + e
        /\ last * SymbolLength + BlockSize = 8 * e + 8 * b
    BY <1>2, <1>4, <2>2, <2>4
  <2> HIDE DEF c, d, e, last
  <2>6. b - 1 + e < len.packed /\ 8 * e + 8 * b <= len.Quantized
    BY <2>2, <2>3
  <2> QED
    BY <2>5, <2>6 DEF last
<1>12. LastPosition + (Cfg.PacketSymbols - 1) * SymbolLength < len.Quantized
  <2> DEFINE c == t * m
  <2>1. c \in Nat /\ len.Quantized = 8 * c + 8 * b
    BY <1>3, <1>6
  <2>2. (t - 1) * (8 * m) = 8 * c - 8 * m
    BY <1>1, <1>2, <1>6 DEF t
  <2> HIDE DEF c
  <2> QED
    BY <1>2, <1>4, <2>1, <2>2 DEF t
<1>13. (Cfg.PacketSymbols - 1) \div 8 < len.pkt
  BY <1>1, <1>3 DEF t
<1> QED
  BY <1>8, <1>9, <1>10, <1>11, <1>12, <1>13 DEF IndicesInRange

(* No slice expression is out of range: a theorem about Allocate for every *)
(* valid symbol length and every set of types.                             *)
THEOREM IndicesSafe == Spec => []IndicesInRange
BY ParseInvariance, GeometryInvariance, IndicesHold, PTL

(* An r900 parser brings its own lengths, and they just suffice: 32 symbols*)
(* of preamble and 42 digits make 116 symbols.                             *)
LEMMA AssumptionsHold == ParseInv /\ GeometryInv => MeetsAssumptions
<1> SUFFICES ASSUME ParseInv, GeometryInv, pc \in Built PROVE MeetsAssumptions
  BY DEF MeetsAssumptions, Allocated, GeometryInv
<1> DEFINE n == Cfg.PreambleSymbols
           t == Cfg.PacketSymbols
<1>1. /\ n \in {16, 21, 32} /\ t \in {96, 116, 128, 736} /\ n <= t
      /\ msgType \subseteq Registered /\ Done = msgType
  BY Sizes
<1>2. PICK m \in {2, 8, 10, 12, 14, 16, 18, 20, 22, 24}, b \in Nat :
        /\ SymbolLength = 8 * m /\ PreambleLength = 8 * (n * m) /\ PacketLength = 8 * (t * m)
        /\ Cfg.ChipLength = 4 * m
        /\ BlockSize = 8 * b /\ b > 0 /\ b >= n * m
  BY Sizes
<1>3. LargestOf /\ OncePerPreamble
  BY DEF GeometryInv, Built
<1>4. ASSUME NEW p \in Parsers PROVE ParserCfg(p).PreambleSymbols \in 1 .. t
  <2>1. ParserCfg(p).PreambleSymbols <= n
    BY <1>1, <1>3 DEF Parsers, LargestOf
  <2>2. ParserCfg(p).PreambleSymbols \in {16, 21, 32}
    BY <1>1, ParserFacts DEF Parsers
  <2> QED
    BY <1>1, <2>1, <2>2
<1>5. ASSUME preambles["r900"] # << >>
      PROVE  n = 32 /\ PreambleLength + PayloadSymbols * 4 * Cfg.ChipLength <= PacketLength
  <2>1. preambles["r900"] \in Seq(Own("r900"))
    BY <1>3 DEF OncePerPreamble, Preambles
  <2>2. PICK p : p \in Own("r900")
    <3>1. Head(preambles["r900"]) \in Own("r900")
      BY <1>5, <2>1, HeadTailProperties
    <3> QED
      BY <3>1
  <2>3. /\ p \in Done /\ ParserCfg(p).PreambleSymbols = 32 /\ ParserCfg(p).PacketSymbols = 116
    BY <1>1, <2>2, ParserFacts DEF Own
  <2>4. n >= 32 /\ t >= 116
    BY <1>3, <2>3 DEF LargestOf
  <2> HIDE DEF n, t
  <2>5. n = 32 /\ 116 * m <= t * m
    BY <1>1, <1>2, <2>4, ProductGrows
  <2>6. n * m = 32 * m /\ t * m \in Nat /\ PayloadSymbols * 4 * (4 * m) = 672 * m
    BY <1>1, <1>2, <2>5 DEF PayloadSymbols
  <2> DEFINE c == t * m
  <2>7. /\ PacketLength = 8 * c /\ c \in Nat /\ 116 * m <= c
        /\ PreambleLength = 8 * (32 * m)
        /\ PayloadSymbols * 4 * Cfg.ChipLength = 672 * m
    BY <1>2, <2>5, <2>6
  <2> HIDE DEF c
  <2> QED
    BY <2>5, <2>7
<1>6. SymbolLength % 8 = 0 /\ SymbolLength > 0 /\ BlockSize % 8 = 0
  BY <1>2
<1>7. BlockSize >= PreambleLength
  <2> DEFINE c == n * m
  <2>1. c \in Nat /\ PreambleLength = 8 * c /\ b >= c
    BY <1>1, <1>2
  <2> HIDE DEF c
  <2> QED
    BY <1>2, <2>1
<1> QED
  BY <1>4, <1>5, <1>6, <1>7 DEF MeetsAssumptions, R900

(* What Search and Window assume of the lengths holds whenever the decoder *)
(* is set up: a theorem about RegisterProtocol and Allocate.               *)
THEOREM AssumptionsMet == Spec => []MeetsAssumptions
BY ParseInvariance, GeometryInvariance, AssumptionsHold, PTL

(* A type is in the list of its preamble, once, and in no other.           *)
LEMMA PacketsHold == ParseInv /\ GeometryInv => PacketsUsable
<1> SUFFICES ASSUME ParseInv, GeometryInv, pc \in Built, NEW p \in Parsers
             PROVE  /\ \A pre \in Preambles :
                         Cardinality({i \in DOMAIN preambles[pre] : preambles[pre][i] = p}) =
                           (IF pre = ParserCfg(p).Preamble THEN 1 ELSE 0)
                    /\ ParserCfg(p).PacketSymbols <= Cfg.PacketSymbols
                    /\ ParserCfg(p).bytes * 8 <= Cfg.PacketSymbols
  BY DEF PacketsUsable, Allocated, GeometryInv
<1>1. /\ Cfg.PacketSymbols \in {96, 116, 128, 736}
      /\ p \in Registered /\ p \in Done
  BY Sizes DEF Parsers
<1>2. LargestOf /\ OncePerPreamble
  BY DEF GeometryInv, Built
<1>3. ASSUME NEW pre \in Preambles
      PROVE  Cardinality({i \in DOMAIN preambles[pre] : preambles[pre][i] = p}) =
               (IF pre = ParserCfg(p).Preamble THEN 1 ELSE 0)
  <2> DEFINE S == {i \in DOMAIN preambles[pre] : preambles[pre][i] = p}
  <2>1. CASE pre = ParserCfg(p).Preamble
    <3>1. p \in Own(pre)
      BY <1>1, <2>1 DEF Own
    <3>2. PICK i \in DOMAIN preambles[pre] : preambles[pre][i] = p
      BY <1>2, <3>1 DEF OncePerPreamble
    <3>3. S = {i}
      BY <1>2, <3>2 DEF OncePerPreamble
    <3> QED
      BY <2>1, <3>3, FS_Singleton
  <2>2. CASE pre # ParserCfg(p).Preamble
    <3>1. preambles[pre] \in Seq(Own(pre)) /\ p \notin Own(pre)
      BY <1>2, <2>2 DEF OncePerPreamble, Own
    <3>2. S = {}
      BY <3>1, ElementOfSeq, LenProperties
    <3> QED
      BY <2>2, <3>2, FS_EmptySet
  <2> QED
    BY <2>1, <2>2
<1>4. ParserCfg(p).PacketSymbols <= Cfg.PacketSymbols
  BY <1>1, <1>2 DEF LargestOf
<1>5. ParserCfg(p).bytes * 8 <= Cfg.PacketSymbols
  <2>1. /\ ParserCfg(p).bytes * 8 <= ParserCfg(p).PacketSymbols
        /\ ParserCfg(p).PacketSymbols \in Int /\ ParserCfg(p).bytes \in {0, 12, 16, 92}
    BY <1>1, ParserFacts
  <2> QED
    BY <1>1, <1>4, <2>1
<1> QED
  BY <1>3, <1>4, <1>5

(* Every parser asked for is registered once and gets whole packets: a     *)
(* theorem about RegisterProtocol for every set of types.                  *)
THEOREM PacketsSuffice == Spec => []PacketsUsable
BY ParseInvariance, GeometryInvariance, PacketsHold, PTL
-----------------------------------------------------------------------------
(* The types are registered in the order of their names, so no r900 type   *)
(* comes behind an scm type, and none of the others behind an r900 type.   *)
ByName ==
  pc \in {"register"} \cup Built =>
    /\ Done \cap {"scm", "scm+"} # {} =>
         names \cap {"idm", "netidm", "r900", "r900bcd"} = {}
    /\ Done \cap {"r900", "r900bcd"} # {} => names \cap {"idm", "netidm"} = {}
    /\ Done # {} =>
         Cfg.CenterFreq =
           IF Done \cap {"r900", "r900bcd"} # {} /\ Done \cap {"scm", "scm+"} = {}
           THEN 912380000 ELSE 912600155

(* What sort.Strings puts in front of a type.                              *)
LEMMA NothingBefore ==
  ASSUME NEW name \in Registered, IsNext(name)
  PROVE  /\ name \in {"scm", "scm+"} => names \cap {"idm", "netidm", "r900", "r900bcd"} = {}
         /\ name \in {"r900", "r900bcd"} => names \cap {"idm", "netidm"} = {}
<1> DEFINE S == Sorted
<1>1. /\ S[3] = "idm" /\ S[4] = "netidm" /\ S[5] = "r900" /\ S[6] = "r900bcd"
      /\ S[7] = "scm" /\ S[8] = "scm+" /\ S[1] = "all" /\ S[2] = "gas" /\ DOMAIN S = 1 .. 8
  BY DEF Sorted
<1>2. \A j \in 1 .. 8 : S[j] \in names => \E i \in 1 .. j : S[i] = name
  BY <1>1 DEF IsNext
<1> HIDE DEF S
<1>3. ASSUME NEW j \in 1 .. 6, S[j] \in names PROVE name \notin {"scm", "scm+"}
  BY <1>1, <1>2, <1>3
<1>4. ASSUME NEW j \in 1 .. 4, S[j] \in names PROVE name \notin {"r900", "r900bcd"}
  BY <1>1, <1>2, <1>4
<1> QED
  BY <1>1, <1>3, <1>4

LEMMA NextByName == GeometryInv /\ ByName /\ [Next]_vars => ByName'
<1> SUFFICES ASSUME GeometryInv, ByName, [Next]_vars PROVE ByName'
  OBVIOUS
<1>1. CASE RegisterProtocol
  <2>1. PICK name \in Registered : pc = "register" /\ IsNext(name) /\ Register(name)
    BY <1>1 DEF RegisterProtocol
  <2>2. /\ name \in names /\ names' = names \ {name} /\ pc' = pc
        /\ Cfg'.CenterFreq = ParserCfg(name).CenterFreq
    BY <2>1 DEF Register, IsNext
  <2>3. Done' = Done \cup {name}
    BY <2>1, <2>2, RegisterKeepsLargest
  <2>4. Cfg'.CenterFreq = IF name \in {"r900", "r900bcd"} THEN 912380000 ELSE 912600155
    BY <2>2 DEF ParserCfg, IDM, R900, SCM, SCMPlus, Registered
  <2>5. name \in {"idm", "netidm", "r900", "r900bcd", "scm", "scm+"}
    BY DEF Registered
  <2> QED
    BY <2>1, <2>2, <2>3, <2>4, <2>5, NothingBefore DEF ByName
<1>2. CASE SortTypes
  <2>1. Done' = {}
    BY <1>2 DEF SortTypes, Done
  <2> QED
    BY <2>1 DEF ByName
<1>3. CASE Allocate \/ Connect \/ Visit \/ UNCHANGED vars \/ Over
  BY <1>3 DEF Allocate, Connect, Visit, Over, vars, decoderVars, ByName, Built, Done
<1>4. CASE ParseFlags \/ HandleFlags \/ UnknownType
  <2>1. pc' \notin {"register"} \cup Built
    BY <1>4 DEF ParseFlags, EnvOverride, ParseValueFlag, MissingValue, ParseBoolFlag,
                ParseEnds, HandleFlags, UnknownType, Built
  <2> QED
    BY <2>1 DEF ByName
<1> QED
  BY <1>1, <1>2, <1>3, <1>4 DEF Next, SetUpDecoder

LEMMA RadioHolds == ParseInv /\ GeometryInv /\ ByName => RadioDeterministic
<1> SUFFICES ASSUME ParseInv, GeometryInv, ByName, Allocated PROVE RadioDeterministic
  BY DEF RadioDeterministic
<1>1. pc \in Built
  BY DEF GeometryInv, Allocated
<1>2. Wanted # {}
  BY <1>1, SomeType DEF After
<1>3. Done = Parsers /\ Parsers # {}
  BY <1>1, <1>2 DEF GeometryInv, Done, Parsers
<1> QED
  BY <1>1, <1>3 DEF ByName, RadioDeterministic

(* For every set of message types the frequency of the tuner's plan is the *)
(* same in every run: a theorem about NewReceiver and RegisterProtocol.    *)
THEOREM SameRadioEachRun == Spec => []RadioDeterministic
<1>1. Init => ByName
  BY DEF Init, FlagsInit, ByName, Built
<1> QED
  BY <1>1, NextByName, RadioHolds, ParseInvariance, GeometryInvariance, PTL DEF Spec
=============================================================================
