------------------------------ MODULE MCStartup ------------------------------
(***************************************************************************)
(* Every launch of the launcher in every environment of at most one        *)
(* variable, a user's filters in those environments, and a user's          *)
(* -symbollength with every combination of message types.                  *)
(***************************************************************************)
EXTENDS Startup, TLC

Launched ==
  {l \in [mode : Modes, found : 1 .. 3, device : 0 .. 2,
          gain : BOOLEAN, freqs : BOOLEAN, duration : BOOLEAN] :
     /\ l.device < l.found
     /\ l.mode # "survey" => l.found < 3}

Variables ==
  {<<"-server", Word("54321")>>, <<"-format", Word("xml")>>, <<"-format", Word("yaml")>>,
   <<"-msgtype", List({"scm"})>>, <<"-unique", Word("true")>>,
   <<"-unique", Word("false")>>, <<"-unique", Broken({})>>, <<"-filterid", List({"17"})>>,
   <<"-filterid", Broken({"17"})>>, <<"-symbollength", List({96})>>,
   <<"-symbollength", List({100})>>, <<"-symbollength", Broken({})>>,
   <<"-centerfreq", List({904000000})>>, <<"-tunergain", Word("20.0")>>,
   <<"-centerfreq", Broken({})>>, <<"-duration", Word("1m")>>,
   <<"-single", Word("true")>>, <<"-version", Word("true")>>}
Empty == [f \in {} |-> None]
Environments == {Empty} \cup {v[1] :> v[2] : v \in Variables}

User(args) == [mode |-> "user", args |-> args]
Id(items) == <<Word("-filterid"), List(items)>>
Filtering ==
  {User(ids \o type \o other) :
     ids \in {<< >>, Id({"18"}), Id({"18"}) \o Id({"19", "20"}),
              <<Word("-filterid"), Broken({"18"})>>},
     type \in {<< >>, <<Word("-filtertype"), List({"4"})>>},
     other \in {<< >>, <<Word("-unique")>>, <<Word("-samplefile"), Word("dump")>>,
              <<Word("-samplefile")>>}}

SymbolLengths == {2, 8, 32, 40, 48, 56, 64, 72, 80, 88, 96, 100}
Combinations ==
  {User(<<Word("-symbollength"), List({n}), Word("-msgtype"), List(S)>>) :
     n \in SymbolLengths, S \in SUBSET {Sorted[i] : i \in DOMAIN Sorted} \ {{}}}

MCStarts ==
  [launch : Launched \cup Filtering, env : Environments]
    \cup [launch : Combinations, env : {Empty}]
=============================================================================
