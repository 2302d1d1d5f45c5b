------------------------------ MODULE MCReport ------------------------------
(***************************************************************************)
(* Two meters of different commodities and two readings; command lines     *)
(* with and without each flag.                                             *)
(***************************************************************************)
EXTENDS Report

MCMeterTypeOf == [id \in Ids |-> id]

MCFlagSets ==
  [unique : BOOLEAN, single : BOOLEAN, ids : {{}, {1}, {1, 2}}, types : {{}, {1}}]

(* -unique alone.                                                          *)
MCUniqueOnly == [unique : {TRUE}, single : {FALSE}, ids : {{}}, types : {{}}]
=============================================================================
