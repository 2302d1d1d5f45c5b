------------------------------ MODULE MCSearch ------------------------------
(***************************************************************************)
(* Every stream of three blocks of four decisions, bytes of two, symbols   *)
(* of one byte, preambles of two lengths.                                  *)
(***************************************************************************)
EXTENDS Search

MCPreambles == {[j \in 0 .. 2 |-> IF j = 1 THEN 0 ELSE 1], [j \in 0 .. 1 |-> j]}
=============================================================================
