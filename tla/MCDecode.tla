------------------------------ MODULE MCDecode ------------------------------
(***************************************************************************)
(* -msgtype=idm,netidm,r900bcd: two parsers on one preamble, a wrapping    *)
(* one on another.                                                         *)
(***************************************************************************)
EXTENDS Decode

MCParsers == {"idm", "netidm", "r900bcd"}
MCPreambles == {"01", "10"}
MCPreambleOf == [p \in MCParsers |-> IF p = "r900bcd" THEN "10" ELSE "01"]
MCWrapped == {"r900bcd"}
=============================================================================
