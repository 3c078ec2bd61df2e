-------------------------------- MODULE MCOutput --------------------------------
(***************************************************************************)
(* Output for TLC: pieces that cannot be mistaken for parts of each other. *)
(***************************************************************************)
EXTENDS Output

MCPiece == { <<>>, <<"a">>, <<"b", "c">>, <<"d", "e", "f", "g", "h">> }
===============================================================================
