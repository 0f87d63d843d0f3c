----------------------------- MODULE MCSvNetchan -----------------------------
(***************************************************************************)
(* Values of SvNetchan's constants for TLC.  With FRAGMENT_SIZE 2 the      *)
(* lengths 0, 2, 3 and 4 are an empty message, one that needs an empty     *)
(* last fragment after one or two full ones, and one with a short last     *)
(* fragment.                                                               *)
(***************************************************************************)
EXTENDS SvNetchan, TLC

CONSTANTS empty, one, odd, two

MCMessage == {empty, one, odd, two}
MCLength  == (empty :> 0) @@ (one :> 2) @@ (odd :> 3) @@ (two :> 4)
=============================================================================
