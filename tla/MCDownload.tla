------------------------------ MODULE MCDownload ------------------------------
(***************************************************************************)
(* Values of Download's constants for TLC.  With a window of two blocks, a *)
(* short file fits into it together with its empty block, and a long one   *)
(* makes a buffer of the window be used again.                             *)
(***************************************************************************)
EXTENDS Download

CONSTANTS short, long, sealed, secret

Four == <<short, long, sealed, secret>>
Two  == <<short, long>>
MCBlocks == [f \in File |-> CASE f = short -> 1 [] f = long -> 2 [] OTHER -> 0]
===============================================================================
