--------------------------- MODULE MCServerMessages ---------------------------
(* Lengths of the messages: with FRAGMENT_SIZE 2 a short one is a datagram,  *)
(* a long one a full fragment and an empty one.                              *)
EXTENDS ServerMessages

CONSTANTS short, long

MCMessage == {short, long}
MCLength == [m \in MCMessage |-> IF m = short THEN 1 ELSE 2]
=============================================================================
