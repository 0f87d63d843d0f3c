---------------------------- MODULE MCConnection -----------------------------
(* Two clients that may be exchanged.                                        *)
EXTENDS Connection, TLC

CONSTANTS c1, c2

MCClients == {c1, c2}
MCSymmetry == Permutations(MCClients)
=============================================================================
