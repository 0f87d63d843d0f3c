---------------------------- MODULE MCLeakyBucket ----------------------------
(***************************************************************************)
(* Three addresses, two of which share a hash, and two buckets.            *)
(***************************************************************************)
EXTENDS LeakyBucket, TLC

CONSTANTS a1, a2, a3, outbound

MCHash(a) == IF a = a3 THEN 1 ELSE 0

MCStaticPeriod == [s \in {outbound} |-> 1]

MCSymmetry == Permutations({a1, a2})
=============================================================================
