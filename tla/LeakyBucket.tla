----------------------------- MODULE LeakyBucket -----------------------------
(***************************************************************************)
(* The buckets of SVC_BucketForAddress (code/server/sv_main.c) with their  *)
(* hash chains: doubly linked lists that buckets join at the head and      *)
(* leave, wherever they are, when they are reclaimed.                      *)
(***************************************************************************)
EXTENDS RateLimit, FiniteSets

CONSTANTS
    Hashes,
    SVC_HashForAddress(_),
    NULL

ASSUME LeakyBucketAssumption ==
    /\ \A a \in Addresses : SVC_HashForAddress(a) \in Hashes
    /\ NULL \notin Buckets

VARIABLES
    bucketHashes,   \* hash -> the first bucket of its chain, or NULL
    hash, next, prev

chainvars == <<bucketHashes, hash, next, prev>>
vars == <<limitvars, chainvars>>

AnyHash == CHOOSE h \in Hashes : TRUE

Init ==
    /\ LimitInit
    /\ bucketHashes = [h \in Hashes |-> NULL]
    /\ hash = [b \in Buckets |-> AnyHash]
    /\ next = [b \in Buckets |-> NULL]
    /\ prev = [b \in Buckets |-> NULL]

\* The buckets that a search of the chain visits: the least set with the head
\* in it and, after each bucket, the next one.
Closed(h, S) ==
    /\ bucketHashes[h] # NULL => bucketHashes[h] \in S
    /\ \A b \in S : next[b] # NULL => next[b] \in S

Chain(h) == {b \in Buckets : \A S \in SUBSET Buckets : Closed(h, S) => b \in S}

Found(a) == {b \in Chain(SVC_HashForAddress(a)) : holder[b] = a}

\* The first bucket that is free, or that can be reclaimed.
FirstAvailable(b) ==
    /\ Available(b)
    /\ \A c \in 1 .. b - 1 : ~Available(c)

-----------------------------------------------------------------------------
(* A reclaimed bucket leaves its chain.                                    *)

\* Mutant: the chain's head is not moved on.
HeadsWithout_Kept(b) == bucketHashes

HeadsWithout(b) ==
    IF holder[b] # NA_BAD /\ prev[b] = NULL
    THEN [bucketHashes EXCEPT ![hash[b]] = next[b]]
    ELSE bucketHashes

NextWithout(b) ==
    IF holder[b] # NA_BAD /\ prev[b] # NULL
    THEN [next EXCEPT ![prev[b]] = next[b]]
    ELSE next

\* Mutant: the bucket behind the reclaimed one keeps its "prev".
PrevWithout_Kept(b) == prev

PrevWithout(b) ==
    IF holder[b] # NA_BAD /\ next[b] # NULL
    THEN [prev EXCEPT ![next[b]] = prev[b]]
    ELSE prev

(* A bucket that is allocated joins the chain of its address at the head.  *)
Relink(b, a) ==
    LET h == SVC_HashForAddress(a)
        first == HeadsWithout(b)[h]
    IN  /\ bucketHashes' = [HeadsWithout(b) EXCEPT ![h] = b]
        /\ hash' = [hash EXCEPT ![b] = h]
        /\ next' = [NextWithout(b) EXCEPT ![b] = first]
        /\ prev' = [c \in Buckets |-> IF c = b THEN NULL
                                      ELSE IF c = first THEN b
                                      ELSE PrevWithout(b)[c]]

-----------------------------------------------------------------------------
UseBucket(a, second) ==
    /\ \E b \in Found(a) : Charge(holder, lastTime, burst, b, second)
    /\ UNCHANGED chainvars

AllocateBucket(a, second) ==
    /\ Found(a) = {}
    /\ \E b \in Buckets :
        /\ FirstAvailable(b)
        /\ Relink(b, a)
        /\ Charge(Allocated(b, a), Restarted(b), Emptied(b), b, second)

NoBucket(a) ==
    /\ Found(a) = {}
    /\ \A b \in Buckets : ~Available(b)
    /\ UNCHANGED vars

SVC_RateLimitAddress(a, second) ==
    \/ UseBucket(a, second)
    \/ AllocateBucket(a, second)
    \/ NoBucket(a)

Next ==
    \/ \E a \in Addresses, second \in Seconds : SVC_RateLimitAddress(a, second)
    \/ Advance /\ UNCHANGED chainvars
    \/ SetBack /\ UNCHANGED chainvars

Spec == Init /\ [][Next]_vars

-----------------------------------------------------------------------------
TypeOK ==
    /\ time \in 0 .. MaxTime
    /\ holder \in [Buckets -> Addresses \cup {NA_BAD}]
    /\ lastTime \in [Buckets \cup Statics -> -Half .. Half - 1]
    /\ burst \in [Buckets \cup Statics -> 0 .. Limit]
    /\ debt \in [Holders -> Nat]
    /\ bucketHashes \in [Hashes -> Buckets \cup {NULL}]
    /\ hash \in [Buckets -> Hashes]
    /\ next \in [Buckets -> Buckets \cup {NULL}]
    /\ prev \in [Buckets -> Buckets \cup {NULL}]

\* The chains hold the buckets in use, each in the chain of its address's
\* hash, linked both ways, and no two of them for one address: whatever was
\* reclaimed, a search neither misses a bucket nor finds one that is free.
ChainsExact ==
    /\ \A h \in Hashes :
        /\ Chain(h) = {b \in Buckets : holder[b] # NA_BAD /\ hash[b] = h}
        /\ bucketHashes[h] # NULL => prev[bucketHashes[h]] = NULL
    /\ \A b \in Buckets : holder[b] # NA_BAD =>
        /\ hash[b] = SVC_HashForAddress(holder[b])
        /\ next[b] # NULL => prev[next[b]] = b
        /\ \A c \in Buckets \ {b} : holder[c] # holder[b]
=============================================================================
