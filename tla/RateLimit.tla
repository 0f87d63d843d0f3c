------------------------------ MODULE RateLimit ------------------------------
(***************************************************************************)
(* The limiter of connectionless requests (code/server/sv_main.c): what    *)
(* SVC_RateLimit does with a bucket, and which buckets a request is        *)
(* charged to.  A bucket is found here by the address it holds; the hash   *)
(* chains by which the code finds it are in LeakyBucket, which implements  *)
(* this module.                                                            *)
(*                                                                         *)
(* Time is in milliseconds.  "time" is the true time since the clock's     *)
(* origin, Int32(time) what Sys_Milliseconds returns.                      *)
(***************************************************************************)
EXTENDS Integers

CONSTANTS
    Addresses,      \* addresses that requests come from
    MAX_BUCKETS,
    Limit,          \* "burst" of the calls: 10 everywhere
    Period,         \* 1000 for an address
    Statics,        \* the buckets that belong to no address: outboundLeakyBucket
                    \* and the one for bad rcon passwords
    StaticPeriod,   \* 100 and 1000
    Half,           \* 2^31: an int is in -Half .. Half - 1
    MaxTime,        \* bound: the last millisecond of a behaviour
    NA_BAD          \* netadrtype_t of a bucket that is not in use

Buckets == 1 .. MAX_BUCKETS
Holders == Addresses \cup Statics

ASSUME RateLimitAssumption ==
    /\ MAX_BUCKETS \in Nat
    /\ Limit \in Nat \ {0}
    /\ Period \in Nat \ {0}
    /\ StaticPeriod \in [Statics -> Nat \ {0}]
    /\ MaxTime \in Nat
    /\ Half \in Nat \ {0}
    /\ Half > (Limit + 1) * Period
    /\ \A s \in Statics : Half > (Limit + 1) * StaticPeriod[s]
    /\ NA_BAD \notin Holders
    /\ Statics \cap Addresses = {}
    /\ Statics \cap Buckets = {}

VARIABLES
    time,
    holder,         \* bucket -> the address it holds, or NA_BAD
    lastTime,       \* bucket -> int
    burst,          \* bucket -> signed char
    debt,           \* history: holder -> milliseconds of rate it has used up
    setBack         \* history: the clock has been set back

limitvars == <<time, holder, lastTime, burst, debt, setBack>>

PeriodOf(c) == IF c \in Statics THEN StaticPeriod[c] ELSE Period

Int32(n) == ((n + Half) % (2 * Half)) - Half

(* netadr type NA_BAD: the arrays are zero when the program starts. *)
LimitInit ==
    /\ time \in 1 .. Period
    /\ holder = [b \in Buckets |-> NA_BAD]
    /\ lastTime = [c \in Buckets \cup Statics |-> 0]
    /\ burst = [c \in Buckets \cup Statics |-> 0]
    /\ debt = [h \in Holders |-> 0]
    /\ setBack = FALSE

-----------------------------------------------------------------------------
(* SVC_RateLimit, with the bucket's fields as parameters: a bucket that was *)
(* allocated by the same call has new ones.                                 *)

Interval(last, c) == Int32(time - last[c])

Idle(last, level, c) ==
    \/ Interval(last, c) < 0
    \/ Interval(last, c) \div PeriodOf(c) > level[c]

Drained(last, level, c) ==
    IF Idle(last, level, c) THEN 0
    ELSE level[c] - Interval(last, c) \div PeriodOf(c)

\* Mutant: what is left of the period is lost when a bucket is drained.
Since_Now(last, level, c) == Int32(time)

Since(last, level, c) ==
    IF Idle(last, level, c) THEN Int32(time)
    ELSE Int32(time - (Interval(last, c) % PeriodOf(c)))

Limited(last, level, c) == Drained(last, level, c) >= Limit

Owner(held, c) == IF c \in Statics THEN c ELSE held[c]

\* Bucket b is asked, and the bucket of the request's kind if b has room:
\* each is drained, and filled by one unless it is full.
Charge(held, last, level, b, second) ==
    LET asked == IF Limited(last, level, b) THEN {b} ELSE {b} \cup second
    IN  /\ holder' = held
        /\ lastTime' = [c \in DOMAIN last |->
                          IF c \in asked THEN Since(last, level, c) ELSE last[c]]
        /\ burst' = [c \in DOMAIN level |->
                       IF c \notin asked THEN level[c]
                       ELSE IF Limited(last, level, c)
                              THEN Drained(last, level, c)
                              ELSE Drained(last, level, c) + 1]
        /\ debt' = [h \in Holders |->
                      IF \E c \in asked : Owner(held, c) = h /\ ~Limited(last, level, c)
                        THEN debt[h] + PeriodOf(h) ELSE debt[h]]
        /\ UNCHANGED <<time, setBack>>

-----------------------------------------------------------------------------
(* SVC_BucketForAddress.                                                   *)

\* Mutant: a bucket is taken to be expired one drained request too early.
Expired_Early(b) ==
    /\ lastTime[b] > 0
    /\ \/ Interval(lastTime, b) > (Limit - 1) * Period
       \/ Interval(lastTime, b) < 0

Expired(b) ==
    /\ lastTime[b] > 0
    /\ \/ Interval(lastTime, b) > Limit * Period
       \/ Interval(lastTime, b) < 0

Available(b) == holder[b] = NA_BAD \/ Expired(b)

\* Allocation of bucket b to an address: its fields are new.
Allocated(b, a) == [holder EXCEPT ![b] = a]
Restarted(b) == [lastTime EXCEPT ![b] = Int32(time)]
Emptied(b) == [burst EXCEPT ![b] = 0]

\* A getstatus, getinfo or getchallenge is charged to the address and to the
\* bucket of all answers, a bad rcon to the address and to that of bad rcons,
\* an rcon with the right password to the address alone.
Seconds == {{}} \cup {{s} : s \in Statics}

ChargeFound(a, second) ==
    \E b \in Buckets :
        /\ holder[b] = a
        /\ Charge(holder, lastTime, burst, b, second)

ChargeAllocated(a, second) ==
    /\ \A b \in Buckets : holder[b] # a
    /\ \E b \in Buckets :
        /\ Available(b)
        /\ Charge(Allocated(b, a), Restarted(b), Emptied(b), b, second)

Refuse(a) ==
    /\ \A b \in Buckets : holder[b] # a /\ ~Available(b)
    /\ UNCHANGED limitvars

Request(a, second) ==
    \/ ChargeFound(a, second)
    \/ ChargeAllocated(a, second)
    \/ Refuse(a)

\* Sys_Milliseconds is the wall clock: it advances, and it may be set back, by
\* any number of milliseconds.  A debt is counted from the last time it was.
Repaid(d) == IF d > 0 THEN d - 1 ELSE 0

Advance ==
    /\ time < MaxTime
    /\ time' = time + 1
    /\ debt' = [h \in Holders |-> Repaid(debt[h])]
    /\ UNCHANGED <<holder, lastTime, burst, setBack>>

SetBack ==
    /\ time > 0
    /\ time' = time - 1
    /\ debt' = [h \in Holders |-> 0]
    /\ setBack' = TRUE
    /\ UNCHANGED <<holder, lastTime, burst>>

LimitNext ==
    \/ \E a \in Addresses, second \in Seconds : Request(a, second)
    \/ Advance
    \/ SetBack

LimitSpec == LimitInit /\ [][LimitNext]_limitvars

-----------------------------------------------------------------------------
\* However requests, reclaimed buckets, wraps of the clock and other addresses
\* alternate, an address, the answers together and the bad rcons together
\* never get more than the burst ahead of their rate: in any stretch of time
\* in which the clock is not set back, at most Limit + 1 requests plus one for
\* each period of it pass.
RateBound == \A h \in Holders : debt[h] <= (Limit + 1) * PeriodOf(h) - 1

\* Who keeps to the rate is not refused: as long as the clock has not been set
\* back, a bucket that would refuse now holds a debt of nearly the whole burst,
\* although the time of a bucket is moved back to the start of a period, is
\* negative in the second half of the clock's range, and wraps in between.  It
\* holds until the clock has gone all the way round: a bucket that nobody asked
\* in 2^32 milliseconds would then seem to have been asked just now.
NotOverLimited ==
    ~setBack => \A c \in Buckets \cup Statics :
        (c \in Statics \/ holder[c] # NA_BAD) /\ Limited(lastTime, burst, c) =>
            debt[Owner(holder, c)] > (Limit - 1) * PeriodOf(c)
=============================================================================
