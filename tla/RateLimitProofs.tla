--------------------------- MODULE RateLimitProofs ---------------------------
(***************************************************************************)
(* The rate bound of RateLimit holds for every number of buckets and       *)
(* addresses, every burst and period, and however often the clock wraps.   *)
(* The inductive invariant compares a holder's true debt with what its     *)
(* bucket makes of it: as long as the interval that the bucket sees is not *)
(* negative, the debt is at most one period, less a millisecond, more than *)
(* the level of the bucket after draining.                                 *)
(*                                                                         *)
(* Conversely, until the clock has gone all the way round, a level is      *)
(* backed by a debt, so that who keeps to the rate is never refused.       *)
(*                                                                         *)
(* The hash chains of LeakyBucket find what RateLimit looks up by address: *)
(* a chain holds the buckets in use with its hash, whichever were taken    *)
(* out of the middle of it.                                                *)
(***************************************************************************)
EXTENDS LeakyBucket, TLAPS

Covered(held, last, level, c) ==
    \/ debt[Owner(held, c)] = 0
    \/ /\ Interval(last, c) >= 0
       /\ debt[Owner(held, c)] + Interval(last, c) <= (level[c] + 1) * PeriodOf(c) - 1

InUse(held, c) == c \in Statics \/ held[c] # NA_BAD

FieldsOK(held, last, level) ==
    /\ held \in [Buckets -> Addresses \cup {NA_BAD}]
    /\ last \in [Buckets \cup Statics -> Int]
    /\ level \in [Buckets \cup Statics -> 0 .. Limit]

OneEach(held) ==
    \A b, c \in Buckets : held[b] # NA_BAD /\ held[b] = held[c] => b = c

AllCovered(held, last, level) ==
    /\ \A c \in Buckets \cup Statics :
        InUse(held, c) => Covered(held, last, level, c)
    /\ \A a \in Addresses : (\A b \in Buckets : held[b] # a) => debt[a] <= Period - 1

HistoryOK == time \in Nat /\ debt \in [Holders -> Nat]

IInv ==
    /\ HistoryOK
    /\ FieldsOK(holder, lastTime, burst)
    /\ OneEach(holder)
    /\ AllCovered(holder, lastTime, burst)

-----------------------------------------------------------------------------
(* The wrapped clock.                                                      *)

\* Adding a multiple of the modulus does not change a remainder.
LEMMA ModShift ==
    ASSUME NEW M \in Nat \ {0}, NEW n \in Int, NEW k \in Int
    PROVE  (n + M * k) % M = n % M
<1>1. n = M * (n \div M) + (n % M) /\ n % M \in 0 .. M - 1 /\ n \div M \in Int
  OBVIOUS
<1>2. LET x == n + M * k
      IN  x = M * (x \div M) + (x % M) /\ x % M \in 0 .. M - 1 /\ x \div M \in Int
  OBVIOUS
<1> DEFINE x == n + M * k
           q == x \div M - (n \div M + k)
<1>3. M * q = (n % M) - (x % M)
  BY <1>1, <1>2
<1>4. q \in Int
  BY <1>1, <1>2
<1>5. q = 0
  <2>1. M * q < M /\ M * q > -M
    BY <1>1, <1>2, <1>3
  <2>2. CASE q >= 1
    <3>1. M * q >= M
      BY <2>2, <1>4
    <3> QED
      BY <3>1, <2>1, <1>4
  <2>3. CASE q <= -1
    <3>1. M * q <= -M
      BY <2>3, <1>4
    <3> QED
      BY <3>1, <2>1, <1>4
  <2> QED
    BY <2>2, <2>3, <1>4
<1> QED
  BY <1>3, <1>5, <1>1, <1>2

\* Int32 takes a number to the int that differs by a multiple of 2 * Half.
LEMMA Int32Type ==
    ASSUME NEW n \in Int
    PROVE  /\ Int32(n) \in -Half .. Half - 1
           /\ \E k \in Int : Int32(n) = n + (2 * Half) * k
<1> DEFINE M == 2 * Half
           x == n + Half
<1>1. Half \in Nat \ {0} /\ M \in Nat \ {0}
  BY RateLimitAssumption
<1>2. x = M * (x \div M) + (x % M) /\ x % M \in 0 .. M - 1 /\ x \div M \in Int
  BY <1>1
<1>3. Int32(n) = n + M * (-(x \div M)) /\ -(x \div M) \in Int
  BY <1>1, <1>2 DEF Int32
<1>4. Int32(n) \in -Half .. Half - 1
  BY <1>1, <1>2 DEF Int32
<1> QED
  BY <1>3, <1>4

\* A number that fits an int is its own Int32, whatever multiple was added.
LEMMA Int32Of ==
    ASSUME NEW n \in -Half .. Half - 1, NEW k \in Int
    PROVE  Int32(n + (2 * Half) * k) = n
<1>1. Half \in Nat \ {0} /\ 2 * Half \in Nat \ {0}
  BY RateLimitAssumption
<1>2. n + Half \in 0 .. 2 * Half - 1
  BY <1>1
<1>3. (n + Half) % (2 * Half) = n + Half
  BY <1>1, <1>2
<1>4. ((n + Half) + (2 * Half) * k) % (2 * Half) = n + Half
  <2> DEFINE M == 2 * Half
             x == n + Half
  <2>1. M \in Nat \ {0} /\ x \in Int /\ x % M = x
    BY <1>1, <1>2, <1>3
  <2> HIDE DEF M, x
  <2>2. (x + M * k) % M = x % M
    BY <2>1, ModShift
  <2> QED
    BY <2>1, <2>2 DEF M, x
<1>5. (n + (2 * Half) * k) + Half = (n + Half) + (2 * Half) * k
  BY <1>1
<1> QED
  BY <1>1, <1>2, <1>4, <1>5 DEF Int32

\* The interval that a bucket sees when its time has just been set.
LEMMA IntervalOf ==
    ASSUME NEW t \in Int, NEW r \in 0 .. Half - 1
    PROVE  Int32(t - Int32(t - r)) = r
<1>1. Half \in Nat \ {0}
  BY RateLimitAssumption
<1>2. PICK k \in Int : Int32(t - r) = (t - r) + (2 * Half) * k
  <2> DEFINE n == t - r
  <2>1. n \in Int
    BY <1>1
  <2> HIDE DEF n
  <2>2. \E k \in Int : Int32(n) = n + (2 * Half) * k
    BY <2>1, Int32Type
  <2> QED
    BY <2>2 DEF n
<1>3. t - Int32(t - r) = r + (2 * Half) * (-k)
  BY <1>1, <1>2
<1>4. r \in -Half .. Half - 1 /\ -k \in Int
  BY <1>1
<1> QED
  BY <1>3, <1>4, Int32Of

\* A millisecond later an interval is one longer, or has wrapped.
LEMMA IntervalLater ==
    ASSUME NEW n \in Int
    PROVE  \/ Int32(n + 1) = Int32(n) + 1
           \/ Int32(n) = Half - 1 /\ Int32(n + 1) = -Half
<1>1. Half \in Nat \ {0}
  BY RateLimitAssumption
<1>2. PICK k \in Int : Int32(n) = n + (2 * Half) * k
  BY Int32Type
<1>3. Int32(n) \in -Half .. Half - 1
  BY Int32Type
<1>4. CASE Int32(n) < Half - 1
  <2>1. n + 1 = (Int32(n) + 1) + (2 * Half) * (-k) /\ -k \in Int
    BY <1>1, <1>2
  <2>2. Int32(n) + 1 \in -Half .. Half - 1
    BY <1>1, <1>3, <1>4
  <2> QED
    BY <2>1, <2>2, Int32Of
<1>5. CASE Int32(n) = Half - 1
  <2>1. n + 1 = (-Half) + (2 * Half) * (1 - k) /\ 1 - k \in Int
    BY <1>1, <1>2, <1>5
  <2>2. -Half \in -Half .. Half - 1
    BY <1>1
  <2> QED
    BY <2>1, <2>2, <1>5, Int32Of
<1> QED
  BY <1>1, <1>3, <1>4, <1>5

-----------------------------------------------------------------------------
(* One bucket.                                                             *)

\* What draining does to a debt that is covered: nothing is lost but whole
\* periods, and what is left of the last one stays in the interval.
LEMMA DrainArithmetic ==
    ASSUME NEW p \in Nat \ {0}, NEW i \in Nat, NEW level \in Nat, NEW d \in Nat,
           d + i <= (level + 1) * p - 1
    PROVE  /\ i \div p <= level
           /\ d + (i % p) <= (level - (i \div p) + 1) * p - 1
<1> DEFINE e == i \div p
           r == i % p
<1>1. i = p * e + r /\ r \in 0 .. p - 1 /\ e \in Int
  OBVIOUS
<1> HIDE DEF e, r
<1>2. e <= level
  <2>1. SUFFICES ASSUME e >= level + 1 PROVE FALSE
    BY <1>1
  <2>2. p * e >= p * (level + 1)
    BY <1>1, <2>1
  <2> QED
    BY <1>1, <2>2
<1>3. (level - e + 1) * p = (level + 1) * p - p * e
  BY <1>1
<1> QED
  BY <1>1, <1>2, <1>3 DEF e, r

LEMMA PeriodType ==
    ASSUME NEW c
    PROVE  PeriodOf(c) \in Nat \ {0} /\ PeriodOf(c) < Half
<1>1. Limit \in Nat \ {0} /\ Half \in Nat \ {0}
  BY RateLimitAssumption
<1>2. \A p \in Nat \ {0} : Half > (Limit + 1) * p => p < Half
  <2> TAKE p \in Nat \ {0}
  <2>1. (Limit + 1) * p = Limit * p + p /\ Limit * p \in Nat
    BY <1>1
  <2> QED
    BY <1>1, <2>1
<1> QED
  BY <1>2, RateLimitAssumption DEF PeriodOf

LEMMA OwnerPeriod ==
    ASSUME NEW held, NEW last, NEW level, FieldsOK(held, last, level),
           NEW c \in Buckets \cup Statics, InUse(held, c)
    PROVE  Owner(held, c) \in Holders /\ PeriodOf(Owner(held, c)) = PeriodOf(c)
BY RateLimitAssumption DEF FieldsOK, InUse, Owner, Holders, PeriodOf

LEMMA OwnerInjective ==
    ASSUME NEW held, NEW last, NEW level, FieldsOK(held, last, level), OneEach(held),
           NEW c \in Buckets \cup Statics, InUse(held, c),
           NEW e \in Buckets \cup Statics, InUse(held, e),
           Owner(held, c) = Owner(held, e)
    PROVE  c = e
BY RateLimitAssumption DEF FieldsOK, OneEach, InUse, Owner, Holders

\* A drained bucket still covers its debt, and does so after a request that is
\* let through has filled it by one.
LEMMA DrainCovers ==
    ASSUME NEW held, NEW last, NEW level, HistoryOK, FieldsOK(held, last, level),
           NEW c \in Buckets \cup Statics, InUse(held, c),
           Covered(held, last, level, c)
    PROVE  /\ Drained(last, level, c) \in 0 .. Limit
           /\ Since(last, level, c) \in Int
           /\ LET d == debt[Owner(held, c)]
                  r == Int32(time - Since(last, level, c))
                  p == PeriodOf(c)
              IN  /\ r \in 0 .. p - 1
                  /\ d = 0 \/ d + r <= (Drained(last, level, c) + 1) * p - 1
                  /\ (d + p) + r <= ((Drained(last, level, c) + 1) + 1) * p - 1
<1> DEFINE d == debt[Owner(held, c)]
           i == Interval(last, c)
           p == PeriodOf(c)
           e == i \div p
           D == Drained(last, level, c)
           S == Since(last, level, c)
           r == Int32(time - S)
<1>1. p \in Nat \ {0} /\ p < Half /\ Half \in Nat \ {0}
  BY PeriodType, RateLimitAssumption
<1>2. d \in Nat /\ level[c] \in 0 .. Limit /\ time \in Nat /\ last[c] \in Int /\ Limit \in Nat
  BY OwnerPeriod, RateLimitAssumption DEF HistoryOK, FieldsOK
<1>3. i \in Int
  <2>1. time - last[c] \in Int
    BY <1>2
  <2> QED
    BY <2>1, Int32Type, <1>1 DEF Interval
<1>4. CASE Idle(last, level, c)
  <2>1. d = 0
    <3>1. SUFFICES ASSUME d # 0 PROVE FALSE
      OBVIOUS
    <3>2. i >= 0 /\ d + i <= (level[c] + 1) * p - 1
      BY <3>1 DEF Covered
    <3>3. i \div p <= level[c]
      BY <3>2, <1>1, <1>2, <1>3, DrainArithmetic
    <3> QED
      BY <3>2, <3>3, <1>1, <1>2, <1>3, <1>4 DEF Idle
  <2>2. D = 0 /\ S = Int32(time)
    BY <1>4 DEF Drained, Since
  <2>3. r = 0
    <3>1. 0 \in 0 .. Half - 1 /\ time \in Int /\ time - 0 = time
      BY <1>1, <1>2
    <3> QED
      BY <3>1, <2>2, IntervalOf
  <2>4. S \in Int
    BY <2>2, <1>1, <1>2, Int32Type
  <2>5. (d + p) + r <= ((D + 1) + 1) * p - 1
    BY <2>1, <2>2, <2>3, <1>1
  <2> QED
    BY <2>1, <2>2, <2>3, <2>4, <2>5, <1>1, <1>2
<1>5. CASE ~Idle(last, level, c)
  <2>1. i >= 0 /\ e <= level[c]
    BY <1>1, <1>2, <1>3, <1>5 DEF Idle
  <2>2. D = level[c] - e /\ S = Int32(time - (i % p))
    BY <1>5 DEF Drained, Since
  <2>3. i % p \in 0 .. p - 1 /\ e \in Nat
    BY <2>1, <1>1, <1>3
  <2>4. r = i % p /\ S \in Int
    <3> DEFINE x == i % p
    <3>1. x \in 0 .. Half - 1 /\ time \in Int /\ time - x \in Int
      BY <2>3, <1>1, <1>2
    <3>2. S = Int32(time - x)
      BY <2>2
    <3> HIDE DEF x
    <3>3. Int32(time - Int32(time - x)) = x
      BY <3>1, <1>1, IntervalOf
    <3>4. Int32(time - x) \in -Half .. Half - 1
      <4> DEFINE n == time - x
      <4>1. n \in Int
        BY <3>1
      <4> HIDE DEF n
      <4>2. Int32(n) \in -Half .. Half - 1
        BY <4>1, Int32Type
      <4> QED
        BY <4>2 DEF n
    <3> QED
      BY <3>2, <3>3, <3>4, <1>1 DEF x
  <2>5. D \in 0 .. Limit
    BY <2>1, <2>2, <2>3, <1>2
  <2>6. d = 0 \/ d + r <= (D + 1) * p - 1
    <3>1. SUFFICES ASSUME d # 0 PROVE d + r <= (D + 1) * p - 1
      OBVIOUS
    <3>2. d + i <= (level[c] + 1) * p - 1
      BY <3>1 DEF Covered
    <3>3. d + (i % p) <= (level[c] - e + 1) * p - 1
      <4> DEFINE l == level[c]
      <4>1. d \in Nat /\ i \in Nat /\ l \in Nat /\ p \in Nat \ {0}
            /\ d + i <= (l + 1) * p - 1
        BY <3>2, <2>1, <1>1, <1>2, <1>3
      <4> HIDE DEF d, i, l, p
      <4>2. d + (i % p) <= (l - (i \div p) + 1) * p - 1
        BY <4>1, DrainArithmetic
      <4> QED
        BY <4>2 DEF l
    <3> QED
      BY <3>3, <2>2, <2>4
  <2>7. ((D + 1) + 1) * p = (D + 1) * p + p /\ (D + 1) * p = D * p + p /\ D * p \in Nat
    BY <2>5, <1>1, <1>2
  <2>8. (d + p) + r <= ((D + 1) + 1) * p - 1
    <3>1. r \in 0 .. p - 1
      BY <2>3, <2>4
    <3> HIDE DEF d, r, D, p
    <3> QED
      BY <3>1, <2>5, <2>6, <2>7, <1>1, <1>2
  <2> QED
    BY <2>3, <2>4, <2>5, <2>6, <2>8
<1> QED
  BY <1>4, <1>5

-----------------------------------------------------------------------------
(* A request.                                                              *)

\* Whatever buckets are asked, each of them covers its owner's debt again, and
\* no other owner's debt changes.
LEMMA ChargeKeeps ==
    ASSUME NEW held, NEW last, NEW level,
           HistoryOK, FieldsOK(held, last, level), OneEach(held),
           AllCovered(held, last, level),
           NEW b \in Buckets, InUse(held, b), NEW second \in Seconds,
           Charge(held, last, level, b, second)
    PROVE  IInv'
<1> DEFINE asked == IF Limited(last, level, b) THEN {b} ELSE {b} \cup second
           d(c) == debt[Owner(held, c)]
           D(c) == Drained(last, level, c)
           S(c) == Since(last, level, c)
           p(c) == PeriodOf(c)
<1>1. asked \subseteq Buckets \cup Statics /\ \A c \in asked : InUse(held, c)
  BY DEF Seconds, InUse
<1>2. /\ holder' = held
      /\ lastTime' = [c \in DOMAIN last |-> IF c \in asked THEN S(c) ELSE last[c]]
      /\ burst' = [c \in DOMAIN level |->
                     IF c \notin asked THEN level[c]
                     ELSE IF Limited(last, level, c) THEN D(c) ELSE D(c) + 1]
      /\ debt' = [h \in Holders |->
                    IF \E c \in asked : Owner(held, c) = h /\ ~Limited(last, level, c)
                    THEN debt[h] + PeriodOf(h) ELSE debt[h]]
      /\ time' = time
  BY DEF Charge
<1>3. DOMAIN last = Buckets \cup Statics /\ DOMAIN level = Buckets \cup Statics
  BY DEF FieldsOK
<1> HIDE DEF asked, d, D, S, p
<1>4. ASSUME NEW c \in asked
      PROVE  /\ D(c) \in 0 .. Limit /\ S(c) \in Int /\ d(c) \in Nat /\ p(c) \in Nat \ {0}
             /\ Int32(time - S(c)) \in 0 .. p(c) - 1
             /\ d(c) = 0 \/ d(c) + Int32(time - S(c)) <= (D(c) + 1) * p(c) - 1
             /\ (d(c) + p(c)) + Int32(time - S(c)) <= ((D(c) + 1) + 1) * p(c) - 1
  <2>1. c \in Buckets \cup Statics /\ InUse(held, c)
    BY <1>1
  <2>2. Covered(held, last, level, c)
    BY <2>1 DEF AllCovered
  <2>3. d(c) \in Nat /\ p(c) \in Nat \ {0}
    BY <2>1, OwnerPeriod, PeriodType DEF HistoryOK, d, p
  <2> QED
    BY <2>1, <2>2, <2>3, DrainCovers DEF d, D, S, p
<1>5. ASSUME NEW c \in asked
      PROVE  /\ lastTime'[c] = S(c)
             /\ Limited(last, level, c) => burst'[c] = D(c)
             /\ ~Limited(last, level, c) => burst'[c] = D(c) + 1 /\ D(c) < Limit
  <2>1. c \in Buckets \cup Statics
    BY <1>1
  <2>2. ~Limited(last, level, c) => D(c) < Limit
    BY <1>4, RateLimitAssumption DEF Limited, D
  <2> QED
    BY <1>2, <1>3, <2>1, <2>2
<1>6. ASSUME NEW c \in Buckets \cup Statics, c \notin asked
      PROVE  lastTime'[c] = last[c] /\ burst'[c] = level[c]
  BY <1>2, <1>3, <1>6
<1>7. ASSUME NEW c \in asked
      PROVE  debt'[Owner(held, c)] = IF Limited(last, level, c) THEN d(c) ELSE d(c) + p(c)
  <2>1. c \in Buckets \cup Statics /\ InUse(held, c)
    BY <1>1
  <2>2. Owner(held, c) \in Holders /\ PeriodOf(Owner(held, c)) = p(c)
    BY <2>1, OwnerPeriod DEF p
  <2>3. \A e \in asked : Owner(held, e) = Owner(held, c) => e = c
    BY <1>1, <2>1, OwnerInjective
  <2> QED
    BY <1>2, <2>2, <2>3 DEF d
<1>8. ASSUME NEW h \in Holders, \A c \in asked : Owner(held, c) # h
      PROVE  debt'[h] = debt[h]
  BY <1>2, <1>8
<1>9. HistoryOK'
  <2>1. debt' \in [Holders -> Nat]
    <3> SUFFICES ASSUME NEW h \in Holders PROVE debt'[h] \in Nat
      BY <1>2
    <3>1. CASE \A c \in asked : Owner(held, c) # h
      BY <3>1, <1>8 DEF HistoryOK
    <3>2. CASE \E c \in asked : Owner(held, c) = h
      <4>1. PICK c \in asked : Owner(held, c) = h
        BY <3>2
      <4>2. debt'[h] = d(c) \/ debt'[h] = d(c) + p(c)
        BY <4>1, <1>7
      <4> QED
        BY <4>2, <1>4
    <3> QED
      BY <3>1, <3>2
  <2> QED
    BY <2>1, <1>2 DEF HistoryOK
<1>10. FieldsOK(holder, lastTime, burst)'
  <2>1. \A c \in Buckets \cup Statics : lastTime'[c] \in Int
    BY <1>4, <1>5, <1>6 DEF FieldsOK
  <2>2. \A c \in Buckets \cup Statics : burst'[c] \in 0 .. Limit
    <3> SUFFICES ASSUME NEW c \in Buckets \cup Statics PROVE burst'[c] \in 0 .. Limit
      OBVIOUS
    <3>1. CASE c \in asked
      BY <3>1, <1>4, <1>5, RateLimitAssumption
    <3>2. CASE c \notin asked
      BY <3>2, <1>6 DEF FieldsOK
    <3> QED
      BY <3>1, <3>2
  <2> QED
    BY <2>1, <2>2, <1>2, <1>3 DEF FieldsOK
<1>11. OneEach(holder)'
  BY <1>2 DEF OneEach
<1>12. ASSUME NEW c \in Buckets \cup Statics, InUse(held, c)
       PROVE  Covered(holder, lastTime, burst, c)'
  <2> USE <1>12
  <2> DEFINE q == Int32(time - lastTime'[c])
  <2>1. SUFFICES debt'[Owner(held, c)] = 0 \/
                 (q >= 0 /\ debt'[Owner(held, c)] + q <= (burst'[c] + 1) * p(c) - 1)
    BY <1>2 DEF Covered, Interval, Owner, p
  <2>2. CASE c \in asked
    <3>1. q \in 0 .. p(c) - 1 /\ q = Int32(time - S(c)) /\ p(c) \in Nat \ {0}
      BY <2>2, <1>4, <1>5
    <3>2. CASE Limited(last, level, c)
      BY <2>2, <3>1, <3>2, <1>4, <1>5, <1>7
    <3>3. CASE ~Limited(last, level, c)
      BY <2>2, <3>1, <3>3, <1>4, <1>5, <1>7
    <3> QED
      BY <3>2, <3>3
  <2>3. CASE c \notin asked
    <3>1. Owner(held, c) \in Holders
      BY OwnerPeriod
    <3>2. \A e \in asked : Owner(held, e) # Owner(held, c)
      BY <2>3, <1>1, OwnerInjective
    <3>3. debt'[Owner(held, c)] = debt[Owner(held, c)]
      BY <3>1, <3>2, <1>8
    <3>4. Covered(held, last, level, c)
      BY DEF AllCovered
    <3> QED
      BY <2>3, <3>3, <3>4, <1>6 DEF Covered, Interval, p
  <2> QED
    BY <2>2, <2>3
<1>13. ASSUME NEW a \in Addresses, \A e \in Buckets : held[e] # a
       PROVE  debt'[a] <= Period - 1
  <2>1. \A c \in asked : Owner(held, c) # a
    BY <1>1, <1>13, RateLimitAssumption DEF Owner
  <2>2. a \in Holders
    BY DEF Holders
  <2> QED
    BY <2>1, <2>2, <1>8, <1>13 DEF AllCovered
<1>14. AllCovered(holder, lastTime, burst)'
  BY <1>2, <1>12, <1>13 DEF AllCovered, InUse
<1> QED
  BY <1>9, <1>10, <1>11, <1>14 DEF IInv

-----------------------------------------------------------------------------
(* The invariant.                                                          *)

LEMMA InitEstablishes == LimitInit => IInv
<1> SUFFICES ASSUME LimitInit PROVE IInv
  OBVIOUS
<1> USE DEF LimitInit
<1>1. Limit \in Nat \ {0} /\ Period \in Nat \ {0}
  BY RateLimitAssumption
<1>2. HistoryOK
  BY <1>1 DEF HistoryOK
<1>3. FieldsOK(holder, lastTime, burst)
  BY <1>1 DEF FieldsOK
<1>4. OneEach(holder)
  BY DEF OneEach
<1>5. AllCovered(holder, lastTime, burst)
  <2>1. \A c \in Buckets \cup Statics : InUse(holder, c) => Covered(holder, lastTime, burst, c)
    BY DEF InUse, Covered, Owner, Holders
  <2>2. \A a \in Addresses : debt[a] <= Period - 1
    BY <1>1 DEF Holders
  <2> QED
    BY <2>1, <2>2 DEF AllCovered
<1> QED
  BY <1>2, <1>3, <1>4, <1>5 DEF IInv

\* A bucket that has expired leaves its address with less than a period of
\* debt, and a new bucket covers that much.
LEMMA AllocationKeeps ==
    ASSUME IInv, NEW a \in Addresses, \A b \in Buckets : holder[b] # a,
           NEW b \in Buckets, Available(b)
    PROVE  /\ FieldsOK(Allocated(b, a), Restarted(b), Emptied(b))
           /\ OneEach(Allocated(b, a))
           /\ AllCovered(Allocated(b, a), Restarted(b), Emptied(b))
           /\ InUse(Allocated(b, a), b)
<1> USE DEF IInv
<1> DEFINE held == Allocated(b, a)
           last == Restarted(b)
           level == Emptied(b)
<1>1. /\ Limit \in Nat \ {0} /\ Period \in Nat \ {0} /\ time \in Nat /\ Half \in Nat \ {0}
      /\ Int32(time) \in Int /\ a # NA_BAD
  BY Int32Type, RateLimitAssumption DEF HistoryOK, Holders
<1>2. /\ held[b] = a /\ last[b] = Int32(time) /\ level[b] = 0
      /\ \A c \in Buckets \ {b} : held[c] = holder[c]
      /\ \A c \in (Buckets \cup Statics) \ {b} : last[c] = lastTime[c] /\ level[c] = burst[c]
  BY DEF Allocated, Restarted, Emptied, FieldsOK
<1>3. FieldsOK(held, last, level)
  BY <1>1 DEF FieldsOK, Allocated, Restarted, Emptied
<1> HIDE DEF held, last, level
<1>4. OneEach(held)
  BY <1>2 DEF OneEach
<1>5. b \notin Statics /\ PeriodOf(b) = Period
  BY RateLimitAssumption DEF PeriodOf
<1>6. Interval(last, b) = 0
  <2>1. 0 \in 0 .. Half - 1 /\ time \in Int /\ time - 0 = time
    BY <1>1
  <2> QED
    BY <2>1, <1>2, IntervalOf DEF Interval
<1>7. Covered(held, last, level, b)
  <2>1. Owner(held, b) = a /\ a \in Holders
    BY <1>2, <1>5 DEF Owner, Holders
  <2>2. debt[a] <= Period - 1 /\ debt[a] \in Nat
    BY <2>1 DEF AllCovered, HistoryOK
  <2> QED
    BY <2>1, <2>2, <1>1, <1>2, <1>5, <1>6 DEF Covered
<1>8. ASSUME NEW c \in (Buckets \cup Statics) \ {b}, InUse(held, c)
      PROVE  Covered(held, last, level, c)
  <2>1. Owner(held, c) = Owner(holder, c) /\ InUse(holder, c)
    BY <1>2, <1>8 DEF Owner, InUse
  <2>2. Covered(holder, lastTime, burst, c)
    BY <2>1 DEF AllCovered
  <2> QED
    BY <2>1, <2>2, <1>2 DEF Covered, Interval
<1>9. ASSUME NEW o \in Addresses, \A c \in Buckets : held[c] # o
      PROVE  debt[o] <= Period - 1
  <2>1. CASE holder[b] # o
    <3>1. \A c \in Buckets : holder[c] # o
      BY <2>1, <1>2, <1>9
    <3> QED
      BY <3>1 DEF AllCovered
  <2>2. CASE holder[b] = o
    <3> DEFINE i == Interval(lastTime, b)
    <3>1. o # NA_BAD /\ o \in Holders
      BY RateLimitAssumption DEF Holders
    <3>2. Expired(b) /\ Covered(holder, lastTime, burst, b) /\ Owner(holder, b) = o
      BY <2>2, <3>1, <1>5 DEF Available, AllCovered, InUse, Owner
    <3>3. debt[o] \in Nat /\ burst[b] \in 0 .. Limit
      BY <3>1 DEF HistoryOK, FieldsOK
    <3>4. i \in Int
      <4>1. time - lastTime[b] \in Int
        BY <1>1 DEF FieldsOK
      <4> QED
        BY <4>1, <1>1, Int32Type DEF Interval
    <3>5. CASE debt[o] = 0
      BY <3>5, <1>1
    <3>6. CASE debt[o] # 0
      <4>1. i >= 0 /\ debt[o] + i <= (burst[b] + 1) * Period - 1
        BY <3>2, <3>6, <1>5 DEF Covered
      <4>2. i > Limit * Period
        BY <4>1, <3>2, <3>4, <1>1 DEF Expired
      <4>3. (burst[b] + 1) * Period <= (Limit + 1) * Period
            /\ (Limit + 1) * Period = Limit * Period + Period
        BY <3>3, <1>1
      <4> QED
        BY <4>1, <4>2, <4>3, <3>3, <3>4, <1>1
    <3> QED
      BY <3>5, <3>6
  <2> QED
    BY <2>1, <2>2
<1>10. AllCovered(held, last, level)
  BY <1>7, <1>8, <1>9 DEF AllCovered
<1>11. InUse(held, b)
  BY <1>1, <1>2 DEF InUse
<1> QED
  BY <1>3, <1>4, <1>10, <1>11 DEF held, last, level

\* The interval of a bucket grows by as much as its owner's debt shrinks, and
\* has long covered all of it when it wraps.
LEMMA AdvanceKeeps == IInv /\ Advance => IInv'
<1> SUFFICES ASSUME IInv, Advance PROVE IInv'
  OBVIOUS
<1> USE DEF IInv, Advance
<1>1. \A h \in Holders : /\ debt[h] \in Nat /\ debt'[h] \in Nat
                         /\ debt'[h] = Repaid(debt[h])
  BY DEF HistoryOK, Repaid
<1>2. HistoryOK'
  BY <1>1 DEF HistoryOK
<1>3. FieldsOK(holder, lastTime, burst)' /\ OneEach(holder)'
  BY DEF FieldsOK, OneEach
<1>4. ASSUME NEW c \in Buckets \cup Statics, InUse(holder, c)
      PROVE  Covered(holder, lastTime, burst, c)'
  <2> DEFINE h == Owner(holder, c)
             i == Int32(time - lastTime[c])
             j == Int32(time + 1 - lastTime[c])
             m == (burst[c] + 1) * PeriodOf(c)
  <2>0. time' = time + 1 /\ holder' = holder /\ lastTime' = lastTime /\ burst' = burst
    OBVIOUS
  <2> HIDE DEF Advance, IInv
  <2>1. SUFFICES debt'[h] = 0 \/ (j >= 0 /\ debt'[h] + j <= m - 1)
    <3> DEFINE q == Int32(time' - lastTime[c])
    <3>1. q = j
      <4>1. time \in Int /\ lastTime[c] \in Int
        BY DEF IInv, HistoryOK, FieldsOK
      <4>2. time' - lastTime[c] = time + 1 - lastTime[c]
        BY <4>1, <2>0
      <4> QED
        BY <4>2
    <3>2. Covered(holder, lastTime, burst, c)' <=>
             debt'[h] = 0 \/ (q >= 0 /\ debt'[h] + q <= m - 1)
      BY <2>0 DEF Covered, Interval, Owner
    <3> HIDE DEF q, j, h, m
    <3> QED
      BY <3>1, <3>2
  <2> USE DEF Advance, IInv
  <2>2. debt[h] = 0 \/ (i >= 0 /\ debt[h] + i <= m - 1)
    BY <1>4 DEF AllCovered, Covered, Interval
  <2>3. h \in Holders
    BY <1>4, OwnerPeriod
  <2>4. PeriodOf(c) \in Nat \ {0} /\ burst[c] \in 0 .. Limit /\ Half \in Nat \ {0}
        /\ Limit \in Nat /\ lastTime[c] \in Int /\ time \in Nat
    BY PeriodType, RateLimitAssumption DEF FieldsOK, HistoryOK
  <2>5. m \in Nat /\ m < Half
    <3>1. m <= (Limit + 1) * PeriodOf(c) /\ (Limit + 1) * PeriodOf(c) \in Nat /\ m \in Nat
      BY <2>4
    <3>2. (Limit + 1) * PeriodOf(c) < Half
      BY RateLimitAssumption DEF PeriodOf
    <3> QED
      BY <3>1, <3>2, <2>4
  <2>6. i \in Int /\ (j = i + 1 \/ i = Half - 1)
    <3> DEFINE n == time - lastTime[c]
    <3>1. n \in Int /\ time + 1 - lastTime[c] = n + 1
      BY <2>4
    <3> HIDE DEF n
    <3>2. Int32(n) \in -Half .. Half - 1
      BY <3>1, Int32Type
    <3>3. Int32(n + 1) = Int32(n) + 1 \/ Int32(n) = Half - 1
      BY <3>1, IntervalLater
    <3> QED
      BY <3>1, <3>2, <3>3, <2>4 DEF n
  <2> HIDE DEF i, j, m
  <2>7. debt[h] \in Nat /\ debt'[h] = Repaid(debt[h])
    BY <1>1, <2>3
  <2> HIDE DEF h
  <2>8. debt'[h] = IF debt[h] > 0 THEN debt[h] - 1 ELSE 0
    BY <2>7 DEF Repaid
  <2> HIDE DEF Advance, IInv
  <2> QED
    BY <2>2, <2>4, <2>5, <2>6, <2>7, <2>8
<1>5. ASSUME NEW a \in Addresses, \A b \in Buckets : holder[b] # a
      PROVE  debt'[a] <= Period - 1
  <2>1. debt[a] <= Period - 1
    BY <1>5 DEF AllCovered
  <2>2. a \in Holders
    BY DEF Holders
  <2> QED
    BY <2>1, <2>2, <1>1, RateLimitAssumption DEF Repaid
<1>6. AllCovered(holder, lastTime, burst)'
  BY <1>4, <1>5 DEF AllCovered, InUse
<1> QED
  BY <1>2, <1>3, <1>6

LEMMA SetBackKeeps == IInv /\ SetBack => IInv'
<1> SUFFICES ASSUME IInv, SetBack PROVE IInv'
  OBVIOUS
<1> USE DEF IInv, SetBack
<1>1. \A h \in Holders : debt'[h] = 0
  OBVIOUS
<1>2. HistoryOK'
  BY DEF HistoryOK
<1>3. FieldsOK(holder, lastTime, burst)' /\ OneEach(holder)'
  BY DEF FieldsOK, OneEach
<1>4. ASSUME NEW c \in Buckets \cup Statics, InUse(holder, c)
      PROVE  Covered(holder, lastTime, burst, c)'
  <2>1. Owner(holder, c) \in Holders
    BY <1>4, OwnerPeriod
  <2> QED
    BY <2>1, <1>1 DEF Covered, Owner
<1>5. \A a \in Addresses : debt'[a] <= Period - 1
  BY <1>1, RateLimitAssumption DEF Holders
<1>6. AllCovered(holder, lastTime, burst)'
  BY <1>4, <1>5 DEF AllCovered, InUse
<1> QED
  BY <1>2, <1>3, <1>6

LEMMA RequestKeeps ==
    ASSUME IInv, NEW a \in Addresses, NEW second \in Seconds, Request(a, second)
    PROVE  IInv'
<1>1. CASE ChargeFound(a, second)
  <2>1. PICK b \in Buckets : holder[b] = a /\ Charge(holder, lastTime, burst, b, second)
    BY <1>1 DEF ChargeFound
  <2>2. InUse(holder, b)
    BY <2>1, RateLimitAssumption DEF InUse, Holders
  <2> QED
    BY <2>1, <2>2, ChargeKeeps DEF IInv
<1>2. CASE ChargeAllocated(a, second)
  <2>1. /\ \A b \in Buckets : holder[b] # a
        /\ \E b \in Buckets :
            /\ Available(b)
            /\ Charge(Allocated(b, a), Restarted(b), Emptied(b), b, second)
    BY <1>2 DEF ChargeAllocated
  <2>2. PICK b \in Buckets : /\ Available(b)
                             /\ Charge(Allocated(b, a), Restarted(b), Emptied(b), b, second)
    BY <2>1
  <2> DEFINE held == Allocated(b, a)
             last == Restarted(b)
             level == Emptied(b)
  <2>3. /\ FieldsOK(held, last, level) /\ OneEach(held)
        /\ AllCovered(held, last, level) /\ InUse(held, b)
    BY <2>1, <2>2, AllocationKeeps
  <2>4. Charge(held, last, level, b, second) /\ HistoryOK
    BY <2>2 DEF IInv
  <2> HIDE DEF held, last, level
  <2> QED
    BY <2>3, <2>4, ChargeKeeps
<1>3. CASE Refuse(a)
  BY <1>3 DEF Refuse, limitvars, IInv, HistoryOK, FieldsOK, OneEach, AllCovered,
              InUse, Covered, Owner, Interval
<1> QED
  BY <1>1, <1>2, <1>3 DEF Request

LEMMA StepKeeps == IInv /\ [LimitNext]_limitvars => IInv'
<1> SUFFICES ASSUME IInv, [LimitNext]_limitvars PROVE IInv'
  OBVIOUS
<1>1. CASE UNCHANGED limitvars
  BY <1>1 DEF limitvars, IInv, HistoryOK, FieldsOK, OneEach, AllCovered,
              InUse, Covered, Owner, Interval
<1>2. CASE LimitNext
  BY <1>2, RequestKeeps, AdvanceKeeps, SetBackKeeps DEF LimitNext
<1> QED
  BY <1>1, <1>2

\* What is covered is bounded: a bucket's level never exceeds the burst.
LEMMA InvBounds == IInv => RateBound
<1> SUFFICES ASSUME IInv, NEW h \in Holders
             PROVE  debt[h] <= (Limit + 1) * PeriodOf(h) - 1
  BY DEF RateBound
<1>1. Limit \in Nat \ {0} /\ PeriodOf(h) \in Nat \ {0} /\ debt[h] \in Nat
      /\ (Limit + 1) * PeriodOf(h) = Limit * PeriodOf(h) + PeriodOf(h)
      /\ Limit * PeriodOf(h) \in Nat
  BY PeriodType, RateLimitAssumption DEF IInv, HistoryOK
<1>2. ASSUME NEW c \in Buckets \cup Statics, InUse(holder, c), Owner(holder, c) = h
      PROVE  debt[h] <= (Limit + 1) * PeriodOf(h) - 1
  <2>1. Covered(holder, lastTime, burst, c) /\ PeriodOf(h) = PeriodOf(c)
        /\ burst[c] \in 0 .. Limit
    BY <1>2, OwnerPeriod DEF IInv, AllCovered, FieldsOK
  <2>2. (burst[c] + 1) * PeriodOf(h) <= (Limit + 1) * PeriodOf(h)
        /\ (burst[c] + 1) * PeriodOf(h) \in Nat
    BY <2>1, <1>1
  <2>3. CASE debt[h] = 0
    BY <2>3, <1>1
  <2>4. CASE debt[h] # 0
    <3>1. Interval(lastTime, c) >= 0
          /\ debt[h] + Interval(lastTime, c) <= (burst[c] + 1) * PeriodOf(h) - 1
      BY <2>1, <2>4, <1>2 DEF Covered
    <3>2. Interval(lastTime, c) \in Int
      <4>1. time - lastTime[c] \in Int
        BY DEF IInv, HistoryOK, FieldsOK
      <4>2. Half \in Nat
        BY RateLimitAssumption
      <4> QED
        BY <4>1, <4>2, Int32Type DEF Interval
    <3> QED
      BY <3>1, <3>2, <2>2, <1>1
  <2> QED
    BY <2>3, <2>4
<1>3. CASE h \in Statics
  BY <1>2, <1>3 DEF InUse, Owner
<1>4. CASE h \in Addresses
  <2>1. PeriodOf(h) = Period
    BY <1>4, RateLimitAssumption DEF PeriodOf
  <2>2. CASE \E b \in Buckets : holder[b] = h
    <3>1. PICK b \in Buckets : holder[b] = h
      BY <2>2
    <3>2. InUse(holder, b) /\ Owner(holder, b) = h
      BY <3>1, <1>4, RateLimitAssumption DEF InUse, Owner, Holders
    <3> QED
      BY <3>2, <1>2
  <2>3. CASE \A b \in Buckets : holder[b] # h
    <3>1. debt[h] <= Period - 1
      BY <2>3, <1>4 DEF IInv, AllCovered
    <3> QED
      BY <3>1, <2>1, <1>1
  <2> QED
    BY <2>2, <2>3
<1> QED
  BY <1>3, <1>4 DEF Holders

\* No address, nor the answers or the bad rcons together, gets more than the
\* burst ahead of its rate in SVC_RateLimit, however buckets are reclaimed and
\* however often the clock wraps: RateBound for every burst, period, width of
\* the clock, and number of buckets and addresses.
THEOREM RateIsBounded == LimitSpec => []RateBound
<1>1. LimitInit => IInv
  BY InitEstablishes
<1>2. IInv /\ [LimitNext]_limitvars => IInv'
  BY StepKeeps
<1>3. IInv => RateBound
  BY InvBounds
<1> QED
  BY <1>1, <1>2, <1>3, PTL DEF LimitSpec

-----------------------------------------------------------------------------
(* The other side: a bucket's level is backed by a debt.  The moment l that *)
(* a bucket's time stands for is known until the interval has gone all the  *)
(* way round the clock.                                                     *)

Backed(held, last, level, c) ==
    \E l \in 0 .. time :
        /\ last[c] = Int32(l)
        /\ debt[Owner(held, c)] + (time - l) >= level[c] * PeriodOf(c)

AllBacked(held, last, level) ==
    \A c \in Buckets \cup Statics : InUse(held, c) => Backed(held, last, level, c)

BackedInv ==
    /\ time < 2 * Half
    /\ ~setBack => AllBacked(holder, lastTime, burst)

\* The interval to a moment is the true one, or is seen to be negative.
LEMMA IntervalFrom ==
    ASSUME NEW t \in Nat, t < 2 * Half, NEW l \in 0 .. t
    PROVE  Int32(t - Int32(l)) = t - l \/ Int32(t - Int32(l)) < 0
<1>1. Half \in Nat \ {0}
  BY RateLimitAssumption
<1> DEFINE e == t - l
<1>2. e \in 0 .. 2 * Half - 1
  BY <1>1
<1>3. PICK k \in Int : Int32(l) = l + (2 * Half) * k
  <2>1. l \in Int
    OBVIOUS
  <2> QED
    BY <2>1, Int32Type
<1>4. CASE e < Half
  <2>1. t - Int32(l) = e + (2 * Half) * (-k) /\ -k \in Int /\ e \in -Half .. Half - 1
    BY <1>1, <1>2, <1>3, <1>4
  <2> HIDE DEF e
  <2>2. Int32(e + (2 * Half) * (-k)) = e
    BY <2>1, Int32Of
  <2>3. Int32(t - Int32(l)) = e
    BY <2>1, <2>2
  <2> QED
    BY <2>3 DEF e
<1>5. CASE e >= Half
  <2> DEFINE n == e - 2 * Half
  <2>1. t - Int32(l) = n + (2 * Half) * (1 - k) /\ 1 - k \in Int
        /\ n \in -Half .. Half - 1 /\ n < 0
    BY <1>1, <1>2, <1>3, <1>5
  <2> HIDE DEF n, e
  <2>2. Int32(n + (2 * Half) * (1 - k)) = n
    BY <2>1, Int32Of
  <2>3. Int32(t - Int32(l)) = n
    BY <2>1, <2>2
  <2> QED
    BY <2>1, <2>3
<1> QED
  BY <1>1, <1>2, <1>4, <1>5

\* A drained bucket is still backed, by one period less for each that it lost;
\* and one that would refuse is backed by nearly the whole burst.
LEMMA DrainBacks ==
    ASSUME NEW held, NEW last, NEW level, HistoryOK, time < 2 * Half,
           FieldsOK(held, last, level),
           NEW c \in Buckets \cup Statics, InUse(held, c), Backed(held, last, level, c)
    PROVE  /\ Drained(last, level, c) \in 0 .. Limit
           /\ \E k \in 0 .. time :
                /\ Since(last, level, c) = Int32(k)
                /\ debt[Owner(held, c)] + (time - k) >= Drained(last, level, c) * PeriodOf(c)
           /\ Limited(last, level, c) =>
                debt[Owner(held, c)] > (Limit - 1) * PeriodOf(c)
<1> DEFINE d == debt[Owner(held, c)]
           i == Interval(last, c)
           p == PeriodOf(c)
           D == Drained(last, level, c)
<1>1. /\ d \in Nat /\ level[c] \in 0 .. Limit /\ time \in Nat /\ Limit \in Nat \ {0}
      /\ p \in Nat \ {0} /\ Half \in Nat \ {0}
  BY OwnerPeriod, PeriodType, RateLimitAssumption DEF HistoryOK, FieldsOK
<1>2. PICK l \in 0 .. time : last[c] = Int32(l) /\ d + (time - l) >= level[c] * p
  BY DEF Backed
<1>3. CASE Idle(last, level, c)
  <2>1. D = 0 /\ Since(last, level, c) = Int32(time)
    BY <1>3 DEF Drained, Since
  <2>2. ~Limited(last, level, c)
    BY <2>1, <1>1 DEF Limited
  <2>3. time \in 0 .. time /\ d + (time - time) >= D * p
    <3> HIDE DEF d, p, D
    <3> QED
      BY <2>1, <1>1
  <2> QED
    BY <2>1, <2>2, <2>3, <1>1
<1>4. CASE ~Idle(last, level, c)
  <2> DEFINE e == i \div p
             r == i % p
             k == time - r
             b == level[c]
  <2>1. i = time - l /\ i \in Nat
    <3>1. Int32(time - Int32(l)) = time - l \/ Int32(time - Int32(l)) < 0
      BY <1>1, IntervalFrom
    <3>2. ~(i < 0)
      BY <1>4 DEF Idle
    <3> QED
      BY <3>1, <3>2, <1>1, <1>2 DEF Interval
  <2>2. i = p * e + r /\ r \in 0 .. p - 1 /\ e \in Nat /\ r <= i
    <3> HIDE DEF i, p
    <3>1. i = p * (i \div p) + (i % p) /\ i % p \in 0 .. p - 1 /\ i \div p \in Nat
      BY <2>1, <1>1
    <3>2. p * (i \div p) \in Nat
      BY <3>1, <1>1
    <3> QED
      BY <3>1, <3>2, <2>1, <1>1
  <2>3. e <= b /\ D = b - e /\ Since(last, level, c) = Int32(k)
    <3>1. ~(e > b)
      BY <1>4 DEF Idle
    <3>2. D = b - e /\ Since(last, level, c) = Int32(k)
      BY <1>4 DEF Drained, Since
    <3> HIDE DEF e, D, k
    <3> QED
      BY <3>1, <3>2, <2>2, <1>1
  <2>4. Limited(last, level, c) => D >= Limit
    BY DEF Limited
  <2>5. b \in 0 .. Limit /\ d + i >= b * p
    BY <1>1, <1>2, <2>1
  <2> HIDE DEF d, i, p, e, r, b, D
  <2>6. D * p = b * p - p * e /\ D \in 0 .. Limit
    BY <2>2, <2>3, <2>5, <1>1
  <2>7. d + r >= D * p
    BY <2>1, <2>2, <2>5, <2>6, <1>1
  <2>8. k \in 0 .. time /\ time - k = r
    BY <2>1, <2>2, <1>1
  <2>9. D >= Limit => d > (Limit - 1) * p
    <3>1. SUFFICES ASSUME D >= Limit PROVE d > (Limit - 1) * p
      OBVIOUS
    <3>2. D = Limit
      BY <3>1, <2>6, <1>1
    <3>3. (Limit - 1) * p = Limit * p - p /\ Limit * p \in Nat
      BY <1>1
    <3> QED
      BY <3>2, <3>3, <2>2, <2>7, <1>1
  <2>10. \E m \in 0 .. time : Since(last, level, c) = Int32(m) /\ d + (time - m) >= D * p
    BY <2>3, <2>7, <2>8
  <2>11. Limited(last, level, c) => d > (Limit - 1) * p
    BY <2>4, <2>9
  <2> QED
    BY <2>6, <2>10, <2>11 DEF d, p, D
<1> QED
  BY <1>3, <1>4

LEMMA ChargeBacks ==
    ASSUME NEW held, NEW last, NEW level, HistoryOK, FieldsOK(held, last, level),
           BackedInv, ~setBack => AllBacked(held, last, level),
           NEW b \in Buckets, InUse(held, b), NEW second \in Seconds,
           Charge(held, last, level, b, second)
    PROVE  BackedInv'
<1> DEFINE asked == IF Limited(last, level, b) THEN {b} ELSE {b} \cup second
<1>1. asked \subseteq Buckets \cup Statics /\ \A c \in asked : InUse(held, c)
  BY DEF Seconds, InUse
<1>2. /\ holder' = held
      /\ lastTime' = [c \in DOMAIN last |->
                        IF c \in asked THEN Since(last, level, c) ELSE last[c]]
      /\ burst' = [c \in DOMAIN level |->
                     IF c \notin asked THEN level[c]
                     ELSE IF Limited(last, level, c) THEN Drained(last, level, c)
                     ELSE Drained(last, level, c) + 1]
      /\ debt' = [h \in Holders |->
                    IF \E c \in asked : Owner(held, c) = h /\ ~Limited(last, level, c)
                    THEN debt[h] + PeriodOf(h) ELSE debt[h]]
      /\ time' = time /\ setBack' = setBack
  BY DEF Charge
<1>3. DOMAIN last = Buckets \cup Statics /\ DOMAIN level = Buckets \cup Statics
  BY DEF FieldsOK
<1> HIDE DEF asked
<1>4. time' < 2 * Half
  BY <1>2 DEF BackedInv
<1>5. ASSUME ~setBack, NEW c \in Buckets \cup Statics, InUse(held, c)
      PROVE  \E l \in 0 .. time :
                /\ lastTime'[c] = Int32(l)
                /\ debt'[Owner(held, c)] + (time - l) >= burst'[c] * PeriodOf(c)
  <2> DEFINE h == Owner(held, c)
             p == PeriodOf(c)
             D == Drained(last, level, c)
  <2>1. /\ h \in Holders /\ PeriodOf(h) = p /\ p \in Nat \ {0} /\ time \in Nat
        /\ debt[h] \in Nat /\ level[c] \in 0 .. Limit /\ Limit \in Nat
    BY <1>5, OwnerPeriod, PeriodType, RateLimitAssumption DEF HistoryOK, FieldsOK
  <2>2. debt'[h] = debt[h] \/ debt'[h] = debt[h] + p
    BY <2>1, <1>2
  <2>3. Backed(held, last, level, c)
    BY <1>5 DEF AllBacked
  <2>4. CASE c \notin asked
    <3>1. PICK l \in 0 .. time : last[c] = Int32(l) /\ debt[h] + (time - l) >= level[c] * p
      BY <2>3 DEF Backed
    <3>2. lastTime'[c] = last[c] /\ burst'[c] = level[c]
      BY <2>4, <1>2, <1>3
    <3>3. level[c] * p \in Nat
      BY <2>1
    <3> HIDE DEF h, p
    <3>4. debt'[h] + (time - l) >= level[c] * p
      BY <3>1, <3>3, <2>1, <2>2
    <3> QED
      BY <3>1, <3>2, <3>4 DEF h, p
  <2>5. CASE c \in asked
    <3>1. D \in 0 .. Limit
      BY <1>5, <2>3, DrainBacks DEF BackedInv
    <3>2. PICK l \in 0 .. time : /\ Since(last, level, c) = Int32(l)
                                 /\ debt[h] + (time - l) >= D * p
      BY <1>5, <2>3, DrainBacks DEF BackedInv
    <3>3. lastTime'[c] = Since(last, level, c)
      BY <2>5, <1>2, <1>3
    <3>4. CASE Limited(last, level, c)
      <4>1. burst'[c] = D
        BY <2>5, <3>4, <1>2, <1>3
      <4>2. D * p \in Nat
        BY <3>1, <2>1
      <4> HIDE DEF h, p, D
      <4>3. debt'[h] + (time - l) >= D * p
        BY <3>2, <4>2, <2>1, <2>2
      <4> QED
        BY <3>2, <3>3, <4>1, <4>3 DEF h, p
    <3>5. CASE ~Limited(last, level, c)
      <4>1. burst'[c] = D + 1
        BY <2>5, <3>5, <1>2, <1>3
      <4>2. debt'[h] = debt[h] + p
        BY <2>5, <3>5, <1>2, <2>1
      <4> HIDE DEF h, p, D
      <4>3. (D + 1) * p = D * p + p /\ D * p \in Nat
        BY <3>1, <2>1
      <4>4. debt'[h] + (time - l) >= (D + 1) * p
        BY <3>2, <4>2, <4>3, <2>1
      <4> QED
        BY <3>2, <3>3, <4>1, <4>4 DEF h, p
    <3> QED
      BY <3>4, <3>5
  <2> QED
    BY <2>4, <2>5
<1>6. ~setBack' => AllBacked(holder, lastTime, burst)'
  BY <1>2, <1>5 DEF AllBacked, Backed, InUse, Owner
<1> QED
  BY <1>4, <1>6 DEF BackedInv

\* A bucket that is allocated is empty, and stands for this moment.
LEMMA AllocationBacks ==
    ASSUME IInv, AllBacked(holder, lastTime, burst), NEW a \in Addresses, NEW b \in Buckets
    PROVE  AllBacked(Allocated(b, a), Restarted(b), Emptied(b))
<1> DEFINE held == Allocated(b, a)
           last == Restarted(b)
           level == Emptied(b)
<1>1. /\ held[b] = a /\ last[b] = Int32(time) /\ level[b] = 0
      /\ \A c \in Buckets \ {b} : held[c] = holder[c]
      /\ \A c \in (Buckets \cup Statics) \ {b} : last[c] = lastTime[c] /\ level[c] = burst[c]
  BY DEF Allocated, Restarted, Emptied, IInv, FieldsOK
<1>2. b \notin Statics /\ a \in Holders /\ PeriodOf(b) \in Nat
      /\ time \in Nat /\ debt[a] \in Nat
  BY RateLimitAssumption, PeriodType DEF Holders, IInv, HistoryOK
<1> HIDE DEF held, last, level
<1>3. Backed(held, last, level, b)
  <2>1. time \in 0 .. time /\ debt[Owner(held, b)] + (time - time) >= level[b] * PeriodOf(b)
    BY <1>1, <1>2 DEF Owner
  <2> QED
    BY <2>1, <1>1 DEF Backed
<1>4. ASSUME NEW c \in (Buckets \cup Statics) \ {b}, InUse(held, c)
      PROVE  Backed(held, last, level, c)
  <2>1. Owner(held, c) = Owner(holder, c) /\ InUse(holder, c)
    BY <1>1, <1>4 DEF Owner, InUse
  <2>2. Backed(holder, lastTime, burst, c)
    BY <2>1 DEF AllBacked
  <2> QED
    BY <2>1, <2>2, <1>1 DEF Backed
<1> QED
  BY <1>3, <1>4 DEF AllBacked, held, last, level

LEMMA AdvanceBacks ==
    ASSUME MaxTime < 2 * Half, IInv, BackedInv, Advance
    PROVE  BackedInv'
<1>1. /\ time' = time + 1 /\ time < MaxTime /\ setBack' = setBack
      /\ holder' = holder /\ lastTime' = lastTime /\ burst' = burst
      /\ debt' = [h \in Holders |-> Repaid(debt[h])]
  BY DEF Advance
<1>2. time \in Nat /\ MaxTime \in Nat /\ Half \in Nat
  BY RateLimitAssumption DEF IInv, HistoryOK
<1>3. time' < 2 * Half
  BY <1>1, <1>2
<1>4. ASSUME ~setBack, NEW c \in Buckets \cup Statics, InUse(holder, c)
      PROVE  \E l \in 0 .. time' :
                /\ lastTime'[c] = Int32(l)
                /\ debt'[Owner(holder, c)] + (time' - l) >= burst'[c] * PeriodOf(c)
  <2> DEFINE h == Owner(holder, c)
             m == burst[c] * PeriodOf(c)
  <2>1. h \in Holders /\ debt[h] \in Nat /\ m \in Nat
    <3>1. h \in Holders /\ burst[c] \in 0 .. Limit
      BY <1>4, OwnerPeriod DEF IInv, FieldsOK
    <3>2. PeriodOf(c) \in Nat \ {0} /\ Limit \in Nat
      BY PeriodType, RateLimitAssumption
    <3>3. debt[h] \in Nat
      BY <3>1 DEF IInv, HistoryOK
    <3> HIDE DEF h
    <3> QED
      BY <3>1, <3>2, <3>3
  <2>2. PICK l \in 0 .. time : lastTime[c] = Int32(l) /\ debt[h] + (time - l) >= m
    BY <1>4 DEF BackedInv, AllBacked, Backed
  <2>3. debt'[h] = IF debt[h] > 0 THEN debt[h] - 1 ELSE 0
    BY <2>1, <1>1 DEF Repaid
  <2> HIDE DEF h, m
  <2>4. l \in 0 .. time' /\ debt'[h] + (time' - l) >= m
    <3>1. debt'[h] >= debt[h] - 1 /\ debt'[h] \in Nat
      BY <2>1, <2>3
    <3>2. time' = time + 1
      BY <1>1
    <3> QED
      BY <3>1, <3>2, <2>1, <2>2, <1>2
  <2>5. lastTime' = lastTime /\ burst' = burst
    BY <1>1
  <2> QED
    BY <2>2, <2>4, <2>5 DEF h, m
<1>5. ~setBack' => AllBacked(holder, lastTime, burst)'
  <2>1. holder' = holder /\ setBack' = setBack
    BY <1>1
  <2> QED
    BY <2>1, <1>4 DEF AllBacked, Backed, InUse, Owner
<1> QED
  BY <1>3, <1>5 DEF BackedInv

LEMMA BackedInit == LimitInit => BackedInv
<1> SUFFICES ASSUME LimitInit PROVE BackedInv
  OBVIOUS
<1>1. /\ time \in 1 .. Period /\ Period \in Nat \ {0} /\ Half \in Nat \ {0} /\ Period < Half
      /\ Limit \in Nat \ {0}
  <2>1. PeriodOf(NA_BAD) = Period
    BY RateLimitAssumption DEF PeriodOf, Holders
  <2> QED
    BY <2>1, PeriodType, RateLimitAssumption DEF LimitInit
<1>2. time < 2 * Half
  BY <1>1
<1>3. ASSUME NEW c \in Buckets \cup Statics, InUse(holder, c)
      PROVE  Backed(holder, lastTime, burst, c)
  <2>1. c \in Statics /\ Owner(holder, c) \in Holders
    BY <1>3 DEF LimitInit, InUse, Owner, Holders
  <2>2. lastTime[c] = 0 /\ burst[c] = 0 /\ debt[Owner(holder, c)] = 0
    BY <2>1 DEF LimitInit
  <2>3. Int32(0) = 0
    <3>1. 0 \in -Half .. Half - 1 /\ 0 + (2 * Half) * 0 = 0
      BY <1>1
    <3> QED
      BY <3>1, Int32Of
  <2>4. 0 \in 0 .. time /\ 0 + (time - 0) >= 0 * PeriodOf(c)
    BY <1>1, PeriodType
  <2> QED
    BY <2>2, <2>3, <2>4 DEF Backed
<1> QED
  BY <1>2, <1>3 DEF BackedInv, AllBacked

LEMMA BackedStep ==
    ASSUME MaxTime < 2 * Half, IInv, BackedInv, [LimitNext]_limitvars
    PROVE  BackedInv'
<1>1. ASSUME UNCHANGED limitvars PROVE BackedInv'
  BY <1>1 DEF limitvars, BackedInv, AllBacked, Backed, InUse, Owner
<1>2. ASSUME NEW a \in Addresses, NEW second \in Seconds, ChargeFound(a, second)
      PROVE  BackedInv'
  <2>1. PICK b \in Buckets : holder[b] = a /\ Charge(holder, lastTime, burst, b, second)
    BY <1>2 DEF ChargeFound
  <2>2. InUse(holder, b)
    BY <2>1, RateLimitAssumption DEF InUse, Holders
  <2> QED
    BY <2>1, <2>2, ChargeBacks DEF IInv, BackedInv
<1>3. ASSUME NEW a \in Addresses, NEW second \in Seconds, ChargeAllocated(a, second)
      PROVE  BackedInv'
  <2>1. \A b \in Buckets : holder[b] # a
    BY <1>3 DEF ChargeAllocated
  <2>2. PICK b \in Buckets : /\ Available(b)
                             /\ Charge(Allocated(b, a), Restarted(b), Emptied(b), b, second)
    BY <1>3 DEF ChargeAllocated
  <2> DEFINE held == Allocated(b, a)
             last == Restarted(b)
             level == Emptied(b)
  <2>3. FieldsOK(held, last, level) /\ InUse(held, b)
    BY <2>1, <2>2, AllocationKeeps
  <2>4. ~setBack => AllBacked(held, last, level)
    BY AllocationBacks DEF BackedInv
  <2>5. Charge(held, last, level, b, second) /\ HistoryOK
    BY <2>2 DEF IInv
  <2> HIDE DEF held, last, level
  <2> QED
    BY <2>3, <2>4, <2>5, ChargeBacks
<1>4. ASSUME SetBack PROVE BackedInv'
  <2>1. time' = time - 1 /\ setBack'
    BY <1>4 DEF SetBack
  <2> QED
    BY <2>1, RateLimitAssumption DEF BackedInv, IInv, HistoryOK
<1> QED
  BY <1>1, <1>2, <1>3, <1>4, AdvanceBacks DEF LimitNext, Request, Refuse

LEMMA BackedGrants == IInv /\ BackedInv => NotOverLimited
<1> SUFFICES ASSUME IInv, BackedInv, ~setBack, NEW c \in Buckets \cup Statics,
                    InUse(holder, c), Limited(lastTime, burst, c)
             PROVE  debt[Owner(holder, c)] > (Limit - 1) * PeriodOf(c)
  BY DEF NotOverLimited, InUse
<1>1. Backed(holder, lastTime, burst, c)
  BY DEF BackedInv, AllBacked
<1> QED
  BY <1>1, DrainBacks DEF IInv, BackedInv

\* Who keeps to the rate is not refused by SVC_RateLimit, until the clock is set
\* back or has gone once all the way round: NotOverLimited for every burst,
\* period, width of the clock, and number of buckets and addresses.
THEOREM RateIsGranted ==
    ASSUME MaxTime < 2 * Half
    PROVE  LimitSpec => []NotOverLimited
<1>1. LimitInit => IInv /\ BackedInv
  BY InitEstablishes, BackedInit
<1>2. IInv /\ BackedInv /\ [LimitNext]_limitvars => IInv' /\ BackedInv'
  BY StepKeeps, BackedStep
<1>3. IInv /\ BackedInv => NotOverLimited
  BY BackedGrants
<1> QED
  BY <1>1, <1>2, <1>3, PTL DEF LimitSpec

-----------------------------------------------------------------------------
(* The hash chains of LeakyBucket.  The operators take the fields as        *)
(* parameters: a bucket leaves its chain before it joins another.           *)

InChain(held, hsh, h) == {b \in Buckets : held[b] # NA_BAD /\ hsh[b] = h}

LinkTypes(held, heads, hsh, nxt, prv) ==
    /\ held \in [Buckets -> Addresses \cup {NA_BAD}]
    /\ heads \in [Hashes -> Buckets \cup {NULL}]
    /\ hsh \in [Buckets -> Hashes \cup {AnyHash}]
    /\ nxt \in [Buckets -> Buckets \cup {NULL}]
    /\ prv \in [Buckets -> Buckets \cup {NULL}]

HeadsOK(held, heads, hsh, prv) ==
    \A h \in Hashes : heads[h] # NULL =>
        heads[h] \in InChain(held, hsh, h) /\ prv[heads[h]] = NULL

NeighboursOK(held, heads, hsh, nxt, prv) ==
    \A h \in Hashes : \A b \in InChain(held, hsh, h) :
        /\ nxt[b] # NULL => nxt[b] \in InChain(held, hsh, h) /\ prv[nxt[b]] = b
        /\ prv[b] # NULL => prv[b] \in InChain(held, hsh, h) /\ nxt[prv[b]] = b
        /\ prv[b] = NULL => heads[h] = b

\* No bucket in use is out of reach.
ClosedIn(heads, nxt, h, S) ==
    /\ heads[h] # NULL => heads[h] \in S
    /\ \A c \in S : nxt[c] # NULL => nxt[c] \in S

Reached(held, heads, hsh, nxt) ==
    \A h \in Hashes, S \in SUBSET Buckets :
        ClosedIn(heads, nxt, h, S) => InChain(held, hsh, h) \subseteq S

Linked(held, heads, hsh, nxt, prv) ==
    /\ LinkTypes(held, heads, hsh, nxt, prv)
    /\ HeadsOK(held, heads, hsh, prv)
    /\ NeighboursOK(held, heads, hsh, nxt, prv)
    /\ Reached(held, heads, hsh, nxt)

Placed(held, hsh) ==
    \A b \in Buckets : held[b] # NA_BAD => hsh[b] = SVC_HashForAddress(held[b])

ChainInv ==
    /\ Linked(holder, bucketHashes, hash, next, prev)
    /\ Placed(holder, hash)
    /\ OneEach(holder)

\* What is left of the chains when bucket b was reclaimed.
LEMMA BucketLeaves ==
    ASSUME Linked(holder, bucketHashes, hash, next, prev), NEW b \in Buckets,
           holder[b] # NA_BAD, hash[b] \in Hashes
    PROVE  Linked([holder EXCEPT ![b] = NA_BAD], HeadsWithout(b), hash,
                  NextWithout(b), PrevWithout(b))
<1> DEFINE held == [holder EXCEPT ![b] = NA_BAD]
           heads == HeadsWithout(b)
           nxt == NextWithout(b)
           prv == PrevWithout(b)
           h0 == hash[b]
           n == next[b]
           p == prev[b]
           C(h) == InChain(holder, hash, h)
<1>1. /\ LinkTypes(holder, bucketHashes, hash, next, prev)
      /\ NULL \notin Buckets /\ n \in Buckets \cup {NULL} /\ p \in Buckets \cup {NULL}
  BY LeakyBucketAssumption DEF Linked, LinkTypes
<1>2. LinkTypes(held, heads, hash, nxt, prv)
  BY <1>1 DEF LinkTypes, HeadsWithout, NextWithout, PrevWithout
<1>3. /\ \A h \in Hashes : heads[h] = IF p = NULL /\ h = h0 THEN n ELSE bucketHashes[h]
      /\ \A c \in Buckets : nxt[c] = IF p # NULL /\ c = p THEN n ELSE next[c]
      /\ \A c \in Buckets : prv[c] = IF n # NULL /\ c = n THEN p ELSE prev[c]
  BY <1>1 DEF LinkTypes, HeadsWithout, NextWithout, PrevWithout
<1>4. \A h \in Hashes : InChain(held, hash, h) = C(h) \ {b}
  BY <1>1 DEF InChain, LinkTypes
<1>5. /\ \A h \in Hashes : bucketHashes[h] # NULL =>
            bucketHashes[h] \in C(h) /\ prev[bucketHashes[h]] = NULL
      /\ \A h \in Hashes : \A c \in C(h) :
            /\ next[c] # NULL => next[c] \in C(h) /\ prev[next[c]] = c
            /\ prev[c] # NULL => prev[c] \in C(h) /\ next[prev[c]] = c
            /\ prev[c] = NULL => bucketHashes[h] = c
            /\ c \in Buckets /\ hash[c] = h
      /\ b \in C(h0)
  BY DEF Linked, HeadsOK, NeighboursOK, InChain
<1> HIDE DEF held, heads, nxt, prv, C
<1>6. HeadsOK(held, heads, hash, prv)
  <2> SUFFICES ASSUME NEW h \in Hashes, heads[h] # NULL
               PROVE  heads[h] \in C(h) \ {b} /\ prv[heads[h]] = NULL
    BY <1>4 DEF HeadsOK
  <2>1. CASE p = NULL /\ h = h0
    BY <1>1, <1>3, <1>5, <2>1
  <2>2. CASE ~(p = NULL /\ h = h0)
    <3>1. heads[h] = bucketHashes[h] /\ heads[h] \in C(h) /\ prev[heads[h]] = NULL
      BY <1>3, <1>5, <2>2
    <3>2. heads[h] # b
      BY <1>5, <2>2, <3>1
    <3>3. n = NULL \/ heads[h] # n
      BY <1>1, <1>5, <3>1
    <3> QED
      BY <1>3, <1>5, <3>1, <3>2, <3>3
  <2> QED
    BY <2>1, <2>2
<1>7. NeighboursOK(held, heads, hash, nxt, prv)
  <2> SUFFICES ASSUME NEW h \in Hashes, NEW c \in C(h), c # b
               PROVE  /\ nxt[c] # NULL => nxt[c] \in C(h) \ {b} /\ prv[nxt[c]] = c
                      /\ prv[c] # NULL => prv[c] \in C(h) \ {b} /\ nxt[prv[c]] = c
                      /\ prv[c] = NULL => heads[h] = c
    BY <1>4 DEF NeighboursOK
  <2>1. c \in Buckets /\ hash[c] = h
    BY <1>5
  <2>2. ASSUME nxt[c] # NULL PROVE nxt[c] \in C(h) \ {b} /\ prv[nxt[c]] = c
    <3>1. CASE c = p
      BY <1>1, <1>3, <1>5, <2>1, <2>2, <3>1
    <3>2. CASE c # p
      BY <1>1, <1>3, <1>5, <2>1, <2>2, <3>2
    <3> QED
      BY <3>1, <3>2
  <2>3. ASSUME prv[c] # NULL PROVE prv[c] \in C(h) \ {b} /\ nxt[prv[c]] = c
    <3>1. CASE c = n
      BY <1>1, <1>3, <1>5, <2>1, <2>3, <3>1
    <3>2. CASE c # n
      BY <1>1, <1>3, <1>5, <2>1, <2>3, <3>2
    <3> QED
      BY <3>1, <3>2
  <2>4. ASSUME prv[c] = NULL PROVE heads[h] = c
    BY <1>1, <1>3, <1>5, <2>1, <2>4
  <2> QED
    BY <2>2, <2>3, <2>4
<1>8. Reached(held, heads, hash, nxt)
  <2> SUFFICES ASSUME NEW h \in Hashes, NEW S \in SUBSET Buckets,
                      ClosedIn(heads, nxt, h, S), NEW x \in C(h), x # b
               PROVE  x \in S
    BY <1>4 DEF Reached
  <2>1. \A T \in SUBSET Buckets : ClosedIn(bucketHashes, next, h, T) => x \in T
    BY DEF Linked, Reached, C
  <2>2. C(h) \subseteq Buckets
    BY DEF C, InChain
  <2>3. /\ heads[h] # NULL => heads[h] \in S
        /\ \A c \in S : nxt[c] # NULL => nxt[c] \in S
    BY DEF ClosedIn
  <2>4. CASE h = h0 /\ (p = NULL \/ p \in S)
    <3> DEFINE T == (S \cap C(h)) \cup {b}
    <3>1. bucketHashes[h] # NULL => bucketHashes[h] \in T
      BY <1>3, <1>5, <2>3, <2>4
    <3>2. ASSUME NEW c \in T, next[c] # NULL PROVE next[c] \in T
      <4>1. CASE c = b
        BY <1>1, <1>3, <1>5, <2>3, <2>4, <3>2, <4>1
      <4>2. CASE c # b
        BY <1>1, <1>3, <1>5, <2>3, <2>4, <3>2, <4>2
      <4> QED
        BY <4>1, <4>2
    <3>3. T \in SUBSET Buckets
      BY <2>2
    <3> HIDE DEF T
    <3>4. ClosedIn(bucketHashes, next, h, T)
      BY <3>1, <3>2 DEF ClosedIn
    <3>5. x \in T
      BY <2>1, <3>3, <3>4
    <3> QED
      BY <3>5 DEF T
  <2>5. CASE ~(h = h0 /\ (p = NULL \/ p \in S))
    <3> DEFINE T == (S \cap C(h)) \ {b}
    <3>1. bucketHashes[h] # NULL => bucketHashes[h] \in T
      BY <1>3, <1>5, <2>3, <2>5
    <3>2. ASSUME NEW c \in T, next[c] # NULL PROVE next[c] \in T
      BY <1>1, <1>3, <1>5, <2>3, <2>5, <3>2
    <3>3. T \in SUBSET Buckets
      BY <2>2
    <3> HIDE DEF T
    <3>4. ClosedIn(bucketHashes, next, h, T)
      BY <3>1, <3>2 DEF ClosedIn
    <3>5. x \in T
      BY <2>1, <3>3, <3>4
    <3> QED
      BY <3>5 DEF T
  <2> QED
    BY <2>4, <2>5
<1> QED
  BY <1>2, <1>6, <1>7, <1>8 DEF Linked, held, heads, nxt, prv

\* A bucket that is free joins the chain of hash h.
LEMMA BucketJoins ==
    ASSUME NEW held, NEW heads, NEW hsh, NEW nxt, NEW prv,
           Linked(held, heads, hsh, nxt, prv),
           NEW b \in Buckets, held[b] = NA_BAD, NEW a \in Addresses, NEW h \in Hashes,
           NEW prv2, prv2 = [c \in Buckets |-> IF c = b THEN NULL
                                               ELSE IF c = heads[h] THEN b
                                               ELSE prv[c]]
    PROVE  Linked([held EXCEPT ![b] = a], [heads EXCEPT ![h] = b], [hsh EXCEPT ![b] = h],
                  [nxt EXCEPT ![b] = heads[h]], prv2)
<1> DEFINE held2 == [held EXCEPT ![b] = a]
           heads2 == [heads EXCEPT ![h] = b]
           hsh2 == [hsh EXCEPT ![b] = h]
           nxt2 == [nxt EXCEPT ![b] = heads[h]]
           first == heads[h]
           C(k) == InChain(held, hsh, k)
<1>1. /\ LinkTypes(held, heads, hsh, nxt, prv)
      /\ NULL \notin Buckets /\ first \in Buckets \cup {NULL} /\ a # NA_BAD
  BY LeakyBucketAssumption, RateLimitAssumption DEF Linked, LinkTypes, Holders
<1>2. LinkTypes(held2, heads2, hsh2, nxt2, prv2)
  BY <1>1 DEF LinkTypes
<1>3. /\ \A k \in Hashes : heads2[k] = IF k = h THEN b ELSE heads[k]
      /\ \A c \in Buckets : nxt2[c] = IF c = b THEN first ELSE nxt[c]
      /\ \A c \in Buckets : prv2[c] = IF c = b THEN NULL ELSE IF c = first THEN b ELSE prv[c]
  BY <1>1 DEF LinkTypes
<1>4. /\ \A k \in Hashes : InChain(held2, hsh2, k) = IF k = h THEN C(k) \cup {b} ELSE C(k)
      /\ \A k \in Hashes : b \notin C(k) /\ C(k) \subseteq Buckets
  BY <1>1 DEF InChain, LinkTypes
<1>5. /\ \A k \in Hashes : heads[k] # NULL => heads[k] \in C(k) /\ prv[heads[k]] = NULL
      /\ \A k \in Hashes : \A c \in C(k) :
            /\ nxt[c] # NULL => nxt[c] \in C(k) /\ prv[nxt[c]] = c
            /\ prv[c] # NULL => prv[c] \in C(k) /\ nxt[prv[c]] = c
            /\ prv[c] = NULL => heads[k] = c
            /\ c \in Buckets /\ hsh[c] = k /\ c # b
  BY <1>4 DEF Linked, HeadsOK, NeighboursOK, InChain
<1> HIDE DEF held2, heads2, hsh2, nxt2, C, first
<1>6. HeadsOK(held2, heads2, hsh2, prv2)
  <2> SUFFICES ASSUME NEW k \in Hashes, heads2[k] # NULL
               PROVE  heads2[k] \in InChain(held2, hsh2, k) /\ prv2[heads2[k]] = NULL
    BY DEF HeadsOK
  <2>1. CASE k = h
    BY <1>3, <1>4, <2>1
  <2>2. CASE k # h
    <3>1. heads2[k] = heads[k] /\ heads[k] \in C(k) /\ prv[heads[k]] = NULL
      BY <1>3, <1>5, <2>2
    <3>2. heads[k] # first
      BY <1>5, <2>2, <3>1 DEF first
    <3> QED
      BY <1>3, <1>4, <1>5, <2>2, <3>1, <3>2
  <2> QED
    BY <2>1, <2>2
<1>7. NeighboursOK(held2, heads2, hsh2, nxt2, prv2)
  <2> SUFFICES ASSUME NEW k \in Hashes, NEW c \in InChain(held2, hsh2, k)
               PROVE  /\ nxt2[c] # NULL => /\ nxt2[c] \in InChain(held2, hsh2, k)
                                           /\ prv2[nxt2[c]] = c
                      /\ prv2[c] # NULL => /\ prv2[c] \in InChain(held2, hsh2, k)
                                           /\ nxt2[prv2[c]] = c
                      /\ prv2[c] = NULL => heads2[k] = c
    BY DEF NeighboursOK
  <2>1. CASE c = b
    <3>1. k = h
      BY <1>4, <2>1
    <3>2. first # NULL => first \in C(k) /\ first # b
      BY <1>5, <3>1 DEF first
    <3> QED
      BY <1>3, <1>4, <2>1, <3>1, <3>2
  <2>2. CASE c # b
    <3>1. c \in C(k) /\ c \in Buckets
      BY <1>4, <2>2
    <3>2. ASSUME nxt2[c] # NULL
          PROVE  nxt2[c] \in InChain(held2, hsh2, k) /\ prv2[nxt2[c]] = c
      <4>1. nxt2[c] = nxt[c] /\ nxt[c] \in C(k) /\ prv[nxt[c]] = c
        BY <1>3, <1>5, <2>2, <3>1, <3>2
      <4>2. nxt[c] # first
        BY <1>1, <1>5, <3>1, <4>1 DEF first
      <4> QED
        BY <1>3, <1>4, <1>5, <4>1, <4>2
    <3>3. ASSUME prv2[c] # NULL
          PROVE  prv2[c] \in InChain(held2, hsh2, k) /\ nxt2[prv2[c]] = c
      <4>1. CASE c = first
        <5>1. k = h /\ prv2[c] = b
          BY <1>1, <1>3, <1>5, <2>2, <3>1, <4>1 DEF first
        <5> QED
          BY <1>3, <1>4, <4>1, <5>1
      <4>2. CASE c # first
        <5>1. prv2[c] = prv[c] /\ prv[c] \in C(k) /\ nxt[prv[c]] = c
          BY <1>3, <1>5, <2>2, <3>1, <3>3, <4>2
        <5> QED
          BY <1>3, <1>4, <1>5, <5>1
      <4> QED
        BY <4>1, <4>2
    <3>4. ASSUME prv2[c] = NULL PROVE heads2[k] = c
      <4>1. c # first /\ prv[c] = NULL
        BY <1>1, <1>3, <2>2, <3>1, <3>4
      <4>2. heads[k] = c /\ k # h
        BY <1>5, <3>1, <4>1 DEF first
      <4> QED
        BY <1>3, <4>2
    <3> QED
      BY <3>2, <3>3, <3>4
  <2> QED
    BY <2>1, <2>2
<1>8. Reached(held2, heads2, hsh2, nxt2)
  <2> SUFFICES ASSUME NEW k \in Hashes, NEW S \in SUBSET Buckets,
                      ClosedIn(heads2, nxt2, k, S)
               PROVE  InChain(held2, hsh2, k) \subseteq S
    BY DEF Reached
  <2>1. /\ heads2[k] # NULL => heads2[k] \in S
        /\ \A c \in S : nxt2[c] # NULL => nxt2[c] \in S
    BY DEF ClosedIn
  <2> DEFINE T == S \cap C(k)
  <2>2. heads[k] # NULL => heads[k] \in T
    <3>1. CASE k = h
      <4>1. b \in S /\ (first # NULL => first \in S)
        BY <1>1, <1>3, <2>1, <3>1
      <4> QED
        BY <1>5, <3>1, <4>1 DEF first
    <3>2. CASE k # h
      BY <1>3, <1>5, <2>1, <3>2
    <3> QED
      BY <3>1, <3>2
  <2>3. \A c \in T : nxt[c] # NULL => nxt[c] \in T
    BY <1>3, <1>5, <2>1
  <2>4. T \in SUBSET Buckets
    OBVIOUS
  <2> HIDE DEF T
  <2>5. C(k) \subseteq T
    BY <2>2, <2>3, <2>4 DEF Linked, Reached, ClosedIn, C
  <2>6. k = h => b \in S
    BY <1>1, <1>3, <2>1
  <2> QED
    BY <1>4, <2>5, <2>6 DEF T
<1> QED
  BY <1>2, <1>6, <1>7, <1>8 DEF Linked, held2, heads2, hsh2, nxt2, first

\* A search of a chain visits its buckets in use, and no others.
LEMMA ChainIsExact ==
    ASSUME Linked(holder, bucketHashes, hash, next, prev), NEW h \in Hashes
    PROVE  Chain(h) = InChain(holder, hash, h)
<1> DEFINE C == InChain(holder, hash, h)
<1>1. C \in SUBSET Buckets
  BY DEF InChain
<1>2. Closed(h, C)
  <2>1. bucketHashes[h] # NULL => bucketHashes[h] \in C
    BY DEF Linked, HeadsOK
  <2>2. \A b \in C : next[b] # NULL => next[b] \in C
    BY DEF Linked, NeighboursOK
  <2> HIDE DEF C
  <2> QED
    BY <2>1, <2>2 DEF Closed
<1>3. Chain(h) \subseteq C
  BY <1>1, <1>2 DEF Chain
<1>4. ASSUME NEW S \in SUBSET Buckets, Closed(h, S)
      PROVE  C \subseteq S
  BY <1>4 DEF Linked, Reached, Closed, ClosedIn
<1>5. C \subseteq Chain(h)
  <2> HIDE DEF C
  <2> QED
    BY <1>1, <1>4 DEF Chain
<1> QED
  BY <1>3, <1>5

\* A search misses no bucket.
LEMMA FoundIsExact ==
    ASSUME ChainInv, NEW a \in Addresses
    PROVE  Found(a) = {b \in Buckets : holder[b] = a}
<1> DEFINE h == SVC_HashForAddress(a)
<1>1. h \in Hashes /\ a # NA_BAD
  BY LeakyBucketAssumption, RateLimitAssumption DEF Holders
<1>2. Chain(h) = InChain(holder, hash, h)
  BY <1>1, ChainIsExact DEF ChainInv
<1>3. \A b \in Buckets : holder[b] = a => b \in InChain(holder, hash, h)
  BY <1>1 DEF ChainInv, Placed, InChain
<1>4. InChain(holder, hash, h) \subseteq Buckets
  BY DEF InChain
<1> HIDE DEF h
<1> QED
  BY <1>2, <1>3, <1>4 DEF Found, h

LEMMA RelinkKeeps ==
    ASSUME ChainInv, NEW a \in Addresses, \A c \in Buckets : holder[c] # a,
           NEW b \in Buckets, Relink(b, a), holder' = Allocated(b, a)
    PROVE  ChainInv'
<1> DEFINE h == SVC_HashForAddress(a)
           held == [holder EXCEPT ![b] = NA_BAD]
           heads == HeadsWithout(b)
           nxt == NextWithout(b)
           prv == PrevWithout(b)
<1>1. /\ h \in Hashes /\ a # NA_BAD
      /\ holder \in [Buckets -> Addresses \cup {NA_BAD}]
      /\ hash \in [Buckets -> Hashes \cup {AnyHash}]
  BY LeakyBucketAssumption, RateLimitAssumption
     DEF Holders, ChainInv, Linked, LinkTypes
<1>2. Linked(held, heads, hash, nxt, prv) /\ held[b] = NA_BAD
  <2>1. CASE holder[b] = NA_BAD
    <3>1. held = holder /\ heads = bucketHashes /\ nxt = next /\ prv = prev
      BY <1>1, <2>1 DEF HeadsWithout, NextWithout, PrevWithout
    <3> QED
      BY <2>1, <3>1 DEF ChainInv
  <2>2. CASE holder[b] # NA_BAD
    <3>1. holder[b] \in Addresses
      BY <1>1, <2>2
    <3>2. hash[b] \in Hashes
      BY <2>2, <3>1, LeakyBucketAssumption DEF ChainInv, Placed
    <3>3. Linked(held, heads, hash, nxt, prv)
      BY <2>2, <3>2, BucketLeaves DEF ChainInv
    <3> QED
      BY <1>1, <3>3
  <2> QED
    BY <2>1, <2>2
<1>3. /\ bucketHashes' = [heads EXCEPT ![h] = b]
      /\ hash' = [hash EXCEPT ![b] = h]
      /\ next' = [nxt EXCEPT ![b] = heads[h]]
      /\ prev' = [c \in Buckets |-> IF c = b THEN NULL
                                    ELSE IF c = heads[h] THEN b
                                    ELSE prv[c]]
  BY DEF Relink
<1>4. holder' = [held EXCEPT ![b] = a]
  BY <1>1 DEF Allocated
<1>5. Placed(holder', hash') /\ OneEach(holder')
  BY <1>1, <1>3 DEF ChainInv, Placed, OneEach, Allocated
<1> HIDE DEF h, held, heads, nxt, prv
<1>6. Linked(holder', bucketHashes', hash', next', prev')
  <2> DEFINE joined == [c \in Buckets |-> IF c = b THEN NULL
                                         ELSE IF c = heads[h] THEN b
                                         ELSE prv[c]]
  <2>1. Linked([held EXCEPT ![b] = a], [heads EXCEPT ![h] = b], [hash EXCEPT ![b] = h],
               [nxt EXCEPT ![b] = heads[h]], joined)
    BY ONLY <1>1, <1>2, a \in Addresses, b \in Buckets, BucketJoins
  <2> QED
    BY ONLY <1>3, <1>4, <2>1
<1>7. Linked(holder, bucketHashes, hash, next, prev)'
  BY <1>6 DEF Linked, LinkTypes, HeadsOK, NeighboursOK, Reached, InChain, ClosedIn
<1>8. Placed(holder, hash)' /\ OneEach(holder)'
  BY <1>5 DEF Placed, OneEach
<1> QED
  BY <1>7, <1>8 DEF ChainInv

LEMMA SameChains ==
    ASSUME ChainInv, holder' = holder, UNCHANGED chainvars
    PROVE  ChainInv'
<1>1. bucketHashes' = bucketHashes /\ hash' = hash /\ next' = next /\ prev' = prev
  BY DEF chainvars
<1> QED
  BY <1>1 DEF ChainInv, Placed, OneEach, Linked, LinkTypes, HeadsOK, NeighboursOK,
              Reached, InChain, ClosedIn

LEMMA ChainInit == Init => ChainInv
<1> SUFFICES ASSUME Init PROVE ChainInv
  OBVIOUS
<1> USE DEF Init, LimitInit
<1>1. NULL \notin Buckets
  BY LeakyBucketAssumption
<1>2. LinkTypes(holder, bucketHashes, hash, next, prev)
  BY DEF LinkTypes
<1>3. \A h : InChain(holder, hash, h) = {}
  BY DEF InChain
<1>4. /\ HeadsOK(holder, bucketHashes, hash, prev)
      /\ NeighboursOK(holder, bucketHashes, hash, next, prev)
      /\ Reached(holder, bucketHashes, hash, next)
  BY <1>3 DEF HeadsOK, NeighboursOK, Reached
<1>5. Placed(holder, hash) /\ OneEach(holder)
  BY DEF Placed, OneEach
<1> QED
  BY <1>2, <1>4, <1>5 DEF ChainInv, Linked

LEMMA ChainStep == ChainInv /\ [Next]_vars => ChainInv' /\ [LimitNext]_limitvars
<1> SUFFICES ASSUME ChainInv, [Next]_vars PROVE ChainInv' /\ [LimitNext]_limitvars
  OBVIOUS
<1>1. ASSUME NEW a \in Addresses, NEW second \in Seconds, UseBucket(a, second)
      PROVE  ChainInv' /\ [LimitNext]_limitvars
  <2>1. PICK b \in Found(a) : Charge(holder, lastTime, burst, b, second)
    BY <1>1 DEF UseBucket
  <2>2. b \in Buckets /\ holder[b] = a
    BY FoundIsExact
  <2>3. ChargeFound(a, second)
    BY <2>1, <2>2 DEF ChargeFound
  <2>4. holder' = holder /\ UNCHANGED chainvars
    BY <1>1, <2>1 DEF UseBucket, Charge
  <2> QED
    BY <2>3, <2>4, SameChains DEF LimitNext, Request
<1>2. ASSUME NEW a \in Addresses, NEW second \in Seconds, AllocateBucket(a, second)
      PROVE  ChainInv' /\ [LimitNext]_limitvars
  <2>1. PICK b \in Buckets :
           /\ FirstAvailable(b)
           /\ Relink(b, a)
           /\ Charge(Allocated(b, a), Restarted(b), Emptied(b), b, second)
    BY <1>2 DEF AllocateBucket
  <2>2. \A c \in Buckets : holder[c] # a
    BY <1>2, FoundIsExact DEF AllocateBucket
  <2>3. ChargeAllocated(a, second)
    BY <2>1, <2>2 DEF ChargeAllocated, FirstAvailable
  <2>4. holder' = Allocated(b, a)
    BY <2>1 DEF Charge
  <2> QED
    BY <2>1, <2>2, <2>3, <2>4, RelinkKeeps DEF LimitNext, Request
<1>3. ASSUME NEW a \in Addresses, NEW second \in Seconds, NoBucket(a)
      PROVE  ChainInv' /\ [LimitNext]_limitvars
  <2>1. \A c \in Buckets : holder[c] # a
    BY <1>3, FoundIsExact DEF NoBucket
  <2>2. Refuse(a)
    BY <1>3, <2>1 DEF NoBucket, Refuse, vars
  <2>3. holder' = holder /\ UNCHANGED chainvars
    BY <1>3 DEF NoBucket, vars, limitvars
  <2> QED
    BY <2>2, <2>3, SameChains DEF LimitNext, Request
<1>4. CASE Advance /\ UNCHANGED chainvars
  BY <1>4, SameChains DEF LimitNext, Advance
<1>5. CASE SetBack /\ UNCHANGED chainvars
  BY <1>5, SameChains DEF LimitNext, SetBack
<1>6. CASE UNCHANGED vars
  <2>1. holder' = holder /\ UNCHANGED chainvars /\ UNCHANGED limitvars
    BY <1>6 DEF vars, limitvars
  <2> QED
    BY <2>1, SameChains
<1> QED
  BY <1>1, <1>2, <1>3, <1>4, <1>5, <1>6 DEF Next, SVC_RateLimitAddress

(***************************************************************************)
(* SVC_BucketForAddress finds its way: whatever buckets were reclaimed     *)
(* from whichever chain, each chain holds the buckets in use with its      *)
(* hash, linked both ways, and no two of them for one address.             *)
(***************************************************************************)
THEOREM ChainsAreExact == Spec => []ChainsExact
<1>1. ChainInv => ChainsExact
  <2> SUFFICES ASSUME ChainInv PROVE ChainsExact
    OBVIOUS
  <2>1. \A h \in Hashes :
          /\ Chain(h) = {b \in Buckets : holder[b] # NA_BAD /\ hash[b] = h}
          /\ bucketHashes[h] # NULL => prev[bucketHashes[h]] = NULL
    BY ChainIsExact DEF ChainInv, Linked, HeadsOK, InChain
  <2>2. \A b \in Buckets : holder[b] # NA_BAD =>
          /\ hash[b] = SVC_HashForAddress(holder[b]) /\ hash[b] \in Hashes
          /\ \A c \in Buckets \ {b} : holder[c] # holder[b]
    BY LeakyBucketAssumption DEF ChainInv, Placed, OneEach, Linked, LinkTypes
  <2>3. \A b \in Buckets : holder[b] # NA_BAD /\ next[b] # NULL => prev[next[b]] = b
    BY <2>2 DEF ChainInv, Linked, NeighboursOK, InChain
  <2> QED
    BY <2>1, <2>2, <2>3 DEF ChainsExact
<1> QED
  BY <1>1, ChainInit, ChainStep, PTL DEF Spec

(***************************************************************************)
(* The code's buckets in hash chains do what RateLimit says of buckets     *)
(* found by their address: a request is charged to the bucket of its       *)
(* address, gets one that is free or has expired, or is refused.           *)
(***************************************************************************)
THEOREM ChainsImplementLimit == Spec => LimitSpec
<1>1. Init => LimitInit
  BY DEF Init
<1> QED
  BY <1>1, ChainInit, ChainStep, PTL DEF Spec, LimitSpec

(***************************************************************************)
(* Hence what was proved of the limit holds of the buckets that            *)
(* SVC_BucketForAddress finds by their chains: the bound on what passes.   *)
(***************************************************************************)
COROLLARY ChainsBoundRate == Spec => []RateBound
BY ChainsImplementLimit, RateIsBounded, PTL

(***************************************************************************)
(* And who keeps to the rate is not refused by SVC_RateLimit for a bucket  *)
(* that belongs to somebody else, or that the search missed.               *)
(***************************************************************************)
COROLLARY ChainsGrantRate ==
    ASSUME MaxTime < 2 * Half
    PROVE  Spec => []NotOverLimited
BY ChainsImplementLimit, RateIsGranted, PTL
=============================================================================
