------------------------- MODULE RateLimiterProofs -------------------------
(***************************************************************************)
(* Proofs about RateLimiter for any finite set of callers and every        *)
(* configuration that normalizeOptions accepts: both strategies, rejecting *)
(* and waiting, with timers and continuations as late as they like.        *)
(***************************************************************************)
EXTENDS RateLimiter, SequenceTheorems, FiniteSetTheorems, TLAPS

-----------------------------------------------------------------------------
(* Arithmetic *)

\* Rounding up: the least multiple of b that reaches a.
LEMMA CeilDivReaches ==
    ASSUME NEW a \in Nat, NEW b \in Nat \ {0}
    PROVE  CeilDiv(a, b) \in Nat /\ CeilDiv(a, b) * b >= a
<1>1. PICK m : m = a + b - 1
  OBVIOUS
<1>2. m \in Nat /\ m >= a
  BY <1>1
<1>3. PICK q : q = m \div b
  OBVIOUS
<1>4. q \in Nat /\ q * b <= m /\ m < q * b + b
  BY <1>2, <1>3
<1>5. q * b \in Nat
  BY <1>4
<1>6. q * b >= a
  BY <1>1, <1>4, <1>5
<1>. QED  BY <1>1, <1>3, <1>4, <1>6 DEF CeilDiv

\* Products of naturals, one factor growing by one.
LEMMA Products ==
    ASSUME NEW x \in Nat, NEW y \in Nat
    PROVE  x * y \in Nat /\ (x + 1) * y = x * y + y
OBVIOUS

\* What membership in a set of sequences means.
LEMMA SeqElements ==
    ASSUME NEW S, NEW s \in Seq(S)
    PROVE  /\ Len(s) \in Nat
           /\ DOMAIN s = 1..Len(s)
           /\ \A i \in 1..Len(s) : s[i] \in S
OBVIOUS

\* What a configuration in use satisfies.
LEMMA OptionType ==
    ASSUME opt \in Options
    PROVE  /\ opt.strategy \in {"token-bucket", "sliding-window"}
           /\ opt.limit \in Nat \ {0}
           /\ opt.interval \in Nat \ {0}
           /\ opt.burst \in Nat \ {0}
           /\ opt.onLimit \in {"reject", "wait"}
           /\ opt.maxWait \in Nat
BY LimiterAssumption DEF OptionOK

\* The bucket holds at least one permit, and FillTime more than fills it.
LEMMA CapacityType ==
    ASSUME opt \in Options
    PROVE  /\ Capacity \in Nat
           /\ Capacity >= opt.interval
           /\ FillTime \in Nat \ {0}
           /\ FillTime * opt.limit >= Capacity
<1>1. /\ opt.limit \in Nat \ {0}
      /\ opt.interval \in Nat \ {0}
      /\ opt.burst \in Nat \ {0}
  BY OptionType
<1>2. PICK b \in Nat : opt.burst = b + 1
  <2>1. opt.burst - 1 \in Nat /\ opt.burst = (opt.burst - 1) + 1
    BY <1>1
  <2>. QED  BY <2>1
<1>3. /\ b * opt.interval \in Nat
      /\ (b + 1) * opt.interval = b * opt.interval + opt.interval
  BY <1>1, Products
<1>4. Capacity \in Nat /\ Capacity >= opt.interval
  BY <1>1, <1>2, <1>3 DEF Capacity
<1>5. PICK q : q = Capacity \div opt.limit
  OBVIOUS
<1>6. q \in Nat /\ Capacity < q * opt.limit + opt.limit
  <2>1. PICK n : n = Capacity
    OBVIOUS
  <2>. QED  BY <1>1, <1>4, <1>5, <2>1
<1>7. q * opt.limit \in Nat /\ (q + 1) * opt.limit = q * opt.limit + opt.limit
  BY <1>1, <1>6, Products
<1>8. FillTime = q + 1
  BY <1>5 DEF FillTime
<1>. QED  BY <1>1, <1>4, <1>6, <1>7, <1>8
-----------------------------------------------------------------------------
(* What the state of a bucket or window says about past admissions *)

Window == 0..(opt.interval - 1)

\* Token bucket: what was admitted in a window and what is left together fit
\* the burst and the refill of that window.
TokensAccounted ==
    \A w \in Window : admitted[w] * opt.interval + Refilled <= Capacity + w * opt.limit

\* Sliding window: the youngest stamps, as many as were admitted, are those
\* of a window; the others are older.
StampsAccounted ==
    /\ \A w \in Window :
        /\ admitted[w] <= Len(stamps)
        /\ admitted[w] <= opt.limit
        /\ \A i \in 1..Len(stamps) : stamps[i] <= w <=> i > Len(stamps) - admitted[w]

Accounted == IF ByTokens THEN TokensAccounted ELSE StampsAccounted

\* The bucket never holds more than its burst.
LEMMA RefilledType ==
    ASSUME TypeOK
    PROVE  /\ idle * opt.limit \in Nat
           /\ tokens + idle * opt.limit \in Nat
           /\ Refilled \in 0..Capacity
           /\ Refilled = tokens + idle * opt.limit \/ Refilled = Capacity
<1>1. /\ opt.limit \in Nat
      /\ tokens \in Nat /\ idle \in Nat
      /\ Capacity \in Nat
  BY OptionType, CapacityType DEF TypeOK
<1>2. idle * opt.limit \in Nat
  BY <1>1, Products
<1>. QED  BY <1>1, <1>2 DEF Refilled, AtMost

\* Rounding says yes or no; a bucket filled beyond its burst is not rounded.
LEMMA RoundedType ==
    ASSUME TypeOK, NEW below \in Rounded
    PROVE  /\ below \in BOOLEAN
           /\ ByTokens /\ idle # 0 /\ tokens + idle * opt.limit > Capacity => ~below
BY DEF Rounded, TypeOK

\* A sliding window drops what is older than the interval and keeps exactly
\* the admissions of the last one.
LEMMA LiveStamps ==
    ASSUME TypeOK, ~ByTokens, StampsAccounted
    PROVE  /\ Expired \in 0..Len(stamps)
           /\ Len(Live) = admitted[opt.interval - 1]
           /\ Len(Live) = Len(stamps) - Expired
           /\ Live \in Seq(0..opt.interval)
           /\ \A i \in 1..Len(Live) : Live[i] = stamps[i + Expired] /\ Live[i] < opt.interval
<1>. DEFINE recent == admitted[opt.interval - 1]
            P(n) == /\ \A i \in 1..n : stamps[i] >= opt.interval
                    /\ n < Len(stamps) => stamps[n + 1] < opt.interval
            old == Len(stamps) - recent
<1>1. /\ opt.interval \in Nat \ {0}
      /\ opt.interval - 1 \in Window
      /\ stamps \in Seq(0..opt.interval)
      /\ Len(stamps) \in Nat
      /\ admitted \in [Window -> Nat]
  BY OptionType DEF TypeOK, Window
<1>2. /\ recent \in Nat
      /\ recent <= Len(stamps)
      /\ \A i \in 1..Len(stamps) : stamps[i] <= opt.interval - 1 <=> i > Len(stamps) - recent
  BY <1>1 DEF StampsAccounted
<1>3. \A i \in 1..Len(stamps) : stamps[i] \in Nat
  BY <1>1
<1>4. \A i \in 1..Len(stamps) : stamps[i] < opt.interval <=> i > old
  BY <1>1, <1>2, <1>3
<1>5. old \in 0..Len(stamps) /\ P(old)
  <2>1. PICK n : n = old
    OBVIOUS
  <2>2. n \in 0..Len(stamps)
    BY <1>1, <1>2, <2>1
  <2>3. ASSUME NEW i \in 1..n PROVE stamps[i] >= opt.interval
    <3>1. i \in 1..Len(stamps) /\ ~(i > old)
      BY <1>1, <2>1, <2>2
    <3>. QED  BY <1>1, <1>3, <1>4, <3>1
  <2>4. ASSUME n < Len(stamps) PROVE stamps[n + 1] < opt.interval
    <3>1. n + 1 \in 1..Len(stamps) /\ n + 1 > old
      BY <1>1, <2>1, <2>2, <2>4
    <3>. QED  BY <1>4, <3>1
  <2>. QED  BY <2>1, <2>2, <2>3, <2>4
<1>6. \E n \in 0..Len(stamps) : P(n)
  <2>. HIDE DEF P, old
  <2>. QED  BY <1>5
<1>7. Expired \in 0..Len(stamps) /\ P(Expired)
  BY <1>6 DEF Expired
<1>8. Expired = old
  <2>1. CASE Expired < old
    <3>1. Expired + 1 \in 1..Len(stamps) /\ Expired < Len(stamps)
      BY <1>5, <1>7, <2>1
    <3>2. stamps[Expired + 1] < opt.interval
      BY <1>7, <3>1
    <3>. QED  BY <1>4, <1>7, <2>1, <3>1, <3>2, <1>5
  <2>2. CASE Expired > old
    <3>1. old + 1 \in 1..Len(stamps) /\ old + 1 \in 1..Expired
      BY <1>5, <1>7, <2>2
    <3>2. stamps[old + 1] >= opt.interval
      BY <1>7, <3>1
    <3>. QED  BY <1>1, <1>3, <1>4, <3>1, <3>2, <1>5
  <2>. QED  BY <1>5, <1>7, <2>1, <2>2
<1>9. /\ Len(Live) = Len(stamps) - Expired
      /\ Live \in Seq(0..opt.interval)
      /\ \A i \in 1..Len(Live) : Live[i] = stamps[i + Expired]
  BY <1>1, <1>7 DEF Live
<1>10. ASSUME NEW i \in 1..Len(Live) PROVE Live[i] < opt.interval
  <2>1. Expired \in Nat /\ i \in Nat /\ 1 <= i /\ i <= Len(stamps) - Expired
    BY <1>1, <1>7, <1>9
  <2>2. i + Expired \in 1..Len(stamps) /\ i + Expired > Expired
    BY <1>1, <2>1
  <2>3. i + Expired > old
    BY <1>8, <2>2
  <2>. QED  BY <1>4, <1>9, <2>2, <2>3
<1>11. Len(Live) = recent
  BY <1>1, <1>2, <1>8, <1>9
<1>. HIDE DEF P, old, recent
<1>. QED  BY <1>7, <1>9, <1>10, <1>11 DEF recent

\* A younger window holds no more admissions than the whole interval.
LEMMA WindowsNested ==
    ASSUME TypeOK, ~ByTokens, StampsAccounted, NEW w \in Window
    PROVE  admitted[w] <= Len(Live)
<1>1. /\ opt.interval \in Nat \ {0}
      /\ opt.interval - 1 \in Window
      /\ w \in Nat /\ w <= opt.interval - 1
      /\ Len(stamps) \in Nat
      /\ admitted[w] \in Nat /\ admitted[opt.interval - 1] \in Nat
      /\ \A i \in 1..Len(stamps) : stamps[i] \in Nat
  <2>1. opt.interval \in Nat \ {0}
    BY OptionType DEF TypeOK
  <2>2. opt.interval - 1 \in Window /\ w \in Nat /\ w <= opt.interval - 1
    BY <2>1 DEF Window
  <2>3. admitted \in [Window -> Nat]
    BY DEF TypeOK, Window
  <2>4. stamps \in Seq(0..opt.interval)
    BY DEF TypeOK
  <2>5. /\ Len(stamps) \in Nat
        /\ \A i \in 1..Len(stamps) : stamps[i] \in Nat
    BY <2>1, <2>4
  <2>. QED  BY <2>1, <2>2, <2>3, <2>5
<1>2. SUFFICES ASSUME admitted[w] > admitted[opt.interval - 1] PROVE FALSE
  BY <1>1, LiveStamps
<1>. DEFINE i == Len(stamps) - admitted[w] + 1
<1>3. admitted[w] <= Len(stamps)
  BY DEF StampsAccounted
<1>4. i \in 1..Len(stamps) /\ i > Len(stamps) - admitted[w]
  BY <1>1, <1>2, <1>3
<1>5. stamps[i] <= w
  BY <1>4 DEF StampsAccounted
<1>6. stamps[i] <= opt.interval - 1
  BY <1>1, <1>4, <1>5
<1>7. i > Len(stamps) - admitted[opt.interval - 1]
  BY <1>1, <1>4, <1>6 DEF StampsAccounted
<1>. QED  BY <1>1, <1>2, <1>3, <1>7

\* The delay a caller is told: a natural number of milliseconds, in which the
\* exact token is refilled; one, if only rounding kept the caller from it.
LEMMA RetryAfterReaches ==
    ASSUME TypeOK, Accounted, NEW below \in Rounded, ~Allowed(below), NEW d \in RetryAfter
    PROVE  /\ d \in Nat
           /\ ByTokens => /\ Refilled + d * opt.limit >= opt.interval
                          /\ d >= 1
                          /\ Refilled >= opt.interval => d = 1
           /\ ~ByTokens => /\ Len(Live) = opt.limit
                           /\ Live[1] + d >= opt.interval
<1>1. /\ opt.interval \in Nat \ {0}
      /\ opt.limit \in Nat \ {0}
  BY OptionType DEF TypeOK
<1>2. CASE ByTokens
  <2>1. Refilled \in Nat /\ Refilled <= opt.interval
    <3>1. Refilled \in 0..Capacity /\ Capacity \in Nat
      BY RefilledType, CapacityType DEF TypeOK
    <3>2. ~(Refilled >= opt.interval) \/ Refilled = opt.interval
      BY <1>2 DEF Allowed
    <3>. HIDE DEF Refilled, Capacity
    <3>. QED  BY <1>1, <3>1, <3>2
  <2>2. PICK m : m = Missing
    OBVIOUS
  <2>3. m \in Nat /\ m = opt.interval - Refilled
    <3>1. m = opt.interval - Refilled
      BY <2>2 DEF Missing
    <3>. QED  BY <1>1, <2>1, <3>1
  <2>4. PICK e : e = CeilDiv(m, opt.limit)
    OBVIOUS
  <2>5. e \in Nat /\ e * opt.limit >= m
    BY <1>1, <2>3, <2>4, CeilDivReaches
  <2>6. m = 0 => e = 0
    <3>1. ASSUME m = 0 PROVE e = (opt.limit - 1) \div opt.limit
      BY <1>1, <2>4, <3>1 DEF CeilDiv
    <3>. QED  BY <1>1, <3>1
  <2>7. d = AtLeast(e, 1) \/ (d = m \div opt.limit + 1 /\ m % opt.limit = 0)
    BY <1>2, <2>2, <2>4 DEF RetryAfter
  <2>8. CASE d = AtLeast(e, 1)
    <3>1. d \in Nat /\ d >= 1 /\ (d = e \/ (e = 0 /\ d = 1)) /\ (m = 0 => d = 1)
      BY <2>5, <2>6, <2>8 DEF AtLeast
    <3>2. d * opt.limit >= m
      <4>1. CASE d = e
        BY <2>5, <4>1
      <4>2. CASE e = 0 /\ d = 1
        <5>1. e * opt.limit = 0
          BY <1>1, <4>2
        <5>. QED  BY <1>1, <2>3, <2>5, <4>2, <5>1
      <4>. QED  BY <3>1, <4>1, <4>2
    <3>3. d * opt.limit \in Nat
      BY <1>1, <3>1, Products
    <3>. QED  BY <1>1, <1>2, <2>1, <2>3, <3>1, <3>2, <3>3
  <2>9. CASE d = m \div opt.limit + 1
    <3>1. PICK q : q = m \div opt.limit
      OBVIOUS
    <3>2. q \in Nat /\ m < q * opt.limit + opt.limit /\ (m = 0 => q = 0)
      BY <1>1, <2>3, <3>1
    <3>3. q * opt.limit \in Nat /\ (q + 1) * opt.limit = q * opt.limit + opt.limit
      BY <1>1, <3>2, Products
    <3>4. d = q + 1
      BY <2>9, <3>1
    <3>. QED  BY <1>1, <1>2, <2>1, <2>3, <3>2, <3>3, <3>4
  <2>. QED  BY <2>7, <2>8, <2>9
<1>3. CASE ~ByTokens
  <2>1. /\ Len(Live) = admitted[opt.interval - 1]
        /\ Live \in Seq(0..opt.interval)
        /\ \A i \in 1..Len(Live) : Live[i] < opt.interval
    BY <1>3, LiveStamps DEF Accounted
  <2>2. Len(Live) \in Nat /\ Len(Live) >= opt.limit
    BY <1>1, <1>3, <2>1 DEF Allowed
  <2>3. opt.interval - 1 \in Window
    BY <1>1 DEF Window
  <2>4. Len(Live) = opt.limit
    BY <1>1, <1>3, <2>1, <2>2, <2>3 DEF Accounted, StampsAccounted
  <2>5. Head(Live) = Live[1] /\ Live[1] \in Nat /\ Live[1] < opt.interval
    BY <1>1, <2>1, <2>2
  <2>6. d = AtLeast(opt.interval - Live[1], 1)
    BY <1>3, <2>5 DEF RetryAfter
  <2>. QED  BY <1>1, <1>3, <2>4, <2>5, <2>6 DEF AtLeast
<1>. QED  BY <1>2, <1>3
-----------------------------------------------------------------------------
(* Steps of a bucket or window.  Each lemma takes the state before a step  *)
(* as accounted for and shows that the state after it is, and is well      *)
(* formed.                                                                 *)

BucketType ==
    /\ tokens \in 0..Capacity
    /\ short \in BOOLEAN
    /\ idle \in 0..FillTime
    /\ stamps \in Seq(0..opt.interval)
    /\ admitted \in [Window -> Nat]

\* The option dependent operators after a step, which changes no option.
LEMMA OptionsFixed ==
    ASSUME opt' = opt
    PROVE  /\ Window' = Window
           /\ ByTokens' = ByTokens
           /\ Capacity' = Capacity
           /\ FillTime' = FillTime
           /\ LongestWait' = LongestWait
BY DEF Window, ByTokens, Capacity, FillTime, LongestWait

\* A freshly refilled bucket holds what it held, up to its capacity.
LEMMA RefilledAtOnce ==
    ASSUME TypeOK, opt' = opt, tokens' \in 0..Capacity, idle' = 0
    PROVE  Refilled' = tokens'
<1>1. /\ opt.limit \in Nat
      /\ Capacity \in Nat
      /\ Capacity' = Capacity
  BY OptionType, CapacityType, OptionsFixed DEF TypeOK
<1>2. tokens' + idle' * opt'.limit = tokens'
  BY <1>1
<1>. QED  BY <1>1, <1>2 DEF Refilled, AtMost

\* Taking a permit pays for one more admission.
LEMMA ConsumeAccounted ==
    ASSUME TypeOK, Accounted, opt' = opt,
           NEW below \in Rounded, Allowed(below), Consume(below)
    PROVE  BucketType' /\ Accounted'
<1>1. /\ opt.interval \in Nat \ {0} /\ opt.limit \in Nat \ {0}
      /\ Capacity \in Nat /\ FillTime \in Nat
      /\ admitted \in [Window -> Nat]
      /\ admitted' = [w \in Window |-> admitted[w] + 1]
      /\ short' \in BOOLEAN
  BY OptionType, CapacityType, RoundedType DEF TypeOK, Window, Consume, CountAdmission
<1>2. admitted' \in [Window -> Nat]
  BY <1>1
<1>3. CASE ByTokens
  <2>1. Refilled \in 0..Capacity /\ Refilled >= opt.interval
    BY <1>3, RefilledType DEF Allowed
  <2>2. tokens' = Refilled - opt.interval /\ idle' = 0 /\ stamps' = stamps
    BY <1>3 DEF Consume
  <2>3. tokens' \in 0..Capacity
    BY <1>1, <2>1, <2>2
  <2>4. Refilled' = Refilled - opt.interval
    BY <2>2, <2>3, RefilledAtOnce
  <2>5. ASSUME NEW w \in Window
        PROVE  admitted'[w] * opt.interval + Refilled' <= Capacity + w * opt.limit
    <3>1. admitted[w] * opt.interval + Refilled <= Capacity + w * opt.limit
      BY <1>3 DEF Accounted, TokensAccounted
    <3>2. (admitted[w] + 1) * opt.interval = admitted[w] * opt.interval + opt.interval
      BY <1>1, Products
    <3>3. w \in Nat /\ w * opt.limit \in Nat
      <4>1. w \in Nat
        BY <1>1 DEF Window
      <4>. QED  BY <1>1, <4>1, Products
    <3>4. admitted[w] * opt.interval \in Nat
      BY <1>1, Products
    <3>5. admitted'[w] * opt.interval = admitted[w] * opt.interval + opt.interval
      BY <1>1, <3>2
    <3>. QED  BY <1>1, <2>1, <2>4, <3>1, <3>3, <3>4, <3>5
  <2>6. TokensAccounted'
    BY <2>5, OptionsFixed DEF TokensAccounted
  <2>. QED
    BY <1>1, <1>2, <1>3, <2>2, <2>3, <2>6, OptionsFixed DEF BucketType, Accounted, TypeOK
<1>4. CASE ~ByTokens
  <2>1. StampsAccounted
    BY <1>4 DEF Accounted
  <2>2. PICK q : q = Live
    OBVIOUS
  <2>3. /\ Expired \in 0..Len(stamps)
        /\ Len(stamps) \in Nat
        /\ q \in Seq(0..opt.interval)
        /\ Len(q) = Len(stamps) - Expired
        /\ Len(q) < opt.limit
        /\ \A i \in 1..Len(q) : q[i] = stamps[i + Expired]
    BY <1>4, <2>1, <2>2, LiveStamps DEF Allowed, TypeOK
  <2>4. tokens' = tokens /\ idle' = idle /\ stamps' = Append(q, 0)
    BY <1>4, <2>2 DEF Consume
  <2>5. 0 \in 0..opt.interval
    BY <1>1
  <2>6. /\ stamps' \in Seq(0..opt.interval)
        /\ Len(stamps') = Len(q) + 1
        /\ \A i \in 1..Len(q) : stamps'[i] = q[i]
        /\ stamps'[Len(q) + 1] = 0
    BY <2>3, <2>4, <2>5
  <2>7. ASSUME NEW w \in Window
        PROVE  /\ admitted'[w] <= Len(stamps')
               /\ admitted'[w] <= opt.limit
               /\ \A i \in 1..Len(stamps') :
                    stamps'[i] <= w <=> i > Len(stamps') - admitted'[w]
    <3>1. /\ w \in Nat
          /\ admitted[w] \in Nat
          /\ admitted'[w] = admitted[w] + 1
          /\ Len(q) \in Nat
      <4>1. w \in Nat
        BY <1>1 DEF Window
      <4>2. admitted[w] \in Nat /\ admitted'[w] = admitted[w] + 1
        BY <1>1
      <4>. QED  BY <2>3, <4>1, <4>2
    <3>2. admitted[w] <= Len(q)
      BY <1>4, <2>1, <2>2, WindowsNested
    <3>3. ASSUME NEW i \in 1..Len(q)
          PROVE  stamps'[i] <= w <=> i > Len(stamps') - admitted'[w]
      <4>1. i + Expired \in 1..Len(stamps)
        BY <2>3, <3>1
      <4>2. stamps[i + Expired] <= w <=> i + Expired > Len(stamps) - admitted[w]
        BY <2>1, <4>1 DEF StampsAccounted
      <4>3. i + Expired > Len(stamps) - admitted[w] <=> i > Len(stamps') - admitted'[w]
        <5>1. PICK n, e, a : n = Len(stamps) /\ e = Expired /\ a = admitted[w]
          OBVIOUS
        <5>2. n \in Nat /\ e \in 0..n /\ a \in Nat /\ i \in Nat
          BY <2>3, <3>1, <5>1
        <5>3. Len(stamps') - admitted'[w] = (n - e + 1) - (a + 1)
          BY <2>3, <2>6, <3>1, <5>1
        <5>4. i + e > n - a <=> i > (n - e + 1) - (a + 1)
          BY <5>2
        <5>. QED  BY <5>1, <5>3, <5>4
      <4>. QED  BY <2>3, <2>6, <4>2, <4>3
    <3>4. stamps'[Len(q) + 1] <= w /\ Len(q) + 1 > Len(stamps') - admitted'[w]
      BY <2>6, <3>1
    <3>5. \A i \in 1..Len(stamps') : i \in 1..Len(q) \/ i = Len(q) + 1
      BY <2>6, <3>1
    <3>6. /\ admitted'[w] <= Len(stamps')
          /\ admitted'[w] <= opt.limit
      <4>1. Len(q) < opt.limit /\ opt.limit \in Nat /\ Len(stamps') = Len(q) + 1
        BY <1>1, <2>3, <2>6
      <4>. QED  BY <3>1, <3>2, <4>1
    <3>. QED  BY <3>3, <3>4, <3>5, <3>6
  <2>8. StampsAccounted'
    BY <2>7, OptionsFixed DEF StampsAccounted
  <2>. QED
    BY <1>1, <1>2, <1>4, <2>4, <2>6, <2>8, OptionsFixed DEF BucketType, Accounted, TypeOK
<1>. QED  BY <1>3, <1>4

\* A refusal refills the bucket or trims the window and admits nobody.
LEMMA RefreshAccounted ==
    ASSUME TypeOK, Accounted, opt' = opt, NEW below \in Rounded, Refresh(below)
    PROVE  /\ BucketType' /\ Accounted'
           /\ ByTokens => Refilled' = Refilled
<1>1. /\ opt.interval \in Nat \ {0}
      /\ Capacity \in Nat /\ FillTime \in Nat
      /\ admitted \in [Window -> Nat]
      /\ admitted' = admitted
      /\ short' \in BOOLEAN
  BY OptionType, CapacityType, RoundedType DEF TypeOK, Window, Refresh
<1>2. CASE ByTokens
  <2>1. tokens' = Refilled /\ idle' = 0 /\ stamps' = stamps /\ Refilled \in 0..Capacity
    BY <1>2, RefilledType DEF Refresh
  <2>2. Refilled' = Refilled
    BY <2>1, RefilledAtOnce
  <2>3. TokensAccounted'
    <3>. SUFFICES ASSUME NEW w \in Window
                  PROVE  admitted'[w] * opt.interval + Refilled' <= Capacity + w * opt.limit
      BY OptionsFixed DEF TokensAccounted
    <3>. QED  BY <1>1, <1>2, <2>2 DEF Accounted, TokensAccounted
  <2>. QED
    BY <1>1, <1>2, <2>1, <2>2, <2>3, OptionsFixed DEF BucketType, Accounted, TypeOK
<1>3. CASE ~ByTokens
  <2>1. StampsAccounted
    BY <1>3 DEF Accounted
  <2>2. PICK q : q = Live
    OBVIOUS
  <2>3. /\ Expired \in 0..Len(stamps)
        /\ Len(stamps) \in Nat
        /\ q \in Seq(0..opt.interval)
        /\ Len(q) \in Nat
        /\ Len(q) = Len(stamps) - Expired
        /\ \A i \in 1..Len(q) : q[i] = stamps[i + Expired]
    BY <1>3, <2>1, <2>2, LiveStamps DEF TypeOK
  <2>4. tokens' = tokens /\ idle' = idle /\ stamps' = q
    BY <1>3, <2>2 DEF Refresh
  <2>5. ASSUME NEW w \in Window
        PROVE  /\ admitted[w] <= Len(q)
               /\ admitted[w] <= opt.limit
               /\ \A i \in 1..Len(q) : q[i] <= w <=> i > Len(q) - admitted[w]
    <3>1. admitted[w] \in Nat
      BY <1>1
    <3>2. admitted[w] <= Len(q) /\ admitted[w] <= opt.limit
      BY <1>3, <2>1, <2>2, WindowsNested DEF StampsAccounted
    <3>3. ASSUME NEW i \in 1..Len(q) PROVE q[i] <= w <=> i > Len(q) - admitted[w]
      <4>1. i + Expired \in 1..Len(stamps)
        BY <2>3
      <4>2. stamps[i + Expired] <= w <=> i + Expired > Len(stamps) - admitted[w]
        BY <2>1, <4>1 DEF StampsAccounted
      <4>3. i + Expired > Len(stamps) - admitted[w] <=> i > Len(q) - admitted[w]
        BY <2>3, <3>1
      <4>. QED  BY <2>3, <4>2, <4>3
    <3>. QED  BY <3>2, <3>3
  <2>6. StampsAccounted'
    BY <1>1, <2>4, <2>5, OptionsFixed DEF StampsAccounted
  <2>. QED
    BY <1>1, <1>3, <2>3, <2>4, <2>6, OptionsFixed DEF BucketType, Accounted, TypeOK
<1>. QED  BY <1>2, <1>3

\* In one unit of time the bucket gains at most one unit of refill.
LEMMA TickRefills ==
    ASSUME TypeOK, Tick, ByTokens
    PROVE  /\ Refilled' <= Refilled + opt.limit
           /\ Refilled' \in 0..Capacity
           /\ idle' \in 0..FillTime
<1>1. /\ opt.limit \in Nat
      /\ tokens \in Nat
      /\ idle \in 0..FillTime
      /\ Capacity \in Nat /\ FillTime \in Nat
      /\ tokens' = tokens /\ opt' = opt
      /\ idle' = IF idle < FillTime THEN idle + 1 ELSE idle
  BY OptionType, CapacityType DEF TypeOK, Tick, Later
<1>2. /\ idle \in Nat /\ idle' \in Nat
      /\ idle' \in 0..FillTime
      /\ idle' = idle + 1 \/ idle' = idle
  BY <1>1
<1>3. /\ idle * opt.limit \in Nat
      /\ (idle + 1) * opt.limit = idle * opt.limit + opt.limit
  BY <1>1, <1>2, Products
<1>4. PICK r, s : r = idle * opt.limit /\ s = idle' * opt.limit
  OBVIOUS
<1>5. r \in Nat /\ (s = r + opt.limit \/ s = r)
  BY <1>2, <1>3, <1>4
<1>6. Refilled = IF tokens + r < Capacity THEN tokens + r ELSE Capacity
  BY <1>4 DEF Refilled, AtMost
<1>7. Refilled' = IF tokens + s < Capacity THEN tokens + s ELSE Capacity
  BY <1>1, <1>4, OptionsFixed DEF Refilled, AtMost
<1>. QED  BY <1>1, <1>2, <1>5, <1>6, <1>7

\* Time moves every window by one unit, and the refill pays for it.
LEMMA TickAccounted ==
    ASSUME TypeOK, Accounted, Tick
    PROVE  BucketType' /\ Accounted'
<1>1. /\ opt.interval \in Nat \ {0} /\ opt.limit \in Nat \ {0}
      /\ Capacity \in Nat /\ FillTime \in Nat
      /\ admitted \in [Window -> Nat]
      /\ opt' = opt
      /\ admitted' = [w \in Window |-> IF w = 0 THEN 0 ELSE admitted[w - 1]]
  BY OptionType, CapacityType DEF TypeOK, Window, Tick
<1>2. ASSUME NEW w \in Window
      PROVE  /\ w \in Nat
             /\ w # 0 => w - 1 \in Window
             /\ w <= opt.interval - 1
  BY <1>1 DEF Window
<1>3. admitted' \in [Window -> Nat]
  <2>1. ASSUME NEW w \in Window PROVE (IF w = 0 THEN 0 ELSE admitted[w - 1]) \in Nat
    BY <1>1, <1>2
  <2>. QED  BY <1>1, <2>1
<1>4. /\ tokens' = tokens /\ short' = short
      /\ tokens \in 0..Capacity /\ short \in BOOLEAN
  BY DEF Tick, TypeOK
<1>5. /\ stamps' \in Seq(0..opt.interval)
      /\ Len(stamps') = Len(stamps)
      /\ Len(stamps) \in Nat
      /\ \A i \in 1..Len(stamps) :
            /\ stamps[i] \in 0..opt.interval
            /\ stamps'[i] = IF stamps[i] < opt.interval THEN stamps[i] + 1 ELSE stamps[i]
  <2>1. /\ Len(stamps) \in Nat
        /\ DOMAIN stamps = 1..Len(stamps)
        /\ \A i \in 1..Len(stamps) : stamps[i] \in 0..opt.interval
    <3>1. stamps \in Seq(0..opt.interval)
      BY DEF TypeOK
    <3>. QED  BY <3>1, SeqElements
  <2>2. stamps' = [i \in 1..Len(stamps) |-> Later(stamps[i], opt.interval)]
    BY <2>1 DEF Tick
  <2>3. ASSUME NEW i \in 1..Len(stamps)
        PROVE  /\ Later(stamps[i], opt.interval) \in 0..opt.interval
               /\ Later(stamps[i], opt.interval) =
                    IF stamps[i] < opt.interval THEN stamps[i] + 1 ELSE stamps[i]
    BY <1>1, <2>1 DEF Later
  <2>4. stamps' \in [1..Len(stamps) -> 0..opt.interval]
    BY <2>2, <2>3
  <2>. QED  BY <2>1, <2>2, <2>3, <2>4
<1>6. CASE ByTokens
  <2>1. /\ Refilled' <= Refilled + opt.limit
        /\ Refilled' \in 0..Capacity
        /\ idle' \in 0..FillTime
        /\ Refilled \in 0..Capacity
    BY <1>6, TickRefills, RefilledType
  <2>2. ASSUME NEW w \in Window
        PROVE  admitted'[w] * opt.interval + Refilled' <= Capacity + w * opt.limit
    <3>1. CASE w = 0
      <4>1. admitted'[w] = 0 /\ admitted'[w] * opt.interval = 0 /\ w * opt.limit = 0
        BY <1>1, <3>1
      <4>. QED  BY <1>1, <2>1, <4>1
    <3>2. CASE w # 0
      <4>1. PICK v \in Window : w = v + 1 /\ v = w - 1
        BY <1>2, <3>2
      <4>2. admitted'[w] = admitted[v]
        BY <1>1, <3>2, <4>1
      <4>3. admitted[v] * opt.interval + Refilled <= Capacity + v * opt.limit
        BY <1>6 DEF Accounted, TokensAccounted
      <4>4. /\ v * opt.limit \in Nat
            /\ (v + 1) * opt.limit = v * opt.limit + opt.limit
        BY <1>1, <1>2, Products
      <4>5. admitted[v] * opt.interval \in Nat
        BY <1>1, Products
      <4>6. /\ admitted'[w] * opt.interval = admitted[v] * opt.interval
            /\ w * opt.limit = v * opt.limit + opt.limit
        BY <4>1, <4>2, <4>4
      <4>. QED  BY <1>1, <2>1, <4>3, <4>4, <4>5, <4>6
    <3>. QED  BY <3>1, <3>2
  <2>3. TokensAccounted'
    BY <1>1, <2>2, OptionsFixed DEF TokensAccounted
  <2>4. Accounted'
    BY <1>1, <1>6, <2>3, OptionsFixed DEF Accounted
  <2>5. tokens' \in 0..Capacity' /\ idle' \in 0..FillTime' /\ short' \in BOOLEAN
    BY <1>1, <1>4, <2>1, OptionsFixed
  <2>6. stamps' \in Seq(0..opt'.interval) /\ admitted' \in [Window' -> Nat]
    BY <1>1, <1>3, <1>5, OptionsFixed
  <2>. QED  BY <2>4, <2>5, <2>6 DEF BucketType
<1>7. CASE ~ByTokens
  <2>1. StampsAccounted
    BY <1>7 DEF Accounted
  <2>2. ASSUME NEW w \in Window
        PROVE  /\ admitted'[w] <= Len(stamps')
               /\ admitted'[w] <= opt.limit
               /\ \A i \in 1..Len(stamps') :
                    stamps'[i] <= w <=> i > Len(stamps') - admitted'[w]
    <3>1. CASE w = 0
      <4>1. admitted'[w] = 0
        BY <1>1, <3>1
      <4>2. \A i \in 1..Len(stamps) : ~(stamps'[i] <= w) /\ ~(i > Len(stamps') - admitted'[w])
        BY <1>1, <1>5, <3>1, <4>1
      <4>. QED  BY <1>1, <1>5, <4>1, <4>2
    <3>2. CASE w # 0
      <4>1. PICK v \in Window : w = v + 1 /\ v = w - 1
        BY <1>2, <3>2
      <4>2. admitted'[w] = admitted[v]
        BY <1>1, <3>2, <4>1
      <4>3. ASSUME NEW i \in 1..Len(stamps)
            PROVE  stamps'[i] <= w <=> i > Len(stamps') - admitted'[w]
        <5>1. stamps'[i] <= w <=> stamps[i] <= v
          <6>1. v \in Nat /\ w <= opt.interval - 1
            BY <1>2
          <6>2. stamps[i] \in Nat /\ stamps[i] <= opt.interval
            BY <1>1, <1>5
          <6>3. stamps'[i] = IF stamps[i] < opt.interval THEN stamps[i] + 1 ELSE stamps[i]
            BY <1>5
          <6>4. PICK a, b : a = stamps[i] /\ b = stamps'[i]
            OBVIOUS
          <6>5. a \in Nat /\ a <= opt.interval /\ b = IF a < opt.interval THEN a + 1 ELSE a
            BY <6>2, <6>3, <6>4
          <6>6. b <= v + 1 <=> a <= v
            BY <1>1, <4>1, <6>1, <6>5
          <6>. QED  BY <4>1, <6>4, <6>6
        <5>2. stamps[i] <= v <=> i > Len(stamps) - admitted[v]
          BY <2>1 DEF StampsAccounted
        <5>. QED  BY <1>5, <4>2, <5>1, <5>2
      <4>4. admitted[v] <= Len(stamps) /\ admitted[v] <= opt.limit
        BY <2>1 DEF StampsAccounted
      <4>. QED  BY <1>5, <4>2, <4>3, <4>4
    <3>. QED  BY <3>1, <3>2
  <2>3. StampsAccounted'
    BY <1>1, <2>2, OptionsFixed DEF StampsAccounted
  <2>4. idle' = 0
    BY <1>7 DEF Tick
  <2>5. Accounted'
    BY <1>1, <1>7, <2>3, OptionsFixed DEF Accounted
  <2>6. tokens' \in 0..Capacity' /\ idle' \in 0..FillTime' /\ short' \in BOOLEAN
    BY <1>1, <1>4, <2>4, OptionsFixed
  <2>7. stamps' \in Seq(0..opt'.interval) /\ admitted' \in [Window' -> Nat]
    BY <1>1, <1>3, <1>5, OptionsFixed
  <2>. QED  BY <2>5, <2>6, <2>7 DEF BucketType
<1>. QED  BY <1>6, <1>7
-----------------------------------------------------------------------------
(* The callers *)

\* What the steps of the callers leave alone, apart from the bucket.
CallType ==
    /\ lock \in Seq(Calls)
    /\ phase \in [Calls -> Phases]
    /\ budget \in [Calls -> 0..opt.maxWait]
    /\ timer \in [Calls -> 0..opt.maxWait]
    /\ cancelled \in [Calls -> BOOLEAN]
    /\ waited \in [Calls -> 0..(LongestWait + 1)]

\* The two halves of the type invariant.
LEMMA TypeParts == TypeOK <=> opt \in Options /\ BucketType /\ CallType
BY DEF TypeOK, BucketType, CallType, Window

\* A step that leaves the bucket alone leaves it accounted for.
LEMMA BucketUnchanged ==
    ASSUME BucketType, Accounted, UNCHANGED <<opt, bucket, admitted>>
    PROVE  BucketType' /\ Accounted'
BY OptionsFixed DEF bucket, BucketType, Accounted, TokensAccounted, StampsAccounted, Refilled, AtMost

\* The wait limit is a number, which no step changes.
LEMMA WaitLimited == opt \in Options => LongestWait \in Nat
<1>1. Cardinality(Calls) \in Nat
  BY LimiterAssumption, FS_CardinalityType
<1>. QED  BY <1>1, OptionType DEF LongestWait

\* A round of the loop of a call that holds the lock.
LEMMA TryStep ==
    ASSUME TypeOK, Accounted, NEW c \in Calls, NEW left \in 0..opt.maxWait,
           HasLock(c), TryWith(c, left)
    PROVE  opt' = opt /\ BucketType' /\ Accounted' /\ CallType'
<1>1. /\ lock \in Seq(Calls)
      /\ phase \in [Calls -> Phases]
      /\ budget \in [Calls -> 0..opt.maxWait]
      /\ timer \in [Calls -> 0..opt.maxWait]
      /\ cancelled \in [Calls -> BOOLEAN]
      /\ waited \in [Calls -> 0..(LongestWait + 1)]
      /\ opt.maxWait \in Nat /\ LongestWait \in Nat
  BY OptionType, WaitLimited DEF TypeOK
<1>2. ASSUME NEW answer \in Phases, Leave(c, answer) PROVE opt' = opt /\ CallType'
  <2>1. Tail(lock) \in Seq(Calls)
    BY <1>1 DEF HasLock
  <2>2. 0 \in 0..opt.maxWait /\ 0 \in 0..(LongestWait + 1)
    BY <1>1
  <2>. QED  BY <1>1, <1>2, <2>1, <2>2, OptionsFixed DEF Leave, CallType
<1>3. ASSUME NEW below \in Rounded, Allowed(below), Consume(below), Leave(c, "admitted")
      PROVE  opt' = opt /\ BucketType' /\ Accounted' /\ CallType'
  <2>1. opt' = opt /\ CallType'
    BY <1>2, <1>3 DEF Phases
  <2>. QED  BY <1>3, <2>1, ConsumeAccounted
<1>4. ASSUME NEW below \in Rounded, Refresh(below), Leave(c, "rejected")
      PROVE  opt' = opt /\ BucketType' /\ Accounted' /\ CallType'
  <2>1. opt' = opt /\ CallType'
    BY <1>2, <1>4 DEF Phases
  <2>. QED  BY <1>4, <2>1, RefreshAccounted
<1>5. ASSUME NEW below \in Rounded, ~Allowed(below), Refresh(below),
             NEW d \in RetryAfter, d <= left, Sleep(c, d, left)
      PROVE  opt' = opt /\ BucketType' /\ Accounted' /\ CallType'
  <2>1. d \in 0..opt.maxWait
    BY <1>1, <1>5, RetryAfterReaches
  <2>2. opt' = opt /\ CallType'
    BY <1>1, <1>5, <2>1, OptionsFixed DEF Sleep, CallType, Phases
  <2>. QED  BY <1>5, <2>2, RefreshAccounted
<1>. QED  BY <1>3, <1>4, <1>5 DEF TryWith

\* Timers run down, waits grow.
LEMMA TickCallType ==
    ASSUME TypeOK, Tick
    PROVE  opt' = opt /\ CallType'
<1>1. /\ budget \in [Calls -> 0..opt.maxWait]
      /\ timer \in [Calls -> 0..opt.maxWait]
      /\ waited \in [Calls -> 0..(LongestWait + 1)]
      /\ opt.maxWait \in Nat /\ LongestWait \in Nat
  BY OptionType, WaitLimited DEF TypeOK
<1>2. ASSUME NEW n \in 0..opt.maxWait PROVE Sooner(n) \in 0..opt.maxWait
  BY <1>1 DEF Sooner
<1>3. ASSUME NEW n \in 0..(LongestWait + 1)
      PROVE  Later(n, LongestWait + 1) \in 0..(LongestWait + 1)
  BY <1>1 DEF Later
<1>4. budget' \in [Calls -> 0..opt.maxWait] /\ timer' \in [Calls -> 0..opt.maxWait]
  BY <1>1, <1>2 DEF Tick
<1>5. waited' \in [Calls -> 0..(LongestWait + 1)]
  BY <1>1, <1>3 DEF Tick
<1>. QED  BY <1>4, <1>5, OptionsFixed DEF Tick, CallType, TypeOK

\* Every step keeps the state well formed and the admissions accounted for.
LEMMA TypeStep ==
    ASSUME TypeOK, Accounted, [Next]_vars
    PROVE  TypeOK' /\ Accounted'
<1>. SUFFICES opt' = opt /\ BucketType' /\ Accounted' /\ CallType'
  <2>1. opt \in Options
    BY DEF TypeOK
  <2>2. TypeOK' <=> opt' \in Options /\ BucketType' /\ CallType'
    BY DEF TypeOK, BucketType, CallType, Window
  <2>. QED  BY <2>1, <2>2
<1>1. BucketType /\ CallType
  BY TypeParts
<1>2. CASE UNCHANGED vars
  BY <1>1, <1>2, BucketUnchanged, OptionsFixed DEF vars, sleepers, CallType
<1>3. CASE Tick
  BY <1>3, TickAccounted, TickCallType
<1>4. ASSUME NEW c \in Calls, AdmitNow(c) \/ RejectNow(c)
      PROVE  opt' = opt /\ BucketType' /\ Accounted' /\ CallType'
  BY <1>1, <1>4, ConsumeAccounted, RefreshAccounted, OptionsFixed
     DEF AdmitNow, RejectNow, CallType, sleepers, Phases
<1>5. ASSUME NEW c \in Calls, Arrive(c) \/ Cancel(c) \/ Return(c)
      PROVE  opt' = opt /\ BucketType' /\ Accounted' /\ CallType'
  <2>1. UNCHANGED <<opt, bucket, admitted>>
    BY <1>5 DEF Arrive, Cancel, Return
  <2>2. BucketType' /\ Accounted'
    BY <1>1, <2>1, BucketUnchanged
  <2>3. lock' \in Seq(Calls)
    <3>1. lock \in Seq(Calls)
      BY <1>1 DEF CallType
    <3>2. lock' = Append(lock, c) \/ lock' = lock
      BY <1>5 DEF Arrive, Cancel, Return
    <3>. QED  BY <3>1, <3>2
  <2>4. phase' \in [Calls -> Phases] /\ cancelled' \in [Calls -> BOOLEAN]
    BY <1>1, <1>5 DEF Arrive, Cancel, Return, CallType, Phases
  <2>5. UNCHANGED <<opt, budget, timer, waited>>
    BY <1>5 DEF Arrive, Cancel, Return, sleepers
  <2>. QED  BY <1>1, <2>2, <2>3, <2>4, <2>5, OptionsFixed DEF CallType
<1>6. ASSUME NEW c \in Calls, FirstTry(c)
      PROVE  opt' = opt /\ BucketType' /\ Accounted' /\ CallType'
  <2>1. opt.maxWait \in 0..opt.maxWait
    BY OptionType DEF TypeOK
  <2>. QED  BY <1>6, <2>1, TryStep DEF FirstTry
<1>7. ASSUME NEW c \in Calls, NextTry(c)
      PROVE  opt' = opt /\ BucketType' /\ Accounted' /\ CallType'
  <2>1. budget[c] \in 0..opt.maxWait
    BY DEF TypeOK
  <2>. QED  BY <1>7, <2>1, TryStep DEF NextTry
<1>8. ASSUME NEW c \in Calls, Abort(c)
      PROVE  opt' = opt /\ BucketType' /\ Accounted' /\ CallType'
  <2>1. UNCHANGED <<opt, bucket, admitted>>
    BY <1>8 DEF Abort, Leave
  <2>2. lock' \in Seq(Calls)
    BY <1>1, <1>8 DEF Abort, Leave, HasLock, CallType
  <2>3. 0 \in 0..opt.maxWait /\ 0 \in 0..(LongestWait + 1)
    BY OptionType, WaitLimited DEF TypeOK
  <2>4. CallType'
    BY <1>1, <1>8, <2>2, <2>3, OptionsFixed DEF Abort, Leave, CallType, Phases
  <2>. QED  BY <1>1, <2>1, <2>4, BucketUnchanged
<1>. QED  BY <1>2, <1>3, <1>4, <1>5, <1>6, <1>7, <1>8 DEF Next, Continue

\* A new limiter has a full bucket and has admitted nobody.
LEMMA InitAccounted ==
    ASSUME Init
    PROVE  TypeOK /\ Accounted
<1>1. /\ opt \in Options
      /\ opt.interval \in Nat \ {0} /\ opt.limit \in Nat \ {0}
      /\ opt.maxWait \in Nat /\ LongestWait \in Nat
      /\ Capacity \in Nat /\ FillTime \in Nat
  BY OptionType, CapacityType, WaitLimited DEF Init
<1>2. tokens = Capacity /\ idle = 0 /\ stamps = <<>> /\ lock = <<>> /\ short \in BOOLEAN
  BY DEF Init
<1>3. admitted = [w \in Window |-> 0]
  BY DEF Init, Window
<1>4. 0 \in 0..opt.maxWait /\ 0 \in 0..(LongestWait + 1) /\ 0 \in 0..FillTime
  BY <1>1
<1>5. BucketType
  BY <1>1, <1>2, <1>3, <1>4 DEF BucketType
<1>6. CallType
  BY <1>2, <1>4 DEF Init, CallType, Phases
<1>7. TypeOK
  BY <1>1, <1>5, <1>6, TypeParts
<1>8. CASE ByTokens
  <2>1. Refilled \in 0..Capacity
    BY <1>7, RefilledType
  <2>2. ASSUME NEW w \in Window
        PROVE  admitted[w] * opt.interval + Refilled <= Capacity + w * opt.limit
    <3>1. w \in Nat /\ admitted[w] = 0
      BY <1>1, <1>3 DEF Window
    <3>2. w * opt.limit \in Nat /\ admitted[w] * opt.interval = 0
      BY <1>1, <3>1, Products
    <3>. QED  BY <1>1, <2>1, <3>2
  <2>. QED  BY <1>7, <1>8, <2>2 DEF Accounted, TokensAccounted
<1>9. CASE ~ByTokens
  <2>1. Len(stamps) = 0
    BY <1>2
  <2>2. \A w \in Window : admitted[w] = 0
    BY <1>3
  <2>. QED  BY <1>1, <1>7, <1>9, <2>1, <2>2 DEF Accounted, StampsAccounted
<1>. QED  BY <1>8, <1>9

\* The inductive invariant: the state is well formed and every admission of
\* the last interval is paid for.
THEOREM AdmissionsAccounted == Spec => [](TypeOK /\ Accounted)
<1>1. Init => TypeOK /\ Accounted
  BY InitAccounted
<1>2. TypeOK /\ Accounted /\ [Next]_vars => (TypeOK /\ Accounted)'
  BY TypeStep
<1>. QED  BY <1>1, <1>2, PTL DEF Spec

\* No step of any interleaving of calls, timers and aborts takes a variable
\* out of its type: tokens stay within the burst, waits within maxWaitMs.
THEOREM TypeCorrect == Spec => []TypeOK
BY AdmissionsAccounted, PTL

\* The promised rate: no window of up to intervalMs sees more admissions than
\* the burst and the refill of that window, or than limit for the sliding
\* window, whoever waits, sleeps or aborts in between.
THEOREM RateIsRespected == Spec => []RateRespected
<1>1. TypeOK /\ Accounted => RateRespected
  <2>. SUFFICES ASSUME TypeOK, Accounted, NEW w \in Window
                PROVE  IF ByTokens
                       THEN admitted[w] * opt.interval <= Capacity + w * opt.limit
                       ELSE admitted[w] <= opt.limit
    BY DEF RateRespected, Window
  <2>1. CASE ByTokens
    <3>1. /\ opt.interval \in Nat \ {0} /\ opt.limit \in Nat
          /\ Capacity \in Nat
          /\ admitted[w] \in Nat
      BY OptionType, CapacityType DEF TypeOK, Window
    <3>2. w \in Nat
      BY <3>1 DEF Window
    <3>3. admitted[w] * opt.interval \in Nat /\ w * opt.limit \in Nat
      BY <3>1, <3>2, Products
    <3>4. Refilled \in 0..Capacity
      BY <2>1, RefilledType
    <3>5. admitted[w] * opt.interval + Refilled <= Capacity + w * opt.limit
      BY <2>1 DEF Accounted, TokensAccounted
    <3>. QED  BY <2>1, <3>1, <3>3, <3>4, <3>5
  <2>2. CASE ~ByTokens
    BY <2>2 DEF Accounted, StampsAccounted
  <2>. QED  BY <2>1, <2>2
<1>. QED  BY <1>1, AdmissionsAccounted, PTL
-----------------------------------------------------------------------------
(* The lock of a key *)

\* A step of a call that does not wait, and does not start to.
LEMMA LockKept ==
    ASSUME LockIsWaiters, phase \in [Calls -> Phases], NEW c \in Calls, ~Waiting(c),
           NEW p, p \notin {"queued", "sleeping"},
           lock' = lock, phase' = [phase EXCEPT ![c] = p]
    PROVE  LockIsWaiters'
<1>1. \A d \in Calls : Waiting(d)' <=> Waiting(d)
  BY DEF Waiting
<1>2. \A i \in DOMAIN lock : lock[i] = c => FALSE
  BY DEF LockIsWaiters
<1>3. ASSUME NEW i \in DOMAIN lock, i > 1 PROVE phase'[lock[i]] = "queued"
  BY <1>2, <1>3 DEF LockIsWaiters
<1>. QED  BY <1>1, <1>3 DEF LockIsWaiters

\* Joining the chain.
LEMMA LockJoined ==
    ASSUME TypeOK, LockIsWaiters, NEW c \in Calls, Arrive(c)
    PROVE  LockIsWaiters'
<1>1. /\ lock \in Seq(Calls)
      /\ phase \in [Calls -> Phases]
      /\ lock' = Append(lock, c)
      /\ phase' = [phase EXCEPT ![c] = "queued"]
      /\ phase[c] = "idle"
  BY DEF TypeOK, Arrive
<1>2. /\ DOMAIN lock = 1..Len(lock) /\ Len(lock) \in Nat
      /\ DOMAIN lock' = 1..(Len(lock) + 1)
      /\ \A i \in 1..Len(lock) : lock'[i] = lock[i] /\ lock[i] \in Calls
      /\ lock'[Len(lock) + 1] = c
  BY <1>1
<1>3. \A i \in 1..Len(lock) : lock[i] # c
  BY <1>1, <1>2 DEF LockIsWaiters, Waiting
<1>4. \A i \in DOMAIN lock' : i \in 1..Len(lock) \/ i = Len(lock) + 1
  BY <1>2
<1>5. \A i, j \in DOMAIN lock' : lock'[i] = lock'[j] => i = j
  BY <1>2, <1>3, <1>4 DEF LockIsWaiters
<1>6. ASSUME NEW d \in Calls PROVE Waiting(d)' <=> \E i \in DOMAIN lock' : lock'[i] = d
  <2>1. CASE d = c
    <3>1. Waiting(d)'
      BY <1>1, <2>1 DEF Waiting
    <3>2. Len(lock) + 1 \in DOMAIN lock'
      BY <1>2
    <3>. QED  BY <1>2, <2>1, <3>1, <3>2
  <2>2. CASE d # c
    <3>1. Waiting(d)' <=> Waiting(d)
      BY <1>1, <2>2 DEF Waiting
    <3>2. Waiting(d) <=> \E i \in 1..Len(lock) : lock[i] = d
      BY <1>2 DEF LockIsWaiters
    <3>3. (\E i \in 1..Len(lock) : lock[i] = d) <=> \E i \in DOMAIN lock' : lock'[i] = d
      BY <1>2, <1>4, <2>2
    <3>. QED  BY <3>1, <3>2, <3>3
  <2>. QED  BY <2>1, <2>2
<1>7. ASSUME NEW i \in DOMAIN lock', i > 1 PROVE phase'[lock'[i]] = "queued"
  <2>1. CASE i = Len(lock) + 1
    BY <1>1, <1>2, <2>1
  <2>2. CASE i \in 1..Len(lock)
    BY <1>1, <1>2, <1>3, <1>7, <2>2 DEF LockIsWaiters
  <2>. QED  BY <1>4, <2>1, <2>2
<1>. QED  BY <1>5, <1>6, <1>7 DEF LockIsWaiters

\* Passing the lock on.
LEMMA LockPassed ==
    ASSUME TypeOK, LockIsWaiters, NEW c \in Calls, HasLock(c),
           NEW answer \in {"admitted", "rejected", "aborted"}, Leave(c, answer)
    PROVE  LockIsWaiters'
<1>1. /\ lock \in Seq(Calls)
      /\ lock # <<>>
      /\ lock[1] = c
      /\ phase \in [Calls -> Phases]
      /\ lock' = Tail(lock)
      /\ phase' = [phase EXCEPT ![c] = answer]
  BY DEF TypeOK, HasLock, Leave
<1>2. /\ DOMAIN lock = 1..Len(lock) /\ Len(lock) \in Nat /\ Len(lock) >= 1
      /\ DOMAIN lock' = 1..(Len(lock) - 1)
      /\ \A i \in 1..(Len(lock) - 1) : lock'[i] = lock[i + 1]
      /\ \A i \in 1..Len(lock) : lock[i] \in Calls
  BY <1>1
<1>3. \A i \in 1..(Len(lock) - 1) : i + 1 \in 1..Len(lock) /\ i + 1 # 1 /\ i + 1 > 1
  BY <1>2
<1>4. \A i \in 1..(Len(lock) - 1) : lock'[i] # c
  <2>. SUFFICES ASSUME NEW i \in 1..(Len(lock) - 1), lock'[i] = c PROVE FALSE
    OBVIOUS
  <2>1. 1 \in DOMAIN lock /\ i + 1 \in DOMAIN lock /\ i + 1 # 1
    BY <1>2, <1>3
  <2>2. lock[i + 1] = lock[1]
    BY <1>1, <1>2
  <2>. QED  BY <2>1, <2>2 DEF LockIsWaiters
<1>5. ASSUME NEW i \in DOMAIN lock', NEW j \in DOMAIN lock', lock'[i] = lock'[j] PROVE i = j
  <2>1. i + 1 \in DOMAIN lock /\ j + 1 \in DOMAIN lock
    BY <1>2, <1>3
  <2>2. lock[i + 1] = lock[j + 1]
    BY <1>2, <1>5
  <2>3. i + 1 = j + 1
    BY <2>1, <2>2 DEF LockIsWaiters
  <2>. QED  BY <1>2, <2>3
<1>6. ASSUME NEW d \in Calls PROVE Waiting(d)' <=> \E i \in DOMAIN lock' : lock'[i] = d
  <2>1. CASE d = c
    <3>1. ~Waiting(d)'
      BY <1>1, <2>1 DEF Waiting
    <3>. QED  BY <1>2, <1>4, <2>1, <3>1
  <2>2. CASE d # c
    <3>1. Waiting(d)' <=> Waiting(d)
      BY <1>1, <2>2 DEF Waiting
    <3>2. Waiting(d) <=> \E i \in 1..Len(lock) : lock[i] = d
      BY <1>2 DEF LockIsWaiters
    <3>3. ASSUME NEW i \in 1..Len(lock), lock[i] = d PROVE \E j \in DOMAIN lock' : lock'[j] = d
      <4>1. i # 1
        BY <1>1, <2>2, <3>3
      <4>2. i - 1 \in 1..(Len(lock) - 1) /\ (i - 1) + 1 = i
        BY <1>2, <4>1
      <4>. QED  BY <1>2, <3>3, <4>2
    <3>4. ASSUME NEW j \in DOMAIN lock', lock'[j] = d PROVE \E i \in 1..Len(lock) : lock[i] = d
      BY <1>2, <1>3, <3>4
    <3>. QED  BY <3>1, <3>2, <3>3, <3>4
  <2>. QED  BY <2>1, <2>2
<1>7. ASSUME NEW i \in DOMAIN lock', i > 1 PROVE phase'[lock'[i]] = "queued"
  <2>1. phase[lock[i + 1]] = "queued"
    BY <1>2, <1>3 DEF LockIsWaiters
  <2>2. lock'[i] = lock[i + 1] /\ lock'[i] # c /\ lock'[i] \in Calls
    BY <1>2, <1>3, <1>4
  <2>. QED  BY <1>1, <2>1, <2>2
<1>. QED  BY <1>5, <1>6, <1>7 DEF LockIsWaiters

\* The holder of the lock goes to sleep.
LEMMA LockSlept ==
    ASSUME TypeOK, LockIsWaiters, NEW c \in Calls, HasLock(c),
           lock' = lock, phase' = [phase EXCEPT ![c] = "sleeping"]
    PROVE  LockIsWaiters'
<1>1. /\ lock \in Seq(Calls)
      /\ lock # <<>>
      /\ lock[1] = c
      /\ phase \in [Calls -> Phases]
  BY DEF TypeOK, HasLock
<1>2. /\ DOMAIN lock = 1..Len(lock) /\ 1 \in 1..Len(lock)
      /\ \A i \in 1..Len(lock) : lock[i] \in Calls
  BY <1>1
<1>3. Waiting(c)
  BY <1>1, <1>2 DEF LockIsWaiters
<1>4. \A d \in Calls : Waiting(d)' <=> Waiting(d)
  BY <1>1, <1>3 DEF Waiting
<1>5. ASSUME NEW i \in DOMAIN lock, i > 1 PROVE phase'[lock[i]] = "queued"
  <2>1. lock[i] # c
    BY <1>1, <1>2, <1>5 DEF LockIsWaiters
  <2>. QED  BY <1>1, <1>2, <1>5, <2>1 DEF LockIsWaiters
<1>. QED  BY <1>4, <1>5 DEF LockIsWaiters

\* Every step keeps the lock chain and the waiting calls in agreement.
LEMMA LockStep ==
    ASSUME TypeOK, LockIsWaiters, [Next]_vars
    PROVE  LockIsWaiters'
<1>1. phase \in [Calls -> Phases]
  BY DEF TypeOK
<1>2. CASE UNCHANGED <<lock, phase>>
  BY <1>2 DEF LockIsWaiters, Waiting
<1>3. ASSUME NEW c \in Calls, AdmitNow(c) \/ RejectNow(c) \/ Return(c) PROVE LockIsWaiters'
  BY <1>1, <1>3, LockKept DEF AdmitNow, RejectNow, Return, Waiting
<1>4. ASSUME NEW c \in Calls, NEW left, HasLock(c), TryWith(c, left) PROVE LockIsWaiters'
  BY <1>4, LockPassed, LockSlept DEF TryWith, Sleep
<1>5. ASSUME NEW c \in Calls, Continue(c) PROVE LockIsWaiters'
  BY <1>4, <1>5, LockPassed DEF Continue, FirstTry, NextTry, Abort
<1>6. ASSUME NEW c \in Calls, Arrive(c) \/ Cancel(c) PROVE LockIsWaiters'
  BY <1>2, <1>6, LockJoined DEF Cancel
<1>. QED  BY <1>2, <1>3, <1>5, <1>6 DEF Next, Tick, vars

\* The lock chain is a queue of the waiting calls in which only the first
\* has begun to try: nothing is lost by an abort, a rejection or an admission.
THEOREM LockChain == Spec => []LockIsWaiters
<1>1. Init => LockIsWaiters
  BY DEF Init, LockIsWaiters, Waiting
<1>. QED  BY <1>1, LockStep, TypeCorrect, PTL DEF Spec
-----------------------------------------------------------------------------
(* Sleeping *)

\* What the holder of the lock waits for will be there when its timer ends:
\* nobody else touches the bucket meanwhile.  If the token was there already,
\* but for rounding, it sleeps for a millisecond, and more than the token will
\* be there.
SleepPlanned ==
    /\ lock # <<>> => opt.onLimit = "wait"
    /\ \A c \in Calls : phase[c] = "sleeping" =>
        IF ByTokens
        THEN /\ tokens + (idle + timer[c]) * opt.limit >= opt.interval
             /\ tokens >= opt.interval => timer[c] <= 1 /\ idle + timer[c] >= 1
        ELSE Len(stamps) \in 1..opt.limit /\ stamps[1] + timer[c] >= opt.interval

\* One distributes over a sum.
LEMMA Distributes ==
    ASSUME NEW x \in Nat, NEW z \in Nat, NEW y \in Nat
    PROVE  (x + z) * y = x * y + z * y /\ x * y \in Nat /\ z * y \in Nat
OBVIOUS

\* Only a call that holds the lock sleeps, and then no call is answered
\* without it.
LEMMA SleeperHolds ==
    ASSUME TypeOK, LockIsWaiters, NEW c \in Calls, phase[c] = "sleeping"
    PROVE  HasLock(c) /\ lock # <<>>
<1>1. lock \in Seq(Calls)
  BY DEF TypeOK
<1>2. PICK i \in DOMAIN lock : lock[i] = c
  BY DEF LockIsWaiters, Waiting
<1>3. ~(i > 1)
  BY <1>2 DEF LockIsWaiters
<1>4. i = 1 /\ lock # <<>>
  BY <1>1, <1>2, <1>3
<1>. QED  BY <1>1, <1>2, <1>4 DEF HasLock

\* A plan is kept when neither the bucket nor a timer is touched and no call
\* falls asleep.
LEMMA PlanKept ==
    ASSUME SleepPlanned, UNCHANGED <<opt, bucket, timer>>,
           lock' # <<>> => lock # <<>> \/ opt.onLimit = "wait",
           \A c \in Calls : phase'[c] = "sleeping" => phase[c] = "sleeping"
    PROVE  SleepPlanned'
BY DEF SleepPlanned, bucket, ByTokens

\* A round of the loop either ends the only sleep or plans it anew.
LEMMA PlanRenewed ==
    ASSUME TypeOK, Accounted, LockIsWaiters, SleepPlanned,
           NEW c \in Calls, NEW left \in 0..opt.maxWait, HasLock(c), TryWith(c, left)
    PROVE  SleepPlanned'
<1>1. /\ lock \in Seq(Calls)
      /\ phase \in [Calls -> Phases]
      /\ timer \in [Calls -> 0..opt.maxWait]
      /\ opt.limit \in Nat \ {0} /\ opt.interval \in Nat \ {0}
      /\ lock # <<>>
  BY OptionType DEF TypeOK, HasLock
<1>2. \A d \in Calls : phase[d] = "sleeping" => d = c
  BY <1>1, SleeperHolds DEF HasLock
<1>3. opt.onLimit = "wait"
  BY <1>1 DEF SleepPlanned
<1>4. ASSUME NEW answer \in {"admitted", "rejected"}, Leave(c, answer) PROVE SleepPlanned'
  <2>1. \A d \in Calls : phase'[d] # "sleeping"
    BY <1>1, <1>2, <1>4 DEF Leave
  <2>. QED  BY <1>3, <1>4, <2>1 DEF Leave, SleepPlanned
<1>5. ASSUME NEW below \in Rounded, ~Allowed(below), Refresh(below),
             NEW d \in RetryAfter, Sleep(c, d, left)
      PROVE  SleepPlanned'
  <2>1. /\ phase' = [phase EXCEPT ![c] = "sleeping"]
        /\ timer' = [timer EXCEPT ![c] = d]
        /\ opt' = opt /\ lock' = lock
    BY <1>5 DEF Sleep
  <2>2. /\ \A e \in Calls : phase'[e] = "sleeping" => e = c
        /\ timer'[c] = d
        /\ d \in Nat
        /\ ByTokens' = ByTokens
    BY <1>1, <1>2, <1>5, <2>1, RetryAfterReaches, OptionsFixed
  <2>3. CASE ByTokens
    <3>1. /\ Refilled + d * opt.limit >= opt.interval
          /\ d >= 1
          /\ Refilled >= opt.interval => d = 1
      BY <1>5, <2>3, RetryAfterReaches
    <3>2. tokens' = Refilled /\ idle' = 0 /\ idle' + timer'[c] = d
      BY <1>5, <2>2, <2>3 DEF Refresh
    <3>3. /\ tokens' + (idle' + timer'[c]) * opt'.limit >= opt'.interval
          /\ tokens' >= opt'.interval => timer'[c] <= 1 /\ idle' + timer'[c] >= 1
      BY <2>1, <2>2, <3>1, <3>2
    <3>. QED  BY <1>3, <2>1, <2>2, <2>3, <3>3 DEF SleepPlanned
  <2>4. CASE ~ByTokens
    <3>1. stamps' = Live /\ Len(Live) = opt.limit /\ Live[1] + d >= opt.interval
      BY <1>5, <2>4, RetryAfterReaches DEF Refresh
    <3>2. Len(stamps') \in 1..opt'.limit /\ stamps'[1] + timer'[c] >= opt'.interval
      BY <1>1, <2>1, <2>2, <3>1
    <3>. QED  BY <1>3, <2>1, <2>2, <2>4, <3>2 DEF SleepPlanned
  <2>. QED  BY <2>3, <2>4
<1>. QED  BY <1>4, <1>5 DEF TryWith

\* Time brings the permit as much closer as the end of the sleep.
LEMMA PlanTicks ==
    ASSUME TypeOK, SleepPlanned, Tick
    PROVE  SleepPlanned'
<1>1. /\ opt.limit \in Nat \ {0} /\ opt.interval \in Nat \ {0} /\ opt.maxWait \in Nat
      /\ tokens \in Nat /\ idle \in 0..FillTime
      /\ stamps \in Seq(0..opt.interval)
      /\ timer \in [Calls -> 0..opt.maxWait]
      /\ FillTime \in Nat \ {0} /\ Capacity \in Nat
      /\ Capacity >= opt.interval /\ FillTime * opt.limit >= Capacity
  BY OptionType, CapacityType DEF TypeOK
<1>2. opt' = opt /\ tokens' = tokens /\ lock' = lock /\ phase' = phase /\ ByTokens' = ByTokens
  BY OptionsFixed DEF Tick
<1>3. ASSUME NEW c \in Calls, phase[c] = "sleeping", ByTokens
      PROVE  /\ tokens' + (idle' + timer'[c]) * opt'.limit >= opt'.interval
             /\ tokens' >= opt'.interval => timer'[c] <= 1 /\ idle' + timer'[c] >= 1
  <2>1. /\ tokens + (idle + timer[c]) * opt.limit >= opt.interval
        /\ tokens >= opt.interval => timer[c] <= 1 /\ idle + timer[c] >= 1
    BY <1>3 DEF SleepPlanned
  <2>2. /\ timer[c] \in Nat /\ idle \in Nat
        /\ timer'[c] = IF timer[c] > 0 THEN timer[c] - 1 ELSE timer[c]
        /\ idle' = IF idle < FillTime THEN idle + 1 ELSE idle
    BY <1>1, <1>3 DEF Tick, Later, Sooner
  <2>3. /\ timer'[c] \in Nat /\ idle' \in Nat
        /\ idle' + timer'[c] >= idle + timer[c] \/ idle' = FillTime
    BY <1>1, <2>2
  <2>6. tokens' >= opt'.interval => timer'[c] <= 1 /\ idle' + timer'[c] >= 1
    BY <1>1, <1>2, <2>1, <2>2, <2>3
  <2>4. CASE idle' = FillTime
    <3>1. (FillTime + timer'[c]) * opt.limit = FillTime * opt.limit + timer'[c] * opt.limit
      BY <1>1, <2>3, Distributes
    <3>2. FillTime * opt.limit \in Nat /\ timer'[c] * opt.limit \in Nat
      BY <1>1, <2>3, Distributes
    <3>3. (idle' + timer'[c]) * opt.limit >= opt.interval
      BY <1>1, <2>4, <3>1, <3>2
    <3>4. (idle' + timer'[c]) * opt.limit \in Nat
      BY <2>4, <3>1, <3>2
    <3>. QED  BY <1>1, <1>2, <2>6, <3>3, <3>4
  <2>5. CASE idle' + timer'[c] >= idle + timer[c]
    <3>1. PICK n \in Nat : idle' + timer'[c] = (idle + timer[c]) + n
      <4>1. (idle' + timer'[c]) - (idle + timer[c]) \in Nat
        BY <2>2, <2>3, <2>5
      <4>. QED  BY <2>2, <2>3, <4>1
    <3>2. PICK u \in Nat : u = idle + timer[c]
      BY <2>2
    <3>3. /\ (u + n) * opt.limit = u * opt.limit + n * opt.limit
          /\ u * opt.limit \in Nat /\ n * opt.limit \in Nat
      <4>1. opt.limit \in Nat
        BY <1>1
      <4>. QED  BY <4>1, Distributes
    <3>4. tokens + u * opt.limit >= opt.interval
      BY <2>1, <3>2
    <3>5. tokens + (u + n) * opt.limit >= opt.interval
      <4>1. PICK x, y : x = u * opt.limit /\ y = n * opt.limit
        OBVIOUS
      <4>2. x \in Nat /\ y \in Nat /\ tokens + x >= opt.interval
        BY <3>3, <3>4, <4>1
      <4>3. tokens + (x + y) >= opt.interval
        BY <1>1, <4>2
      <4>4. (u + n) * opt.limit = x + y
        BY <3>3, <4>1
      <4>. QED  BY <4>3, <4>4
    <3>. QED  BY <1>2, <2>6, <3>1, <3>2, <3>5
  <2>. QED  BY <2>3, <2>4, <2>5, <2>6
<1>4. ASSUME NEW c \in Calls, phase[c] = "sleeping", ~ByTokens
      PROVE  Len(stamps') \in 1..opt'.limit /\ stamps'[1] + timer'[c] >= opt'.interval
  <2>1. Len(stamps) \in 1..opt.limit /\ stamps[1] + timer[c] >= opt.interval
    BY <1>4 DEF SleepPlanned
  <2>2. /\ DOMAIN stamps = 1..Len(stamps)
        /\ 1 \in 1..Len(stamps)
        /\ stamps[1] \in 0..opt.interval
    <3>1. /\ Len(stamps) \in Nat
          /\ DOMAIN stamps = 1..Len(stamps)
          /\ \A i \in 1..Len(stamps) : stamps[i] \in 0..opt.interval
      BY <1>1, SeqElements
    <3>2. 1 \in 1..Len(stamps)
      BY <1>1, <2>1
    <3>. QED  BY <3>1, <3>2
  <2>3. stamps' = [i \in 1..Len(stamps) |-> Later(stamps[i], opt.interval)]
    BY <2>2 DEF Tick
  <2>4. Len(stamps') = Len(stamps)
    BY <1>1, <2>3
  <2>5. stamps'[1] = IF stamps[1] < opt.interval THEN stamps[1] + 1 ELSE stamps[1]
    BY <2>2, <2>3 DEF Later
  <2>6. /\ timer[c] \in Nat
        /\ timer'[c] = IF timer[c] > 0 THEN timer[c] - 1 ELSE 0
    BY <1>1, <1>4 DEF Tick, Sooner
  <2>7. stamps'[1] + timer'[c] >= opt.interval
    BY <1>1, <2>1, <2>2, <2>5, <2>6
  <2>. QED  BY <1>2, <2>1, <2>4, <2>7
<1>. QED  BY <1>2, <1>3, <1>4 DEF SleepPlanned

\* Every step keeps the plan of the sleeping call.
LEMMA PlanStep ==
    ASSUME TypeOK, Accounted, LockIsWaiters, SleepPlanned, [Next]_vars
    PROVE  SleepPlanned'
<1>1. /\ phase \in [Calls -> Phases]
      /\ lock \in Seq(Calls)
      /\ opt.maxWait \in 0..opt.maxWait
      /\ \A c \in Calls : budget[c] \in 0..opt.maxWait
  BY OptionType DEF TypeOK
<1>2. CASE UNCHANGED vars
  BY <1>2, PlanKept DEF vars, sleepers
<1>3. CASE Tick
  BY <1>3, PlanTicks
<1>4. ASSUME NEW c \in Calls, AdmitNow(c) \/ RejectNow(c) PROVE SleepPlanned'
  <2>1. lock' = lock /\ opt' = opt /\ opt.onLimit = "reject"
    BY <1>4 DEF AdmitNow, RejectNow
  <2>2. lock = <<>>
    BY <2>1 DEF SleepPlanned
  <2>3. \A d \in Calls : phase[d] # "sleeping"
    BY <2>2, SleeperHolds
  <2>4. \A d \in Calls : phase'[d] # "sleeping"
    BY <1>1, <1>4, <2>3 DEF AdmitNow, RejectNow
  <2>. QED  BY <2>1, <2>2, <2>4 DEF SleepPlanned
<1>5. ASSUME NEW c \in Calls, Arrive(c) \/ Cancel(c) \/ Return(c) PROVE SleepPlanned'
  <2>1. UNCHANGED <<opt, bucket, timer>>
    BY <1>5 DEF Arrive, Cancel, Return, sleepers
  <2>2. lock' # <<>> => lock # <<>> \/ opt.onLimit = "wait"
    BY <1>5 DEF Arrive, Cancel, Return
  <2>3. \A d \in Calls : phase'[d] = "sleeping" => phase[d] = "sleeping"
    BY <1>1, <1>5 DEF Arrive, Cancel, Return
  <2>. QED  BY <2>1, <2>2, <2>3, PlanKept
<1>6. ASSUME NEW c \in Calls, FirstTry(c) \/ NextTry(c) PROVE SleepPlanned'
  BY <1>1, <1>6, PlanRenewed DEF FirstTry, NextTry
<1>7. ASSUME NEW c \in Calls, Abort(c) PROVE SleepPlanned'
  <2>1. HasLock(c) /\ lock # <<>> /\ opt' = opt
    BY <1>7 DEF Abort, HasLock, Leave
  <2>2. \A d \in Calls : phase[d] = "sleeping" => d = c
    BY <2>1, SleeperHolds DEF HasLock
  <2>3. \A d \in Calls : phase'[d] # "sleeping"
    BY <1>1, <1>7, <2>2 DEF Abort, Leave
  <2>. QED  BY <2>1, <2>3 DEF SleepPlanned
<1>. QED  BY <1>2, <1>3, <1>4, <1>5, <1>6, <1>7 DEF Next, Continue

\* What a call is told to sleep is enough for a sliding window to admit it and
\* for a token bucket to refill a whole token, for any rate, burst and
\* interval.  The doubles of a token bucket may refuse that token to the call
\* that wakes up, but only once: after one millisecond more it is admitted.
THEOREM SleepsSuffice == Spec => []SleepSuffices
<1>1. Init => SleepPlanned
  BY DEF Init, SleepPlanned
<1>2. Spec => []SleepPlanned
  BY <1>1, PlanStep, AdmissionsAccounted, LockChain, PTL DEF Spec
<1>3. TypeOK /\ Accounted /\ SleepPlanned => SleepSuffices
  <2>. SUFFICES ASSUME TypeOK, Accounted, SleepPlanned,
                       NEW c \in Calls, phase[c] = "sleeping"
                PROVE  /\ timer[c] = 0 /\ ByTokens => Refilled >= opt.interval
                       /\ ByTokens /\ tokens >= opt.interval => timer[c] <= 1
                       /\ timer[c] = 0 /\ (ByTokens => tokens >= opt.interval) =>
                            \A below \in Rounded : Allowed(below)
    BY DEF SleepSuffices
  <2>1. /\ opt.limit \in Nat \ {0} /\ opt.interval \in Nat \ {0}
        /\ Capacity \in Nat /\ Capacity >= opt.interval
        /\ idle \in Nat /\ tokens \in Nat /\ timer[c] \in Nat
    BY OptionType, CapacityType DEF TypeOK
  <2>2. CASE ByTokens
    <3>1. /\ tokens + (idle + timer[c]) * opt.limit >= opt.interval
          /\ tokens >= opt.interval => timer[c] <= 1 /\ idle + timer[c] >= 1
      BY <2>2 DEF SleepPlanned
    <3>2. ASSUME timer[c] = 0
          PROVE  tokens + idle * opt.limit >= opt.interval /\ Refilled >= opt.interval
      <4>1. idle + timer[c] = idle
        BY <2>1, <3>2
      <4>2. tokens + idle * opt.limit >= opt.interval
        BY <3>1, <4>1
      <4>. QED  BY <2>1, <4>2, RefilledType
    <3>3. ASSUME timer[c] = 0, tokens >= opt.interval, NEW below \in Rounded
          PROVE  Allowed(below)
      <4>1. idle # 0 /\ idle * opt.limit \in Nat /\ idle * opt.limit >= 1
        <5>1. PICK n \in Nat : idle = n + 1
          <6>1. idle - 1 \in Nat /\ idle = (idle - 1) + 1
            BY <2>1, <3>1, <3>3
          <6>. QED  BY <6>1
        <5>2. (n + 1) * opt.limit = n * opt.limit + opt.limit /\ n * opt.limit \in Nat
          BY <2>1, Products
        <5>. QED  BY <2>1, <5>1, <5>2
      <4>2. tokens + idle * opt.limit > opt.interval
        BY <2>1, <3>3, <4>1
      <4>3. CASE tokens + idle * opt.limit > Capacity
        <5>1. ~below
          BY <2>2, <4>1, <4>3, RoundedType
        <5>. QED  BY <2>2, <3>2, <3>3, <5>1 DEF Allowed
      <4>4. CASE ~(tokens + idle * opt.limit > Capacity)
        <5>1. Refilled = tokens + idle * opt.limit
          <6>1. PICK x : x = idle * opt.limit
            OBVIOUS
          <6>2. x \in Nat /\ tokens + x \in Nat /\ ~(tokens + x > Capacity)
            BY <2>1, <4>1, <4>4, <6>1
          <6>3. Refilled = IF tokens + x < Capacity THEN tokens + x ELSE Capacity
            BY <6>1 DEF Refilled, AtMost
          <6>. QED  BY <2>1, <6>1, <6>2, <6>3
        <5>. QED  BY <2>1, <2>2, <4>1, <4>2, <5>1 DEF Allowed
      <4>. QED  BY <4>3, <4>4
    <3>4. timer[c] = 0 /\ tokens >= opt.interval => \A below \in Rounded : Allowed(below)
      BY <3>3
    <3>. QED  BY <2>2, <3>1, <3>2, <3>4
  <2>3. CASE ~ByTokens
    <3>1. Len(stamps) \in 1..opt.limit /\ stamps[1] + timer[c] >= opt.interval
      BY <2>3 DEF SleepPlanned
    <3>2. /\ Expired \in 0..Len(stamps)
          /\ Len(Live) = Len(stamps) - Expired
          /\ \A i \in 1..Len(Live) : Live[i] = stamps[i + Expired] /\ Live[i] < opt.interval
      BY <2>3, LiveStamps DEF Accounted
    <3>3. stamps[1] \in Nat
      <4>1. stamps \in Seq(0..opt.interval)
        BY DEF TypeOK
      <4>2. 1 \in 1..Len(stamps)
        BY <2>1, <3>1
      <4>3. stamps[1] \in 0..opt.interval
        BY <4>1, <4>2, SeqElements
      <4>. QED  BY <2>1, <4>3
    <3>4. timer[c] = 0 => Expired # 0
      BY <2>1, <3>1, <3>2, <3>3
    <3>5. ASSUME timer[c] = 0, NEW below \in Rounded PROVE Allowed(below)
      BY <2>1, <2>3, <3>1, <3>2, <3>4, <3>5 DEF Allowed
    <3>. QED  BY <2>3, <3>5
  <2>. QED  BY <2>2, <2>3
<1>. QED  BY <1>2, <1>3, AdmissionsAccounted, PTL
-----------------------------------------------------------------------------
(* Waiting in line *)

\* What is left of the wait of the call that holds the lock.
HolderWait == IF phase[lock[1]] = "sleeping" THEN budget[lock[1]] ELSE opt.maxWait

\* A call in line has waited no longer than those before it can have taken
\* since it arrived: each of them may still take maxWait, and the holder of
\* the lock what is left to it.
WaitsPlanned ==
    /\ \A c \in Calls : ~Waiting(c) => waited[c] = 0
    /\ \A c \in Calls : phase[c] = "sleeping" => timer[c] <= budget[c]
    /\ \A i \in DOMAIN lock :
        waited[lock[i]] + HolderWait + (i - 1) * opt.maxWait <= LongestWait

\* A place in line is a multiple of the wait of one call.
LEMMA Places ==
    ASSUME NEW m \in Nat, NEW i \in Nat, NEW n \in Nat, i <= n
    PROVE  i * m \in Nat /\ i * m <= n * m /\ (i + 1) * m = i * m + m
<1>1. PICK k \in Nat : n = i + k
  <2>1. n - i \in Nat /\ n = i + (n - i)
    OBVIOUS
  <2>. QED  BY <2>1
<1>2. (i + k) * m = i * m + k * m /\ i * m \in Nat /\ k * m \in Nat
  BY Distributes
<1>3. (i + 1) * m = i * m + 1 * m /\ 1 * m = m
  BY Distributes
<1>. QED  BY <1>1, <1>2, <1>3

\* No more calls are in line than there are.
LEMMA LineIsShort ==
    ASSUME NEW s \in Seq(Calls), \A i, j \in DOMAIN s : s[i] = s[j] => i = j
    PROVE  Len(s) <= Cardinality(Calls) /\ Cardinality(Calls) \in Nat
<1>1. s \in [1..Len(s) -> Calls] /\ Len(s) \in Nat
  OBVIOUS
<1>2. s \in Injection(1..Len(s), Calls)
  BY <1>1 DEF Injection, IsInjective
<1>3. Cardinality(1..Len(s)) <= Cardinality(Calls)
  BY <1>2, LimiterAssumption, FS_Injection
<1>4. Cardinality(1..Len(s)) = Len(s)
  <2>1. 1 \in Int /\ Len(s) \in Int
    BY <1>1
  <2>2. Cardinality(1..Len(s)) = IF 1 > Len(s) THEN 0 ELSE Len(s) - 1 + 1
    BY <2>1, FS_Interval
  <2>. QED  BY <1>1, <2>2
<1>. QED  BY <1>3, <1>4, LimiterAssumption, FS_CardinalityType

\* The calls up to a place in line can wait for LongestWait at most.
LEMMA PlaceInLine ==
    ASSUME NEW m \in Nat, NEW s \in Seq(Calls), \A i, j \in DOMAIN s : s[i] = s[j] => i = j,
           NEW i \in DOMAIN s
    PROVE  /\ (i - 1) * m \in Nat
           /\ i * m = (i - 1) * m + m
           /\ i * m <= Cardinality(Calls) * m
<1>1. i - 1 \in Nat /\ i \in Nat /\ i <= Cardinality(Calls) /\ Cardinality(Calls) \in Nat
  BY LineIsShort
<1>2. i * m <= Cardinality(Calls) * m
  BY <1>1, Places
<1>3. PICK j \in Nat : j = i - 1
  BY <1>1
<1>4. j * m \in Nat /\ (j + 1) * m = j * m + m
  BY Places
<1>5. j + 1 = i
  BY <1>1, <1>3
<1>. QED  BY <1>2, <1>3, <1>4, <1>5

\* What the lemmas about the line need of the types.
LEMMA LineType ==
    ASSUME TypeOK, LockIsWaiters
    PROVE  /\ opt.maxWait \in Nat /\ LongestWait \in Nat
           /\ DOMAIN lock = 1..Len(lock) /\ Len(lock) \in Nat
           /\ \A i \in DOMAIN lock : /\ lock[i] \in Calls
                                     /\ (i - 1) * opt.maxWait \in Nat
                                     /\ i * opt.maxWait = (i - 1) * opt.maxWait + opt.maxWait
                                     /\ i * opt.maxWait <= LongestWait
                                     /\ HolderWait \in 0..opt.maxWait
           /\ \A c \in Calls : budget[c] \in 0..opt.maxWait /\ timer[c] \in Nat /\ waited[c] \in Nat
<1>1. opt.maxWait \in Nat /\ LongestWait \in Nat
  BY OptionType, WaitLimited DEF TypeOK
<1>2. lock \in Seq(Calls)
  BY DEF TypeOK
<1>3. \A i, j \in DOMAIN lock : lock[i] = lock[j] => i = j
  BY DEF LockIsWaiters
<1>4. ASSUME NEW c \in Calls
      PROVE  budget[c] \in 0..opt.maxWait /\ timer[c] \in Nat /\ waited[c] \in Nat
  BY <1>1 DEF TypeOK
<1>5. ASSUME NEW i \in DOMAIN lock PROVE HolderWait \in 0..opt.maxWait
  <2>1. 1 \in DOMAIN lock
    BY <1>2
  <2>2. lock[1] \in Calls
    BY <1>2, <2>1
  <2>. QED  BY <1>1, <1>4, <2>2 DEF HolderWait
<1>6. ASSUME NEW i \in DOMAIN lock
      PROVE  /\ (i - 1) * opt.maxWait \in Nat
             /\ i * opt.maxWait = (i - 1) * opt.maxWait + opt.maxWait
             /\ i * opt.maxWait <= LongestWait
  BY <1>1, <1>2, <1>3, PlaceInLine DEF LongestWait
<1>. QED  BY <1>1, <1>2, <1>4, <1>5, <1>6

\* A call joins the line behind those that are in it.
LEMMA WaitsJoined ==
    ASSUME TypeOK, LockIsWaiters, WaitsPlanned, (TypeOK /\ LockIsWaiters)',
           NEW c \in Calls, Arrive(c)
    PROVE  WaitsPlanned'
<1>1. /\ lock \in Seq(Calls)
      /\ phase \in [Calls -> Phases]
      /\ lock' = Append(lock, c) /\ phase' = [phase EXCEPT ![c] = "queued"]
      /\ phase[c] = "idle" /\ opt' = opt
      /\ budget' = budget /\ timer' = timer /\ waited' = waited
  BY DEF TypeOK, Arrive, sleepers
<1>2. waited[c] = 0 /\ ~Waiting(c)
  BY <1>1 DEF WaitsPlanned, Waiting
<1>3. \A i \in DOMAIN lock : lock[i] # c
  BY <1>2 DEF LockIsWaiters
<1>4. /\ DOMAIN lock' = 1..(Len(lock) + 1) /\ Len(lock) \in Nat /\ DOMAIN lock = 1..Len(lock)
      /\ \A i \in 1..Len(lock) : lock'[i] = lock[i] /\ lock[i] \in Calls
      /\ lock'[Len(lock) + 1] = c
  BY <1>1
<1>5. LongestWait' = LongestWait
  BY <1>1 DEF LongestWait
<1>9. lock' \in Seq(Calls) /\ \A i, j \in DOMAIN lock' : lock'[i] = lock'[j] => i = j
  BY DEF TypeOK, LockIsWaiters
<1>6. ASSUME NEW i \in DOMAIN lock'
      PROVE  waited'[lock'[i]] + HolderWait' + (i - 1) * opt'.maxWait <= LongestWait'
  <2>1. CASE i \in 1..Len(lock)
    <3>1. HolderWait' = HolderWait
      <4>1. 1 \in 1..Len(lock)
        BY <1>4, <2>1
      <4>. QED  BY <1>1, <1>3, <1>4, <4>1 DEF HolderWait
    <3>. QED  BY <1>1, <1>4, <1>5, <2>1, <3>1 DEF WaitsPlanned
  <2>2. CASE i = Len(lock) + 1
    <3>1. HolderWait' \in 0..opt.maxWait
      <4>1. lock'[1] \in Calls
        <5>1. 1 \in DOMAIN lock'
          BY <1>4
        <5>. QED  BY <1>9, <5>1
      <4>. QED  BY <1>1, <4>1, LineType DEF HolderWait
    <3>2. /\ (i - 1) * opt.maxWait \in Nat /\ opt.maxWait \in Nat
          /\ (i - 1) * opt.maxWait + opt.maxWait <= LongestWait /\ LongestWait \in Nat
      <4>1. opt.maxWait \in Nat
        BY LineType
      <4>2. /\ (i - 1) * opt.maxWait \in Nat
            /\ i * opt.maxWait = (i - 1) * opt.maxWait + opt.maxWait
            /\ i * opt.maxWait <= Cardinality(Calls) * opt.maxWait
        BY <1>9, <4>1, PlaceInLine
      <4>. QED  BY <4>1, <4>2, LineType DEF LongestWait
    <3>3. waited'[lock'[i]] = 0
      BY <1>1, <1>2, <1>4, <2>2
    <3>. QED  BY <1>1, <1>5, <3>1, <3>2, <3>3
  <2>. QED  BY <1>4, <2>1, <2>2
<1>7. \A d \in Calls : (~Waiting(d))' => waited'[d] = 0
  BY <1>1 DEF WaitsPlanned, Waiting
<1>8. \A d \in Calls : phase'[d] = "sleeping" => timer'[d] <= budget'[d]
  BY <1>1 DEF WaitsPlanned
<1>. QED  BY <1>6, <1>7, <1>8 DEF WaitsPlanned

\* The holder leaves, and everybody moves up one place.
LEMMA WaitsPassed ==
    ASSUME TypeOK, LockIsWaiters, WaitsPlanned, (TypeOK /\ LockIsWaiters)',
           NEW c \in Calls, HasLock(c),
           NEW answer \in {"admitted", "rejected", "aborted"}, Leave(c, answer)
    PROVE  WaitsPlanned'
<1>1. /\ lock \in Seq(Calls) /\ lock # <<>> /\ lock[1] = c
      /\ phase \in [Calls -> Phases]
      /\ waited \in [Calls -> 0..(LongestWait + 1)]
      /\ budget \in [Calls -> 0..opt.maxWait] /\ timer \in [Calls -> 0..opt.maxWait]
      /\ lock' = Tail(lock) /\ phase' = [phase EXCEPT ![c] = answer] /\ opt' = opt
      /\ waited' = [waited EXCEPT ![c] = 0]
      /\ budget' = [budget EXCEPT ![c] = 0] /\ timer' = [timer EXCEPT ![c] = 0]
  BY DEF TypeOK, HasLock, Leave
<1>2. /\ DOMAIN lock = 1..Len(lock) /\ Len(lock) \in Nat /\ 1 \in DOMAIN lock
      /\ DOMAIN lock' = 1..(Len(lock) - 1)
      /\ \A i \in DOMAIN lock' : i + 1 \in DOMAIN lock /\ lock'[i] = lock[i + 1] /\ i + 1 > 1
  BY <1>1
<1>3. LongestWait' = LongestWait
  BY <1>1 DEF LongestWait
<1>4. ASSUME NEW i \in DOMAIN lock'
      PROVE  waited'[lock'[i]] + HolderWait' + (i - 1) * opt'.maxWait <= LongestWait'
  <2>1. /\ lock'[i] # c /\ lock'[i] \in Calls
        /\ phase'[lock'[1]] = "queued"
    <3>1. 1 \in DOMAIN lock'
      BY <1>2
    <3>2. lock'[1] # c /\ lock'[1] \in Calls /\ lock'[i] # c /\ lock'[i] \in Calls
      <4>1. ASSUME NEW j \in DOMAIN lock' PROVE lock'[j] # c /\ lock'[j] \in Calls
        <5>1. PICK k \in DOMAIN lock : k = j + 1 /\ k # 1
          BY <1>2
        <5>2. lock'[j] = lock[k]
          BY <1>2, <5>1
        <5>3. lock[k] \in Calls
          BY <1>1, <1>2
        <5>4. lock[k] # lock[1]
          BY <1>2, <5>1 DEF LockIsWaiters
        <5>. QED  BY <1>1, <5>2, <5>3, <5>4
      <4>. QED  BY <3>1, <4>1
    <3>3. phase[lock'[1]] = "queued"
      BY <1>2, <3>1 DEF LockIsWaiters
    <3>. QED  BY <1>1, <3>2, <3>3
  <2>2. waited'[lock'[i]] = waited[lock[i + 1]] /\ HolderWait' = opt.maxWait
    BY <1>1, <1>2, <2>1 DEF HolderWait
  <2>3. waited[lock[i + 1]] + HolderWait + i * opt.maxWait <= LongestWait
    <3>1. PICK k \in DOMAIN lock : k = i + 1
      BY <1>2
    <3>2. waited[lock[k]] + HolderWait + (k - 1) * opt.maxWait <= LongestWait
      BY DEF WaitsPlanned
    <3>3. k - 1 = i
      BY <1>2, <3>1
    <3>. QED  BY <3>1, <3>2, <3>3
  <2>4. HolderWait \in Nat
    BY <1>2, LineType
  <2>5. /\ i * opt.maxWait = (i - 1) * opt.maxWait + opt.maxWait
        /\ (i - 1) * opt.maxWait \in Nat /\ opt.maxWait \in Nat /\ LongestWait \in Nat
        /\ waited[lock[i + 1]] \in Nat
    <3>1. i \in DOMAIN lock
      BY <1>2
    <3>. QED  BY <1>2, <3>1, LineType
  <2>6. opt' = opt
    BY <1>1
  <2> DEFINE w == waited[lock[i + 1]]
             m == opt.maxWait
             p == (i - 1) * opt.maxWait
  <2>7. w + m + p <= LongestWait
    <3>1. w + HolderWait + (p + m) <= LongestWait /\ w \in Nat /\ p \in Nat /\ m \in Nat
      BY <2>3, <2>5
    <3> HIDE DEF w, m, p
    <3>. QED  BY <2>4, <2>5, <3>1
  <2>. QED  BY <1>3, <2>2, <2>6, <2>7
<1>5. \A d \in Calls : (~Waiting(d))' => waited'[d] = 0
  BY <1>1 DEF WaitsPlanned, Waiting
<1>6. \A d \in Calls : phase'[d] = "sleeping" => timer'[d] <= budget'[d]
  BY <1>1 DEF WaitsPlanned
<1>. QED  BY <1>4, <1>5, <1>6 DEF WaitsPlanned

\* The holder goes to sleep for no longer than it may still wait.
LEMMA WaitsSlept ==
    ASSUME TypeOK, LockIsWaiters, WaitsPlanned,
           NEW c \in Calls, HasLock(c),
           NEW left \in 0..opt.maxWait, left <= HolderWait,
           NEW delay, delay <= left, Sleep(c, delay, left)
    PROVE  WaitsPlanned'
<1>1. /\ lock \in Seq(Calls) /\ lock # <<>> /\ lock[1] = c
      /\ phase \in [Calls -> Phases]
      /\ budget \in [Calls -> 0..opt.maxWait] /\ timer \in [Calls -> 0..opt.maxWait]
      /\ phase' = [phase EXCEPT ![c] = "sleeping"]
      /\ timer' = [timer EXCEPT ![c] = delay]
      /\ budget' = [budget EXCEPT ![c] = left]
      /\ UNCHANGED <<opt, lock, waited>>
  BY DEF TypeOK, HasLock, Sleep
<1>2. LongestWait' = LongestWait /\ HolderWait' = left
  BY <1>1 DEF LongestWait, HolderWait
<1>3. Waiting(c)
  <2>1. 1 \in DOMAIN lock
    BY <1>1
  <2>. QED  BY <1>1, <2>1 DEF LockIsWaiters
<1>4. \A d \in Calls : (~Waiting(d))' => waited'[d] = 0
  BY <1>1, <1>3 DEF WaitsPlanned, Waiting
<1>5. \A d \in Calls : phase'[d] = "sleeping" => timer'[d] <= budget'[d]
  BY <1>1 DEF WaitsPlanned
<1>6. ASSUME NEW i \in DOMAIN lock'
      PROVE  waited'[lock'[i]] + HolderWait' + (i - 1) * opt'.maxWait <= LongestWait'
  <2>1. /\ waited[lock[i]] \in Nat /\ (i - 1) * opt.maxWait \in Nat
        /\ LongestWait \in Nat /\ HolderWait \in Nat
    <3>1. 1 \in DOMAIN lock
      BY <1>1
    <3>. QED  BY <1>1, <3>1, LineType
  <2>. DEFINE p == (i - 1) * opt.maxWait
  <2>2. waited[lock[i]] + HolderWait + p <= LongestWait
    BY <1>1 DEF WaitsPlanned
  <2>3. /\ waited'[lock'[i]] = waited[lock[i]] /\ (i - 1) * opt'.maxWait = p
        /\ HolderWait' \in Nat /\ HolderWait' <= HolderWait
    BY <1>1, <1>2
  <2>4. waited[lock[i]] \in Nat /\ p \in Nat /\ LongestWait \in Nat /\ HolderWait \in Nat
    BY <2>1
  <2>. HIDE DEF p
  <2>5. waited[lock[i]] + HolderWait' + p <= LongestWait
    BY <2>2, <2>3, <2>4
  <2>. QED  BY <1>2, <2>3, <2>5
<1>. QED  BY <1>4, <1>5, <1>6 DEF WaitsPlanned

\* A wait grows by one at most when what the holder has left shrinks by one.
LEMMA OneLonger ==
    ASSUME NEW w \in Nat, NEW h \in Nat, NEW p \in Nat, NEW l \in Nat, w + h + p <= l,
           NEW w1, w1 \in {w, w + 1}, NEW h1 \in Nat,
           \/ w1 = w /\ h1 <= h
           \/ h1 = h - 1
    PROVE  w1 + h1 + p <= l
  OBVIOUS

\* Time runs for those in line as it runs for the holder; if it holds the
\* lock and does not sleep, a punctual loop lets no time pass.
LEMMA WaitsTick ==
    ASSUME TypeOK, LockIsWaiters, WaitsPlanned, Tick
    PROVE  WaitsPlanned'
<1>1. /\ phase \in [Calls -> Phases] /\ lock \in Seq(Calls)
      /\ UNCHANGED <<opt, lock, phase, cancelled>>
      /\ budget' = [d \in Calls |-> Sooner(budget[d])]
      /\ timer' = [d \in Calls |-> Sooner(timer[d])]
      /\ waited' = [d \in Calls |->
                      IF opt.punctual /\ Waiting(d) THEN Later(waited[d], LongestWait + 1)
                      ELSE waited[d]]
      /\ opt.punctual => ~Due
  BY DEF TypeOK, Tick
<1>2. \A d \in Calls : waited'[d] \in {waited[d], waited[d] + 1}
                       /\ (~Waiting(d) \/ ~opt.punctual => waited'[d] = waited[d])
  BY <1>1 DEF Later
<1>3. \A d \in Calls : (~Waiting(d))' => waited'[d] = 0
  BY <1>1, <1>2 DEF WaitsPlanned, Waiting
<1>4. \A d \in Calls : phase'[d] = "sleeping" => timer'[d] <= budget'[d]
  BY <1>1, LineType DEF WaitsPlanned, Sooner
<1>5. ASSUME NEW i \in DOMAIN lock'
      PROVE  waited'[lock'[i]] + HolderWait' + (i - 1) * opt'.maxWait <= LongestWait'
  <2> DEFINE h == lock[1]
  <2>1. /\ waited[lock[i]] \in Nat /\ (i - 1) * opt.maxWait \in Nat
        /\ LongestWait \in Nat /\ HolderWait \in Nat
        /\ h \in Calls /\ lock[i] \in Calls /\ opt.maxWait \in Nat
        /\ budget[h] \in Nat /\ timer[h] \in Nat
    <3>1. 1 \in DOMAIN lock
      BY <1>1
    <3>. QED  BY <1>1, <3>1, LineType
  <2>2. waited[lock[i]] + HolderWait + (i - 1) * opt.maxWait <= LongestWait
    BY <1>1 DEF WaitsPlanned
  <2>3. LongestWait' = LongestWait /\ (i - 1) * opt'.maxWait = (i - 1) * opt.maxWait
    BY <1>1 DEF LongestWait
  <2>4. HolderWait' <= HolderWait /\ HolderWait' \in Nat
    BY <1>1, <2>1 DEF HolderWait, Sooner
  <2>w. waited'[lock'[i]] = waited'[lock[i]] /\ waited'[lock[i]] \in {waited[lock[i]], waited[lock[i]] + 1}
    BY <1>1, <1>2, <2>1
  <2>p. ASSUME waited'[lock[i]] = waited[lock[i]] \/ HolderWait' = HolderWait - 1
        PROVE  waited'[lock'[i]] + HolderWait' + (i - 1) * opt'.maxWait <= LongestWait'
    <3> DEFINE p == (i - 1) * opt.maxWait
               h0 == HolderWait
               h1 == HolderWait'
               l == LongestWait
               w0 == waited[lock[i]]
               w1 == waited'[lock[i]]
    <3>1. /\ w0 \in Nat /\ h0 \in Nat /\ p \in Nat /\ l \in Nat /\ w0 + h0 + p <= l
          /\ h1 \in Nat /\ h1 <= h0
      BY <2>1, <2>2, <2>4
    <3>2. w1 \in {w0, w0 + 1} /\ (w1 = w0 \/ h1 = h0 - 1)
      BY <2>w, <2>p
    <3> HIDE DEF p, h0, h1, l, w0, w1
    <3>3. w1 + h1 + p <= l
      BY <3>1, <3>2, OneLonger
    <3>. QED  BY <2>3, <2>w, <3>3 DEF p, h1, l, w1
  <2>5. CASE ~opt.punctual
    <3>1. waited'[lock[i]] = waited[lock[i]]
      BY <1>2, <2>1, <2>5
    <3>. QED  BY <2>p, <3>1
  <2>6. CASE opt.punctual
    <3>1. HasLock(h)
      BY <1>1 DEF HasLock
    <3>2. phase[h] = "sleeping" /\ timer[h] # 0
      <4>1. phase[h] # "queued" /\ timer[h] # 0
        BY <1>1, <2>1, <2>6, <3>1 DEF Due
      <4>2. Waiting(h)
        BY <1>1, <2>1 DEF LockIsWaiters
      <4>. QED  BY <4>1, <4>2 DEF Waiting
    <3>3. budget[h] > 0
      BY <2>1, <3>2 DEF WaitsPlanned
    <3>4. HolderWait' = HolderWait - 1
      BY <1>1, <2>1, <3>2, <3>3 DEF HolderWait, Sooner
    <3>. QED  BY <2>p, <3>4
  <2>. QED  BY <2>5, <2>6
<1>. QED  BY <1>3, <1>4, <1>5 DEF WaitsPlanned

\* A step of a call that is not in line.
LEMMA WaitsKept ==
    ASSUME TypeOK, LockIsWaiters, WaitsPlanned, NEW c \in Calls, ~Waiting(c),
           NEW p, p \notin {"queued", "sleeping"}, phase' = [phase EXCEPT ![c] = p],
           UNCHANGED <<opt, lock, sleepers, waited>>
    PROVE  WaitsPlanned'
<1>1. phase \in [Calls -> Phases]
  BY DEF TypeOK
<1>2. \A d \in Calls : /\ Waiting(d)' <=> Waiting(d)
                       /\ phase'[d] = "sleeping" <=> phase[d] = "sleeping"
  BY <1>1 DEF Waiting
<1>3. \A i \in DOMAIN lock : 1 \in DOMAIN lock /\ lock[1] \in Calls
  BY DEF TypeOK
<1>4. \A i \in DOMAIN lock : HolderWait' = HolderWait
  BY <1>2, <1>3 DEF HolderWait, sleepers
<1>5. LongestWait' = LongestWait
  BY DEF LongestWait
<1>. QED  BY <1>2, <1>4, <1>5 DEF WaitsPlanned, sleepers

\* Every step keeps the plan of the line.
LEMMA WaitsStep ==
    ASSUME TypeOK, LockIsWaiters, WaitsPlanned, (TypeOK /\ LockIsWaiters)', [Next]_vars
    PROVE  WaitsPlanned'
<1>1. /\ phase \in [Calls -> Phases]
      /\ opt.maxWait \in 0..opt.maxWait
      /\ \A c \in Calls : budget[c] \in 0..opt.maxWait
  BY OptionType DEF TypeOK
<1>2. CASE UNCHANGED <<opt, lock, phase, sleepers, waited>>
  BY <1>2 DEF WaitsPlanned, Waiting, HolderWait, LongestWait, sleepers
<1>3. CASE Tick
  BY <1>3, WaitsTick
<1>4. ASSUME NEW c \in Calls, AdmitNow(c) \/ RejectNow(c) \/ Return(c) PROVE WaitsPlanned'
  BY <1>4, WaitsKept DEF AdmitNow, RejectNow, Return, Waiting
<1>5. ASSUME NEW c \in Calls, Arrive(c) PROVE WaitsPlanned'
  BY <1>5, WaitsJoined
<1>6. ASSUME NEW c \in Calls, Cancel(c) PROVE WaitsPlanned'
  BY <1>2, <1>6 DEF Cancel
<1>7. ASSUME NEW c \in Calls, NEW left \in 0..opt.maxWait, HasLock(c), left <= HolderWait,
             TryWith(c, left)
      PROVE  WaitsPlanned'
  BY <1>7, WaitsPassed, WaitsSlept DEF TryWith
<1>8. ASSUME NEW c \in Calls, FirstTry(c) \/ NextTry(c) PROVE WaitsPlanned'
  <2>1. HasLock(c) /\ lock[1] = c
    BY <1>8 DEF FirstTry, NextTry, HasLock
  <2>. QED  BY <1>1, <1>7, <1>8, <2>1 DEF FirstTry, NextTry, HolderWait
<1>9. ASSUME NEW c \in Calls, Abort(c) PROVE WaitsPlanned'
  BY <1>9, WaitsPassed DEF Abort
<1>. QED  BY <1>2, <1>3, <1>4, <1>5, <1>6, <1>8, <1>9 DEF Next, Continue, vars

\* In a punctual event loop a call waits maxWaitMs at most for itself and for
\* each of those before it in line, for any number of calls: nobody takes the
\* lock a second time before it, and no holder sleeps beyond its own limit.
THEOREM WaitsAreBounded == Spec => []WaitsAddUp
<1>1. Init => WaitsPlanned
  BY DEF Init, WaitsPlanned, Waiting
<1>2. Spec => []WaitsPlanned
  BY <1>1, WaitsStep, TypeCorrect, LockChain, PTL DEF Spec
<1>3. TypeOK /\ LockIsWaiters /\ WaitsPlanned => WaitsAddUp
  <2>. SUFFICES ASSUME TypeOK, LockIsWaiters, WaitsPlanned, NEW c \in Calls
                PROVE  waited[c] <= LongestWait
    BY DEF WaitsAddUp
  <2>1. CASE ~Waiting(c)
    BY <2>1, LineType DEF WaitsPlanned
  <2>2. CASE Waiting(c)
    <3>1. PICK i \in DOMAIN lock : lock[i] = c
      BY <2>2 DEF LockIsWaiters
    <3>2. waited[c] + HolderWait + (i - 1) * opt.maxWait <= LongestWait
      BY <3>1 DEF WaitsPlanned
    <3>3. HolderWait \in Nat
      <4>1. 1 \in DOMAIN lock
        BY <3>1, LineType
      <4>. QED  BY <4>1, LineType
    <3>. QED  BY <3>1, <3>2, <3>3, LineType
  <2>. QED  BY <2>1, <2>2
<1>. QED  BY <1>2, <1>3, TypeCorrect, LockChain, PTL
=============================================================================
