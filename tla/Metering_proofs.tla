---------------------------- MODULE Metering_proofs ----------------------------
(* What a request costs: proofs about Metering, for any keys, rates, bursts    *)
(* and requests in flight and any length of a run, and, from "One question"    *)
(* on, about QueryPipeline, the handler a metered request ends in, for any     *)
(* hits, rankings, floor, budget, retries and number of requests.              *)
EXTENDS Metering, Question, FiniteSetTheorems, SequenceTheorems, WellFoundedInduction, TLAPS

-----------------------------------------------------------------------------
(* Arithmetic.                                                               *)

LEMMA MaxOfTwo ==
  ASSUME NEW a \in Int, NEW b \in Int
  PROVE  Max({a, b}) = IF a >= b THEN a ELSE b
<1> DEFINE m == IF a >= b THEN a ELSE b
<1>1. m \in {a, b} /\ \A y \in {a, b} : m >= y
  OBVIOUS
<1>2. \A x \in {a, b} : (\A y \in {a, b} : x >= y) => x = m
  OBVIOUS
<1> HIDE DEF m
<1>3. Max({a, b}) = m
  BY <1>1, <1>2 DEF Max
<1> QED  BY <1>3 DEF m

LEMMA MinOfTwo ==
  ASSUME NEW a \in Int, NEW b \in Int
  PROVE  Min({a, b}) = IF a <= b THEN a ELSE b
<1> DEFINE m == IF a <= b THEN a ELSE b
<1>1. m \in {a, b} /\ \A y \in {a, b} : m <= y
  OBVIOUS
<1>2. \A x \in {a, b} : (\A y \in {a, b} : x <= y) => x = m
  OBVIOUS
<1> HIDE DEF m
<1>3. Min({a, b}) = m
  BY <1>1, <1>2 DEF Min
<1> QED  BY <1>3 DEF m

LEMMA TimesMonotone ==
  ASSUME NEW a \in Nat, NEW b \in Nat, NEW c \in Nat, NEW d \in Nat, a <= b, c <= d
  PROVE  a * c <= b * d /\ a * c \in Nat /\ b * d \in Nat
<1>1. b - a \in Nat /\ d - c \in Nat
  OBVIOUS
<1>2. a * c \in Nat /\ (b - a) * c \in Nat /\ b * (d - c) \in Nat
  BY <1>1
<1>3. b * d = a * c + (b - a) * c + b * (d - c)
  OBVIOUS
<1> QED  BY <1>2, <1>3

LEMMA TimesNext ==
  ASSUME NEW a \in Int, NEW b \in Int
  PROVE  (a + 1) * b = a * b + b
OBVIOUS

\* A rate that rises gives the interval at least what it adds to the potential.
LEMMA RateRises ==
  ASSUME NEW top \in Nat, NEW top2 \in Nat, top <= top2, NEW burst \in Nat, NEW tokens \in Nat,
         NEW idle \in Nat, NEW length \in Nat, NEW adm \in Int, NEW orphan \in Int,
         adm + (IF tokens + idle * top < top * burst THEN tokens + idle * top ELSE top * burst)
           <= top * (burst + length) + orphan
  PROVE  adm + (IF tokens + idle * top2 < top2 * burst THEN tokens + idle * top2 ELSE top2 * burst)
           <= top2 * (burst + length) + orphan
<1> DEFINE k == top2 - top
<1>1. k \in Nat /\ top2 = top + k
  OBVIOUS
<1> HIDE DEF k
<1>2. /\ idle * top2 = idle * top + idle * k /\ top2 * burst = top * burst + k * burst
      /\ top * (burst + length) = top * burst + top * length
      /\ top2 * (burst + length) = top * burst + top * length + k * burst + k * length
  BY <1>1
<1>3. /\ idle * top \in Nat /\ idle * k \in Nat /\ top * burst \in Nat /\ k * burst \in Nat
      /\ top * length \in Nat /\ k * length \in Nat
  BY <1>1
<1>4. CASE idle <= burst
  <2>1. idle * k <= k * burst
    BY <1>1, <1>4, TimesMonotone
  <2> QED  BY <1>2, <1>3, <2>1
<1>5. CASE ~(idle <= burst)
  <2>1. top * burst <= idle * top
    BY <1>5, TimesMonotone
  <2> QED  BY <1>2, <1>3, <2>1
<1> QED  BY <1>4, <1>5

-----------------------------------------------------------------------------
(* Types.                                                                    *)

BucketState == [tokens: Nat, last: 0..MaxTime, primed: BOOLEAN]
Spent == [stops: 0..MaxStops, changes: 0..MaxChanges, faults: 0..MaxFaults]
History == [adm: [Names -> [Moments -> Nat]], orphan: [Names -> Nat], top: Nat,
            added: Counts, twice: Counts, lost: Counts]

LEMMA ConstantTypes ==
  /\ Rates \subseteq Nat \ {0} /\ DefaultQps \in Nat \ {0} /\ Qps \subseteq Nat \ {0}
  /\ \A n \in Names : BurstFactor(n) \in Nat \ {0} /\ BurstFactor(n) <= IdleTTL
  /\ Tenant \in Names /\ Keys \subseteq Names /\ Tenant \notin Keys /\ Session \notin Keys
  /\ IdleTTL \in Nat /\ MaxTime \in Nat /\ MaxBuckets \in Nat /\ 0 \in Moments
  /\ Days \subseteq Nat /\ NoCounts \in Counts /\ 0 \in 0..MaxTime
<1>1. Days \subseteq Nat
  BY MeteringAssumption DEF Days
<1>2. NoCounts \in Counts
  BY DEF NoCounts, Counts
<1> QED  BY <1>1, <1>2, MeteringAssumption DEF Rates, BurstFactor, Names, Moments, Tenant

\* The bucket that is charged, and what the call leaves of it.
LEMMA RefillTypes ==
  ASSUME TypeOK, NEW b \in BucketState, NEW rate \in Nat, NEW burst \in Nat, b.last <= now
  PROVE  /\ Refill(b, rate, burst) \in BucketState
         /\ Refill(b, rate, burst).last = now /\ Refill(b, rate, burst).primed
<1>1. now \in 0..MaxTime
  BY DEF TypeOK
<1>2. CASE ~b.primed
  BY <1>1, <1>2 DEF Refill, BucketState
<1>3. CASE b.primed /\ now > b.last
  <2>1. (now - b.last) * rate \in Nat
    BY <1>1, <1>3, MeteringAssumption DEF BucketState
  <2> DEFINE tokens == Min({burst, b.tokens + (now - b.last) * rate})
  <2>2. tokens \in Nat
    BY <2>1, MinOfTwo DEF BucketState
  <2>3. Refill(b, rate, burst) = [b EXCEPT !.tokens = tokens, !.last = now]
    BY <1>3 DEF Refill
  <2> HIDE DEF tokens
  <2> QED  BY <1>1, <1>3, <2>2, <2>3 DEF BucketState
<1>4. CASE b.primed /\ ~(now > b.last)
  BY <1>1, <1>4 DEF Refill, BucketState
<1> QED  BY <1>2, <1>3, <1>4

LEMMA AllowTypes ==
  ASSUME TypeOK, NEW n \in Names, Allow(n)
  PROVE  /\ made' \in [Names -> 0..MaxBuckets] /\ held' \subseteq {m \in Names : made'[m] > 0}
         /\ made'[n] \in 1..MaxBuckets /\ n \in held'
         /\ made'[n] = made[n] \/ (n \notin held /\ made'[n] = made[n] + 1)
         /\ n \in held => made'[n] = made[n]
         /\ \A m \in Names : m # n => made'[m] = made[m] /\ (m \in held' <=> m \in held)
<1>1. made \in [Names -> 0..MaxBuckets] /\ held \subseteq {m \in Names : made[m] > 0}
  BY DEF TypeOK
<1>2. made' = [made EXCEPT ![n] = IF n \in held THEN made[n] ELSE made[n] + 1] /\ held' = held \cup {n}
  BY DEF Allow
<1>3. n \in held \/ made[n] < MaxBuckets
  BY DEF Allow
<1> QED  BY <1>1, <1>2, <1>3, MeteringAssumption

\* One admission of a name, as the history keeps it.
LEMMA AdmissionTypes ==
  ASSUME TypeOK, NEW n \in Names, NEW orphan \in BOOLEAN,
         hist' = [hist EXCEPT !.adm[n] = [t \in Moments |-> IF t > now THEN @[t] + 1 ELSE @[t]],
                              !.orphan[n] = IF orphan THEN @ + 1 ELSE @]
  PROVE  /\ hist' \in History
         /\ \A m \in Names \ {n} : hist'.adm[m] = hist.adm[m] /\ hist'.orphan[m] = hist.orphan[m]
         /\ \A t \in Moments : hist'.adm[n][t] = IF t > now THEN hist.adm[n][t] + 1 ELSE hist.adm[n][t]
         /\ hist'.orphan[n] = IF orphan THEN hist.orphan[n] + 1 ELSE hist.orphan[n]
         /\ hist'.top = hist.top /\ hist'.added = hist.added /\ hist'.twice = hist.twice
         /\ hist'.lost = hist.lost
<1>1. hist \in History
  BY DEF TypeOK, History
<1>2. hist.adm[n] \in [Moments -> Nat] /\ hist.orphan[n] \in Nat
  BY <1>1 DEF History
<1> DEFINE row == [t \in Moments |-> IF t > now THEN hist.adm[n][t] + 1 ELSE hist.adm[n][t]]
           cnt == IF orphan THEN hist.orphan[n] + 1 ELSE hist.orphan[n]
<1>3. row \in [Moments -> Nat] /\ cnt \in Nat
  BY <1>2
<1>4. hist' = [hist EXCEPT !.adm = [hist.adm EXCEPT ![n] = row],
                           !.orphan = [hist.orphan EXCEPT ![n] = cnt]]
  BY <1>1 DEF History
<1>5. \A t \in Moments : row[t] = IF t > now THEN hist.adm[n][t] + 1 ELSE hist.adm[n][t]
  OBVIOUS
<1> HIDE DEF row, cnt
<1>6. hist'.adm = [hist.adm EXCEPT ![n] = row] /\ hist'.orphan = [hist.orphan EXCEPT ![n] = cnt]
      /\ hist'.top = hist.top /\ hist'.added = hist.added /\ hist'.twice = hist.twice
      /\ hist'.lost = hist.lost
  BY <1>1, <1>4 DEF History
<1>7. hist'.adm \in [Names -> [Moments -> Nat]] /\ hist'.orphan \in [Names -> Nat]
  BY <1>1, <1>3, <1>6 DEF History
<1>8. hist' \in History
  BY <1>1, <1>4, <1>6, <1>7 DEF History
<1>9. hist'.adm[n] = row /\ hist'.orphan[n] = cnt
      /\ \A m \in Names \ {n} : hist'.adm[m] = hist.adm[m] /\ hist'.orphan[m] = hist.orphan[m]
  BY <1>1, <1>6 DEF History
<1> QED  BY <1>5, <1>6, <1>8, <1>9 DEF cnt

\* A call leaves no more tokens than a burst at the highest rate, and than that rate gives.
LEMMA RefillBound ==
  ASSUME TypeOK, NEW b \in BucketState, b.last <= now, NEW top \in Nat, NEW rate \in 1..top,
         NEW factor \in Nat, b.tokens <= top * factor
  PROVE  LET c == Refill(b, rate, rate * factor)
         IN  /\ c.tokens <= top * factor
             /\ b.primed => c.tokens <= b.tokens + (now - b.last) * top
<1>1. now \in Nat /\ now - b.last \in Nat /\ rate \in Nat /\ rate <= top /\ b.last \in Nat
      /\ b.tokens \in Nat
  BY DEF TypeOK, BucketState
<1>2. rate * factor <= top * factor /\ rate * factor \in Nat /\ top * factor \in Nat
  BY <1>1, TimesMonotone
<1>3. /\ (now - b.last) * rate <= (now - b.last) * top
      /\ (now - b.last) * rate \in Nat /\ (now - b.last) * top \in Nat
  BY <1>1, TimesMonotone
<1>4. CASE ~b.primed
  BY <1>2, <1>4 DEF Refill
<1>5. CASE b.primed /\ now > b.last
  <2>1. Refill(b, rate, rate * factor).tokens = Min({rate * factor, b.tokens + (now - b.last) * rate})
    BY <1>5 DEF Refill, BucketState
  <2>2. Refill(b, rate, rate * factor).tokens <= rate * factor
        /\ Refill(b, rate, rate * factor).tokens <= b.tokens + (now - b.last) * rate
        /\ Refill(b, rate, rate * factor).tokens \in Nat
    BY <1>1, <1>2, <1>3, <2>1, MinOfTwo
  <2> QED  BY <1>1, <1>2, <1>3, <2>2
<1>6. CASE b.primed /\ ~(now > b.last)
  BY <1>1, <1>3, <1>6 DEF Refill
<1> QED  BY <1>4, <1>5, <1>6

-----------------------------------------------------------------------------
(* The potential of a name.                                                  *)

\* Spelled out: a burst for a name without a live bucket, and else at most that and at most what
\* its bucket has come to.
LEMMA PotentialIs ==
  ASSUME TypeOK, LimiterSound, NEW n \in Names
  PROVE  /\ Potential(n) \in Nat /\ hist.top * BurstFactor(n) \in Nat
         /\ Potential(n) <= hist.top * BurstFactor(n)
         /\ n \notin held \/ ~bucket[n][made[n]].primed
              => Potential(n) = hist.top * BurstFactor(n)
         /\ n \in held =>
              LET b == bucket[n][made[n]]
              IN  /\ b \in BucketState /\ now - b.last \in Nat
                  /\ (now - b.last) * hist.top \in Nat
                  /\ b.primed => Potential(n) =
                       IF b.tokens + (now - b.last) * hist.top < hist.top * BurstFactor(n)
                       THEN b.tokens + (now - b.last) * hist.top
                       ELSE hist.top * BurstFactor(n)
<1>1. hist.top \in Nat /\ BurstFactor(n) \in Nat /\ now \in Nat
  BY ConstantTypes DEF TypeOK
<1>2. hist.top * BurstFactor(n) \in Nat
  BY <1>1, TimesMonotone
<1>3. CASE n \notin held
  BY <1>2, <1>3 DEF Potential
<1>4. CASE n \in held
  <2> DEFINE b == bucket[n][made[n]]
  <2>1. made[n] \in 1..MaxBuckets
    BY <1>4, ConstantTypes DEF TypeOK
  <2>2. b \in BucketState /\ b.last <= now
    <3>1. bucket[n] \in [1..MaxBuckets -> BucketState]
      BY DEF TypeOK, BucketState
    <3>2. bucket[n][made[n]].last <= now
      BY <2>1 DEF LimiterSound
    <3> QED  BY <2>1, <3>1, <3>2
  <2>3. now - b.last \in Nat /\ b.tokens \in Nat
    BY <1>1, <2>2 DEF BucketState
  <2>4. (now - b.last) * hist.top \in Nat
    BY <1>1, <2>3, TimesMonotone
  <2>5. Potential(n) = IF n \in held /\ b.primed /\ b.tokens + (now - b.last) * hist.top < hist.top * BurstFactor(n)
                       THEN b.tokens + (now - b.last) * hist.top
                       ELSE hist.top * BurstFactor(n)
    BY DEF Potential
  <2> QED  BY <1>2, <1>4, <2>2, <2>3, <2>4, <2>5
<1> QED  BY <1>3, <1>4

LEMMA PotentialNat == TypeOK /\ LimiterSound => \A n \in Names : Potential(n) \in Nat
  BY PotentialIs
LEMMA PotentialNatNext == (TypeOK /\ LimiterSound => \A n \in Names : Potential(n) \in Nat)'
  BY PotentialNat, PTL

\* The rate holds at every moment from the admissions since any moment, when what was admitted
\* before now is left as it was.
LEMMA RateFollows ==
  ASSUME TypeOK, TypeOK', LimiterSound', WithinRate, WithinPotential',
         now' = now, hist.top <= hist'.top,
         \A n \in Names : /\ hist.orphan[n] <= hist'.orphan[n]
                          /\ \A t \in Moments : t <= now => hist'.adm[n][t] = hist.adm[n][t]
  PROVE  WithinRate'
<1> SUFFICES ASSUME NEW n \in Names, NEW a \in 0..now, NEW b \in a..now
             PROVE  hist'.adm[n][b + 1] - hist'.adm[n][a]
                      <= hist'.top * (BurstFactor(n) + b - a) + hist'.orphan[n]
  BY DEF WithinRate
<1>1. /\ now \in Nat /\ now <= MaxTime /\ MaxTime \in Nat /\ BurstFactor(n) \in Nat
      /\ hist.top \in Nat /\ hist'.top \in Nat /\ hist.orphan[n] \in Nat /\ hist'.orphan[n] \in Nat
      /\ hist.adm[n] \in [Moments -> Nat] /\ hist'.adm[n] \in [Moments -> Nat]
  <2>1. hist \in History /\ hist' \in History /\ now \in 0..MaxTime
    BY DEF TypeOK, History
  <2> QED  BY <2>1, ConstantTypes DEF History
<1>2. a \in Moments /\ b + 1 \in Moments /\ now + 1 \in Moments
  BY <1>1 DEF Moments
<1>3. CASE b = now
  <2>1. hist'.adm[n][now + 1] - hist'.adm[n][a] + Potential(n)'
          <= hist'.top * (BurstFactor(n) + now - a) + hist'.orphan[n]
    BY <1>1, <1>2 DEF WithinPotential
  <2>2. (\A m \in Names : Potential(m) \in Nat)'
    BY PotentialNatNext
  <2>3. Potential(n)' \in Nat
    BY <2>2
  <2>4. hist'.top * (BurstFactor(n) + now - a) \in Nat
    BY <1>1, TimesMonotone
  <2> QED  BY <1>1, <1>2, <1>3, <2>1, <2>3, <2>4
<1>4. CASE b < now
  <2>1. hist.adm[n][b + 1] - hist.adm[n][a] <= hist.top * (BurstFactor(n) + b - a) + hist.orphan[n]
    BY DEF WithinRate
  <2>2. hist'.adm[n][b + 1] = hist.adm[n][b + 1] /\ hist'.adm[n][a] = hist.adm[n][a]
    BY <1>1, <1>2, <1>4
  <2>3. BurstFactor(n) + b - a \in Nat
    BY <1>1
  <2>4. /\ hist.top * (BurstFactor(n) + b - a) <= hist'.top * (BurstFactor(n) + b - a)
        /\ hist.top * (BurstFactor(n) + b - a) \in Nat /\ hist'.top * (BurstFactor(n) + b - a) \in Nat
    BY <1>1, <2>3, TimesMonotone
  <2> QED  BY <1>1, <1>2, <2>1, <2>2, <2>4
<1> QED  BY <1>1, <1>3, <1>4

-----------------------------------------------------------------------------
(* The usage counter.                                                        *)

Limiting == LimiterSound /\ WithinPotential /\ WithinRate
Counting == FlushSound /\ UsageConserved

\* Steps of the counter and of the process leave the limiter alone.
LEMMA LimiterQuiet ==
  ASSUME Limiting, UNCHANGED <<now, limiter>>,
         hist'.adm = hist.adm, hist'.top = hist.top, hist'.orphan = hist.orphan,
         \A i \in Threads : req'[i] = req[i] \/ req'[i].at \notin {"tenant", "key"}
  PROVE  Limiting'
<1>1. LimiterSound'
  BY DEF Limiting, LimiterSound, limiter, NameOf
<1>2. \A n \in Names : Potential(n)' = Potential(n)
  BY DEF Potential, limiter
<1>3. WithinPotential' /\ WithinRate'
  BY <1>2 DEF Limiting, WithinPotential, WithinRate
<1> QED  BY <1>1, <1>3 DEF Limiting

\* And those of the limiter leave the counts alone.
LEMMA CounterQuiet ==
  ASSUME Counting, UNCHANGED usage,
         hist'.added = hist.added, hist'.twice = hist.twice, hist'.lost = hist.lost
  PROVE  Counting'
  BY DEF Counting, FlushSound, UsageConserved, usage

LEMMA DayInRange ==
  ASSUME NEW t \in 0..MaxTime
  PROVE  DayOf(t) \in Days
<1> DEFINE d == t \div DayLength
           e == MaxTime \div DayLength
<1>1. DayLength \in Nat /\ DayLength > 0 /\ MaxTime \in Nat /\ t \in Nat /\ t <= MaxTime
  BY MeteringAssumption
<1>2. /\ d \in Int /\ DayLength * d <= t /\ t < DayLength * d + DayLength
      /\ e \in Int /\ DayLength * e <= MaxTime /\ MaxTime < DayLength * e + DayLength
  BY <1>1
<1> HIDE DEF d, e
<1>3. 0 <= d
  <2>1. ASSUME d < 0 PROVE FALSE
    <3>1. DayLength * (d + 1) <= 0
      BY <1>1, <1>2, <2>1
    <3>2. DayLength * (d + 1) = DayLength * d + DayLength
      BY <1>1, <1>2
    <3> QED  BY <1>1, <1>2, <3>1, <3>2
  <2> QED  BY <1>2, <2>1
<1>4. d <= e
  <2>1. ASSUME d > e PROVE FALSE
    <3>1. d - (e + 1) \in Nat /\ DayLength * (d - (e + 1)) \in Nat
      BY <1>1, <1>2, <2>1
    <3>2. DayLength * d = DayLength * e + DayLength + DayLength * (d - (e + 1))
      BY <1>1, <1>2
    <3> QED  BY <1>1, <1>2, <3>1, <3>2
  <2> QED  BY <1>2, <2>1
<1> QED  BY <1>2, <1>3, <1>4 DEF DayOf, Days, d, e

\* Every count stays where exactly one of the places has it.
LEMMA UsageSteps ==
  ASSUME IInv,
         \/ \E i \in Threads : Serve(i)
         \/ FlushSwaps \/ FlushEnds \/ Stop \/ Start
         \/ \E d \in Days : FlushUpserts(d) \/ \E applied \in BOOLEAN : FlushFails(d, applied)
         \/ \E q \in Settings : Configure(q)
  PROVE  TypeOK' /\ Limiting' /\ Counting'
<1>1. TypeOK /\ Limiting /\ Counting
  BY DEF IInv, Limiting, Counting
<1>2. /\ hist \in History /\ spent \in Spent /\ req \in [Threads -> Request] /\ NoCounts \in Counts
      /\ buffer \in [Days -> Nat] /\ drained \in [Days -> Nat] /\ rows \in [Days -> Nat]
      /\ hist.added \in [Days -> Nat] /\ hist.twice \in [Days -> Nat] /\ hist.lost \in [Days -> Nat]
  BY <1>1, ConstantTypes DEF TypeOK, History, Spent, Counts
<1>3. \A d \in Days : rows[d] + drained[d] + buffer[d] + hist.lost[d] = hist.added[d] + hist.twice[d]
  BY <1>1 DEF Counting, UsageConserved
<1>4. ASSUME NEW i \in Threads, Serve(i) PROVE TypeOK' /\ Limiting' /\ Counting'
  <2> PICK day \in Days : day = DayOf(now)
    BY <1>1, DayInRange DEF TypeOK
  <2> DEFINE added == [hist.added EXCEPT ![day] = @ + 1]
  <2>1. /\ buffer' = [buffer EXCEPT ![day] = @ + 1] /\ hist' = [hist EXCEPT !.added = added]
        /\ req' = [req EXCEPT ![i] = Idle]
        /\ UNCHANGED <<now, setting, limiter, served, drained, flushing, rows, process, spent>>
    BY <1>4 DEF Serve
  <2>2. /\ buffer' \in [Days -> Nat]
        /\ \A d \in Days : buffer'[d] = IF d = day THEN buffer[d] + 1 ELSE buffer[d]
    BY <1>2, <2>1
  <2>3. /\ added \in [Days -> Nat]
        /\ \A d \in Days : added[d] = IF d = day THEN hist.added[d] + 1 ELSE hist.added[d]
    BY <1>2
  <2> HIDE DEF added
  <2>4. /\ hist' \in History /\ hist'.added = added /\ hist'.adm = hist.adm /\ hist'.top = hist.top
        /\ hist'.orphan = hist.orphan /\ hist'.twice = hist.twice /\ hist'.lost = hist.lost
    BY <1>2, <2>1, <2>3 DEF History, Counts
  <2>5. req' \in [Threads -> Request]
    BY <1>2, <2>1, ConstantTypes DEF Idle, Request
  <2>6. TypeOK'
    BY <1>1, <2>1, <2>2, <2>4, <2>5 DEF TypeOK, limiter, Counts, History
  <2>7. Limiting'
    BY <1>1, <1>2, <2>1, <2>4, LimiterQuiet DEF Idle
  <2>8. Counting'
    <3>1. ASSUME NEW d \in Days
          PROVE  rows[d] + drained[d] + buffer'[d] + hist.lost[d] = added[d] + hist.twice[d]
      <4>1. /\ rows[d] \in Nat /\ drained[d] \in Nat /\ buffer[d] \in Nat
            /\ hist.lost[d] \in Nat /\ hist.added[d] \in Nat /\ hist.twice[d] \in Nat
        BY <1>2
      <4>2. rows[d] + drained[d] + buffer[d] + hist.lost[d] = hist.added[d] + hist.twice[d]
        BY <1>3
      <4>3. /\ buffer'[d] = IF d = day THEN buffer[d] + 1 ELSE buffer[d]
            /\ added[d] = IF d = day THEN hist.added[d] + 1 ELSE hist.added[d]
        BY <2>2, <2>3
      <4> QED  BY <4>1, <4>2, <4>3
    <3>2. UsageConserved'
      BY <2>1, <2>4, <3>1 DEF UsageConserved
    <3> QED  BY <1>1, <2>1, <3>2 DEF Counting, FlushSound
  <2> QED  BY <2>6, <2>7, <2>8
<1>5. CASE FlushSwaps
  <2>1. TypeOK' /\ Limiting'
    BY <1>1, <1>2, <1>5, LimiterQuiet DEF FlushSwaps, TypeOK, limiter
  <2>2. drained = NoCounts
    BY <1>1, <1>5 DEF FlushSwaps, Counting, FlushSound
  <2>3. Counting'
    BY <1>2, <1>3, <1>5, <2>2 DEF FlushSwaps, Counting, FlushSound, UsageConserved, NoCounts
  <2> QED  BY <2>1, <2>3
<1>6. CASE FlushEnds \/ Stop \/ Start
  <2>1. TypeOK'
    <3>1. CASE FlushEnds \/ Start
      BY <1>1, <3>1 DEF FlushEnds, Start, TypeOK, limiter, usage
    <3>2. CASE Stop
      <4>1. spent' \in Spent
        BY <1>2, <3>2, MeteringAssumption DEF Stop, Spent
      <4> QED  BY <1>1, <3>2, <4>1 DEF Stop, TypeOK, limiter, usage, Spent
    <3> QED  BY <1>6, <3>1, <3>2
  <2>2. Limiting'
    BY <1>1, <1>2, <1>6, LimiterQuiet DEF FlushEnds, Stop, Start
  <2>3. Counting'
    BY <1>1, <1>6 DEF FlushEnds, Stop, Start, Counting, FlushSound, UsageConserved, usage
  <2> QED  BY <2>1, <2>2, <2>3
<1>7. ASSUME NEW d \in Days, FlushUpserts(d) PROVE TypeOK' /\ Limiting' /\ Counting'
  <2>1. /\ flushing /\ rows' = [rows EXCEPT ![d] = rows[d] + drained[d]]
        /\ drained' = [drained EXCEPT ![d] = 0]
        /\ UNCHANGED <<now, setting, limiter, req, served, buffer, flushing, process, spent, hist>>
    BY <1>7 DEF FlushUpserts, Upsert
  <2>2. rows' \in [Days -> Nat] /\ drained' \in [Days -> Nat]
    BY <1>2, <2>1, ConstantTypes
  <2>3. TypeOK' /\ Limiting'
    BY <1>1, <2>1, <2>2, LimiterQuiet DEF TypeOK, Counts, limiter
  <2>4. Counting'
    BY <1>2, <1>3, <2>1 DEF Counting, FlushSound, UsageConserved
  <2> QED  BY <2>3, <2>4
<1>8. ASSUME NEW d \in Days, NEW applied \in BOOLEAN, FlushFails(d, applied)
      PROVE  TypeOK' /\ Limiting' /\ Counting'
  <2> DEFINE twice == [hist.twice EXCEPT ![d] = IF applied THEN @ + drained[d] ELSE @]
  <2>1. /\ rows' = [rows EXCEPT ![d] = IF applied THEN rows[d] + drained[d] ELSE rows[d]]
        /\ buffer' = [e \in Days |-> buffer[e] + drained[e]]
        /\ drained' = NoCounts /\ flushing' = FALSE /\ hist' = [hist EXCEPT !.twice = twice]
        /\ spent' = [spent EXCEPT !.faults = @ + 1] /\ spent.faults < MaxFaults
        /\ process' \in {process, "drained"}
        /\ UNCHANGED <<now, setting, limiter, req, served>>
    BY <1>8 DEF FlushFails, Upsert, Restored
  <2>2. /\ rows' \in [Days -> Nat] /\ buffer' \in [Days -> Nat] /\ twice \in [Days -> Nat]
        /\ spent' \in Spent
    BY <1>2, <2>1, MeteringAssumption DEF Spent
  <2>3. \A e \in Days : rows'[e] - rows[e] = twice[e] - hist.twice[e]
    BY <1>2, <2>1
  <2> HIDE DEF twice
  <2>4. /\ hist' \in History /\ hist'.twice = twice /\ hist'.adm = hist.adm /\ hist'.top = hist.top
        /\ hist'.orphan = hist.orphan /\ hist'.added = hist.added /\ hist'.lost = hist.lost
    BY <1>2, <2>1, <2>2 DEF History, Counts
  <2>5. TypeOK'
    BY <1>1, <1>2, <2>1, <2>2, <2>4 DEF TypeOK, limiter, Counts, History, Spent
  <2>6. Limiting'
    BY <1>1, <2>1, <2>4, LimiterQuiet
  <2>7. Counting'
    <3>1. ASSUME NEW e \in Days
          PROVE  rows'[e] + drained'[e] + buffer'[e] + hist.lost[e] = hist.added[e] + twice[e]
      <4>1. drained'[e] = 0 /\ buffer'[e] = buffer[e] + drained[e]
        BY <2>1 DEF NoCounts
      <4>2. rows'[e] - rows[e] = twice[e] - hist.twice[e] /\ rows'[e] \in Nat /\ twice[e] \in Nat
        BY <2>2, <2>3
      <4>3. /\ rows[e] \in Nat /\ drained[e] \in Nat /\ buffer[e] \in Nat
            /\ hist.lost[e] \in Nat /\ hist.added[e] \in Nat /\ hist.twice[e] \in Nat
        BY <1>2
      <4>4. rows[e] + drained[e] + buffer[e] + hist.lost[e] = hist.added[e] + hist.twice[e]
        BY <1>3
      <4> QED  BY <4>1, <4>2, <4>3, <4>4
    <3>2. UsageConserved'
      BY <2>4, <3>1 DEF UsageConserved
    <3> QED  BY <2>1, <3>2 DEF Counting, FlushSound
  <2> QED  BY <2>5, <2>6, <2>7
<1>9. ASSUME NEW q \in Settings, Configure(q) PROVE TypeOK' /\ Limiting' /\ Counting'
  <2>1. TypeOK'
    <3>1. spent' \in Spent
      BY <1>2, <1>9, MeteringAssumption DEF Configure, Spent
    <3> QED  BY <1>1, <1>9, <3>1 DEF Configure, TypeOK, limiter, usage, Spent
  <2>2. Limiting' /\ Counting'
    BY <1>1, <1>9, LimiterQuiet, CounterQuiet DEF Configure
  <2> QED  BY <2>1, <2>2
<1> QED  BY <1>4, <1>5, <1>6, <1>7, <1>8, <1>9

-----------------------------------------------------------------------------
(* The limiter.                                                              *)

\* A second passes: the interval to now grows by what the rate adds to the potential.
LEMMA TickStep ==
  ASSUME TypeOK, Limiting, Tick
  PROVE  TypeOK' /\ Limiting'
<1>1. /\ now' = now + 1 /\ now < MaxTime /\ now \in Nat /\ now' \in 0..MaxTime /\ MaxTime \in Nat
      /\ UNCHANGED <<setting, bucket, made, held, req, served, usage, process, spent, hist>>
  BY MeteringAssumption DEF Tick, TypeOK, limiter
<1>2. /\ TypeOK /\ LimiterSound /\ WithinPotential /\ WithinRate
      /\ hist \in History /\ hist.top \in Nat
  BY DEF Limiting, TypeOK, History
<1>3. TypeOK'
  <2>1. \A n \in Names, g \in 1..MaxBuckets : bucket'[n][g] = bucket[n][g]
    BY <1>1
  <2> QED  BY <1>1, <1>2 DEF TypeOK, usage
<1>4. LimiterSound'
  <2>1. \A n \in Names, g \in 1..MaxBuckets :
          /\ bucket'[n][g].tokens <= hist'.top * BurstFactor(n) /\ bucket'[n][g].last <= now'
          /\ g > made'[n] => bucket'[n][g] = Fresh
    <3> SUFFICES ASSUME NEW n \in Names, NEW g \in 1..MaxBuckets
                 PROVE  /\ bucket[n][g].tokens <= hist.top * BurstFactor(n)
                        /\ bucket[n][g].last <= now + 1
                        /\ g > made[n] => bucket[n][g] = Fresh
      BY <1>1
    <3>1. bucket[n] \in [1..MaxBuckets -> BucketState]
      BY <1>2 DEF TypeOK, BucketState
    <3>2. bucket[n][g] \in BucketState
      BY <3>1
    <3>3. bucket[n][g].last \in Nat
      BY <1>1, <3>2 DEF BucketState
    <3> QED  BY <1>1, <1>2, <3>3 DEF LimiterSound
  <2>2. \A i \in Threads : NameOf(i)' = NameOf(i)
    BY <1>1 DEF NameOf
  <2>3. ASSUME NEW n \in Names, NEW t \in Moments, t > now'
        PROVE  hist'.adm[n][t] = hist'.adm[n][now' + 1]
    <3>1. now' + 1 \in Moments /\ t > now /\ now' + 1 > now
      BY <1>1, <2>3 DEF Moments
    <3> QED  BY <1>1, <1>2, <3>1 DEF LimiterSound
  <2> QED  BY <1>1, <1>2, <2>1, <2>2, <2>3 DEF LimiterSound
<1>5. ASSUME NEW n \in Names
      PROVE  /\ Potential(n)' <= Potential(n) + hist.top /\ Potential(n)' \in Nat
             /\ Potential(n)' <= hist.top * BurstFactor(n)
             /\ Potential(n) \in Nat /\ hist.top * BurstFactor(n) \in Nat
  <2>1. /\ Potential(n) \in Nat /\ hist.top * BurstFactor(n) \in Nat
        /\ Potential(n) <= hist.top * BurstFactor(n)
        /\ n \notin held \/ ~bucket[n][made[n]].primed => Potential(n) = hist.top * BurstFactor(n)
    BY <1>2, PotentialIs
  <2>2. CASE n \notin held \/ ~bucket[n][made[n]].primed
    <3>1. Potential(n)' = hist.top * BurstFactor(n)
      BY <1>1, <2>2 DEF Potential
    <3> QED  BY <1>2, <2>1, <2>2, <3>1
  <2>3. CASE n \in held /\ bucket[n][made[n]].primed
    <3> DEFINE b == bucket[n][made[n]]
               full == hist.top * BurstFactor(n)
               more == (now - b.last) * hist.top
    <3>1. /\ b \in BucketState /\ now - b.last \in Nat /\ more \in Nat
          /\ Potential(n) = IF b.tokens + more < full THEN b.tokens + more ELSE full
      BY <1>2, <2>3, PotentialIs
    <3>2. b.tokens \in Nat /\ b.last \in Nat
      BY <3>1 DEF BucketState
    <3>3. ((now + 1) - b.last) * hist.top = more + hist.top
      <4>1. now \in Int /\ hist.top \in Int /\ (now + 1) - b.last = (now - b.last) + 1
        BY <1>1, <1>2, <3>2
      <4>2. now - b.last \in Int
        BY <3>1
      <4> QED  BY <4>1, <4>2, TimesNext
    <3>4. Potential(n)' = IF b.tokens + ((now + 1) - b.last) * hist.top < full
                          THEN b.tokens + ((now + 1) - b.last) * hist.top ELSE full
      BY <1>1, <2>3 DEF Potential
    <3> HIDE DEF full, more
    <3>5. full \in Nat
      BY <2>1 DEF full
    <3>6. Potential(n)' <= Potential(n) + hist.top /\ Potential(n)' \in Nat /\ Potential(n)' <= full
      BY <1>2, <3>1, <3>2, <3>3, <3>4, <3>5
    <3> QED  BY <2>1, <3>6 DEF full
  <2> QED  BY <2>2, <2>3
<1>6. WithinPotential'
  <2> SUFFICES ASSUME NEW n \in Names, NEW a \in Moments, a <= now'
               PROVE  hist.adm[n][now + 2] - hist.adm[n][a] + Potential(n)'
                        <= hist.top * (BurstFactor(n) + (now + 1) - a) + hist.orphan[n]
    BY <1>1 DEF WithinPotential
  <2>1. /\ now + 2 \in Moments /\ now + 1 \in Moments /\ BurstFactor(n) \in Nat /\ a \in Nat
        /\ hist.adm[n] \in [Moments -> Nat] /\ hist.orphan[n] \in Nat
    BY <1>1, <1>2, ConstantTypes DEF Moments, History
  <2>2. hist.adm[n][now + 2] = hist.adm[n][now + 1]
    BY <1>1, <1>2, <2>1 DEF LimiterSound
  <2>3. CASE a = now + 1
    <3>1. BurstFactor(n) + (now + 1) - a = BurstFactor(n)
      BY <1>1, <2>1, <2>3
    <3> QED  BY <1>5, <2>1, <2>2, <2>3, <3>1
  <2>4. CASE a <= now
    <3>1. hist.adm[n][now + 1] - hist.adm[n][a] + Potential(n)
            <= hist.top * (BurstFactor(n) + now - a) + hist.orphan[n]
      BY <1>2, <2>4 DEF WithinPotential
    <3>2. hist.top * (BurstFactor(n) + (now + 1) - a) = hist.top * (BurstFactor(n) + now - a) + hist.top
      BY <1>1, <1>2, <2>1
    <3>3. hist.top * (BurstFactor(n) + now - a) \in Int
      BY <1>1, <1>2, <2>1
    <3> DEFINE old == hist.top * (BurstFactor(n) + now - a)
               new == hist.top * (BurstFactor(n) + (now + 1) - a)
    <3>4. old \in Int /\ new = old + hist.top
          /\ hist.adm[n][now + 1] - hist.adm[n][a] + Potential(n) <= old + hist.orphan[n]
      BY <3>1, <3>2, <3>3
    <3> HIDE DEF old, new
    <3>5. /\ hist.adm[n][now + 1] \in Nat /\ hist.adm[n][a] \in Nat /\ hist.orphan[n] \in Nat
          /\ Potential(n)' <= Potential(n) + hist.top /\ Potential(n)' \in Nat /\ Potential(n) \in Nat
      BY <1>5, <2>1
    <3>6. hist.adm[n][now + 2] - hist.adm[n][a] + Potential(n)' <= new + hist.orphan[n]
      BY <1>2, <2>2, <3>4, <3>5
    <3> QED  BY <3>6 DEF new
  <2> QED  BY <1>1, <2>1, <2>3, <2>4
<1>7. WithinRate'
  <2> SUFFICES ASSUME NEW n \in Names, NEW a \in 0..now', NEW b \in a..now'
               PROVE  hist.adm[n][b + 1] - hist.adm[n][a]
                        <= hist.top * (BurstFactor(n) + b - a) + hist.orphan[n]
    BY <1>1 DEF WithinRate
  <2>1. CASE b <= now
    BY <1>1, <1>2, <2>1 DEF WithinRate
  <2>2. CASE b = now'
    <3>1. a \in Moments /\ a <= now' /\ BurstFactor(n) \in Nat
      BY <1>1, ConstantTypes DEF Moments
    <3>2. hist.adm[n][b + 1] - hist.adm[n][a] + Potential(n)'
            <= hist.top * (BurstFactor(n) + b - a) + hist.orphan[n]
      BY <1>1, <1>6, <2>2, <3>1 DEF WithinPotential
    <3>3. /\ hist.adm[n] \in [Moments -> Nat] /\ hist.orphan[n] \in Nat /\ b + 1 \in Moments
          /\ hist.top * (BurstFactor(n) + b - a) \in Int
      BY <1>1, <1>2, <2>2, <3>1 DEF History, Moments
    <3> QED  BY <1>5, <3>1, <3>2, <3>3
  <2> QED  BY <1>1, <2>1, <2>2
<1> QED  BY <1>3, <1>4, <1>6, <1>7 DEF Limiting

\* The sweep throws away only buckets that have come to a burst again.
LEMMA EvictStep ==
  ASSUME TypeOK, Limiting, EvictIdle
  PROVE  TypeOK' /\ Limiting'
<1>1. /\ held' = {n \in held : ~Evictable(n)}
      /\ UNCHANGED <<now, setting, bucket, made, req, served, usage, process, spent, hist>>
  BY DEF EvictIdle
<1>2. TypeOK /\ LimiterSound /\ WithinPotential /\ WithinRate /\ now \in Nat /\ hist.top \in Nat
  BY MeteringAssumption DEF Limiting, TypeOK
<1>3. TypeOK'
  BY <1>1, <1>2 DEF TypeOK, usage
<1>4. LimiterSound'
  BY <1>1, <1>2 DEF LimiterSound, NameOf
<1>5. ASSUME NEW n \in Names PROVE Potential(n)' = Potential(n)
  <2>1. CASE n \notin held \/ ~Evictable(n)
    BY <1>1, <2>1 DEF Potential
  <2>2. CASE n \in held /\ Evictable(n)
    <3> DEFINE b == bucket[n][made[n]]
               full == hist.top * BurstFactor(n)
               more == (now - b.last) * hist.top
    <3>1. /\ b \in BucketState /\ now - b.last \in Nat /\ more \in Nat /\ full \in Nat
          /\ b.primed => Potential(n) = IF b.tokens + more < full THEN b.tokens + more ELSE full
      BY <1>2, <2>2, PotentialIs
    <3>2. b.primed /\ b.last < now - IdleTTL
      BY <2>2 DEF Evictable
    <3>3. b.last \in Nat /\ b.tokens \in Nat /\ IdleTTL \in Nat /\ BurstFactor(n) \in Nat
          /\ BurstFactor(n) <= IdleTTL
      BY <3>1, ConstantTypes DEF BucketState
    <3>4. BurstFactor(n) <= now - b.last
      BY <1>2, <3>2, <3>3
    <3>5. BurstFactor(n) * hist.top <= more
      BY <1>2, <3>1, <3>3, <3>4, TimesMonotone
    <3>6. full = BurstFactor(n) * hist.top
      BY <1>2, <3>3
    <3>7. Potential(n)' = full
      BY <1>1, <2>2 DEF Potential
    <3> HIDE DEF full, more, b
    <3> QED  BY <3>1, <3>2, <3>3, <3>5, <3>6, <3>7
  <2> QED  BY <2>1, <2>2
<1>6. WithinPotential' /\ WithinRate'
  BY <1>1, <1>2, <1>5 DEF WithinPotential, WithinRate
<1> QED  BY <1>3, <1>4, <1>6 DEF Limiting

\* With the process its buckets and its history are gone, and its counts are lost.
LEMMA ExitStep ==
  ASSUME IInv, Exit
  PROVE  TypeOK' /\ Limiting' /\ Counting'
<1>1. /\ TypeOK /\ hist \in History /\ process' = "exited"
      /\ buffer' = NoCounts /\ drained' = NoCounts /\ flushing' = FALSE
      /\ req' = [i \in Threads |-> Idle]
      /\ bucket' = [n \in Names |-> [g \in 1..MaxBuckets |-> Fresh]]
      /\ made' = [n \in Names |-> 0] /\ held' = {}
      /\ UNCHANGED <<now, setting, served, rows, spent>>
  BY DEF IInv, TypeOK, History, Exit
<1> DEFINE lost == [d \in Days |-> hist.lost[d] + buffer[d] + drained[d]]
           none == [n \in Names |-> 0]
<1>2. hist' = [hist EXCEPT !.lost = lost, !.adm = NoAdmissions, !.orphan = none, !.top = 0]
  BY DEF Exit
<1>3. /\ buffer \in [Days -> Nat] /\ drained \in [Days -> Nat] /\ rows \in [Days -> Nat]
      /\ hist.lost \in [Days -> Nat] /\ hist.added \in [Days -> Nat] /\ hist.twice \in [Days -> Nat]
      /\ now \in Nat /\ now <= MaxTime /\ MaxTime \in Nat
  BY <1>1, MeteringAssumption DEF TypeOK, History, Counts
<1>4. lost \in Counts /\ none \in [Names -> Nat] /\ NoAdmissions \in [Names -> [Moments -> Nat]]
  BY <1>3 DEF Counts, NoAdmissions
<1>5. \A d \in Days : lost[d] = hist.lost[d] + buffer[d] + drained[d]
  OBVIOUS
<1>6. \A n \in Names : none[n] = 0
  OBVIOUS
<1> HIDE DEF lost, none
<1>7. /\ hist' \in History /\ hist'.top = 0 /\ hist'.adm = NoAdmissions /\ hist'.orphan = none
      /\ hist'.lost = lost /\ hist'.added = hist.added /\ hist'.twice = hist.twice
  BY <1>1, <1>2, <1>4 DEF History
<1>8. TypeOK'
  <2>1. Fresh \in BucketState /\ Idle \in Request
    BY ConstantTypes DEF Fresh, BucketState, Idle, Request
  <2>2. bucket' \in [Names -> [1..MaxBuckets -> BucketState]] /\ made' \in [Names -> 0..MaxBuckets]
    BY <1>1, <2>1, ConstantTypes
  <2> QED  BY <1>1, <1>7, <2>1, <2>2, ConstantTypes DEF TypeOK, BucketState, History
<1>9. LimiterSound'
  <2>1. \A n \in Names : 0 * BurstFactor(n) = 0
    BY ConstantTypes
  <2>2. now + 1 \in Moments
    BY <1>3 DEF Moments
  <2>3. \A n \in Names, t \in Moments : t > now' => hist'.adm[n][t] = hist'.adm[n][now' + 1]
    BY <1>1, <1>7, <2>2 DEF NoAdmissions
  <2>4. \A n \in Names, g \in 1..MaxBuckets :
          /\ bucket'[n][g].tokens <= hist'.top * BurstFactor(n) /\ bucket'[n][g].last <= now'
          /\ g > made'[n] => bucket'[n][g] = Fresh
    BY <1>1, <1>3, <1>7, <2>1 DEF Fresh
  <2> QED  BY <1>1, <2>3, <2>4 DEF LimiterSound, Idle
<1>10. ASSUME NEW n \in Names, NEW t \in Moments PROVE hist'.adm[n][t] = 0 /\ hist'.orphan[n] = 0
  BY <1>6, <1>7 DEF NoAdmissions
<1>11. WithinPotential'
  <2> SUFFICES ASSUME NEW n \in Names, NEW a \in Moments, a <= now
               PROVE  hist'.adm[n][now + 1] - hist'.adm[n][a] + Potential(n)'
                        <= hist'.top * (BurstFactor(n) + now - a) + hist'.orphan[n]
    BY <1>1 DEF WithinPotential
  <2>1. now + 1 \in Moments /\ BurstFactor(n) \in Nat /\ a \in Nat
    BY <1>3, ConstantTypes DEF Moments
  <2>2. Potential(n)' = 0 * BurstFactor(n)
    BY <1>1, <1>7 DEF Potential
  <2> QED  BY <1>3, <1>7, <1>10, <2>1, <2>2
<1>12. WithinRate'
  <2> SUFFICES ASSUME NEW n \in Names, NEW a \in 0..now, NEW b \in a..now
               PROVE  hist'.adm[n][b + 1] - hist'.adm[n][a]
                        <= hist'.top * (BurstFactor(n) + b - a) + hist'.orphan[n]
    BY <1>1 DEF WithinRate
  <2>1. a \in Moments /\ b + 1 \in Moments /\ BurstFactor(n) \in Nat
    BY <1>3, ConstantTypes DEF Moments
  <2> QED  BY <1>3, <1>7, <1>10, <2>1
<1>13. Counting'
  <2>1. ASSUME NEW d \in Days
        PROVE  rows'[d] + drained'[d] + buffer'[d] + lost[d] = hist.added[d] + hist.twice[d]
    <3>1. /\ rows[d] \in Nat /\ drained[d] \in Nat /\ buffer[d] \in Nat
          /\ hist.lost[d] \in Nat /\ hist.added[d] \in Nat /\ hist.twice[d] \in Nat
      BY <1>3
    <3>2. rows[d] + drained[d] + buffer[d] + hist.lost[d] = hist.added[d] + hist.twice[d]
      BY DEF IInv, UsageConserved
    <3> QED  BY <1>1, <1>5, <3>1, <3>2 DEF NoCounts
  <2> QED  BY <1>1, <1>7, <2>1 DEF Counting, FlushSound, UsageConserved
<1> QED  BY <1>8, <1>9, <1>11, <1>12, <1>13 DEF Limiting

\* A bucket that Allow makes is full, as was what it replaces.
LEMMA AllowPotential ==
  ASSUME TypeOK, LimiterSound, NEW n \in Names, Allow(n), NEW m \in Names,
         now' = now, bucket'[m] = bucket[m]
  PROVE  LET b == bucket[m][made[m]]
         IN  Potential(m)' =
               IF m \in held /\ b.primed
                    /\ b.tokens + (now - b.last) * hist'.top < hist'.top * BurstFactor(m)
               THEN b.tokens + (now - b.last) * hist'.top ELSE hist'.top * BurstFactor(m)
<1>1. /\ made'[n] \in 1..MaxBuckets /\ n \in held'
      /\ made'[n] = made[n] \/ (n \notin held /\ made'[n] = made[n] + 1)
      /\ n \in held => made'[n] = made[n]
      /\ \A k \in Names : k # n => made'[k] = made[k] /\ (k \in held' <=> k \in held)
  BY AllowTypes
<1>2. CASE m # n \/ n \in held
  <2>1. made'[m] = made[m] /\ (m \in held' <=> m \in held)
    BY <1>1, <1>2
  <2> QED  BY <2>1 DEF Potential
<1>3. CASE m = n /\ n \notin held
  <2>1. made[n] + 1 \in 1..MaxBuckets /\ made'[n] = made[n] + 1 /\ made[n] \in Nat
    BY <1>1, <1>3, ConstantTypes DEF Allow, TypeOK
  <2>2. ~bucket'[m][made'[m]].primed
    BY <1>3, <2>1 DEF LimiterSound, Fresh
  <2> QED  BY <1>3, <2>2 DEF Potential
<1> QED  BY <1>2, <1>3

\* A request is given its tenant's bucket, at a rate that may be the highest so far.
LEMMA ArriveStep ==
  ASSUME TypeOK, Limiting, NEW i \in Threads, NEW key \in Keys \cup {Session}, RequestArrives(i, key)
  PROVE  TypeOK' /\ Limiting' /\ hist'.added = hist.added /\ hist'.twice = hist.twice
         /\ hist'.lost = hist.lost /\ UNCHANGED usage
<1>1. /\ UNCHANGED <<now, setting, bucket, usage, process, spent>>
      /\ served' = served + 1 /\ served < MaxRequests /\ req[i] = Idle
  BY DEF RequestArrives
<1>2. /\ TypeOK /\ LimiterSound /\ WithinPotential /\ WithinRate
      /\ hist \in History /\ hist.top \in Nat /\ now \in Nat /\ now <= MaxTime /\ MaxTime \in Nat
      /\ served' \in 0..MaxRequests
  BY <1>1, MeteringAssumption DEF Limiting, TypeOK, History
<1>3. CASE Limit <= 0
  <2>1. UNCHANGED <<req, made, held, hist>>
    BY <1>3 DEF RequestArrives
  <2>2. TypeOK'
    BY <1>1, <1>2, <2>1 DEF TypeOK, usage
  <2>3. Limiting'
    BY <1>1, <2>1, LimiterQuiet DEF limiter
  <2> QED  BY <1>1, <2>1, <2>2, <2>3
<1>4. CASE ~(Limit <= 0)
  <2> DEFINE new == [at |-> "tenant", key |-> key, gen |-> made'[Tenant], rate |-> Limit]
             high == Max({hist.top, Limit})
  <2>1. /\ Allow(Tenant) /\ hist' = [hist EXCEPT !.top = high] /\ req' = [req EXCEPT ![i] = new]
    BY <1>4 DEF RequestArrives
  <2>2. Limit \in Nat /\ Limit > 0
    <3>1. setting \in Settings
      BY <1>2 DEF TypeOK
    <3>2. setting.qps \in Qps \cup {0}
      BY <3>1 DEF Settings
    <3>3. Limit \in Nat
      <4>1. DefaultQps \in Nat /\ \A q \in Qps \cup {0} : q \in Nat
        BY ConstantTypes
      <4>2. setting.qps \in Nat
        BY <3>2, <4>1
      <4> QED  BY <4>1, <4>2 DEF Limit
    <3> QED  BY <1>4, <3>3
  <2>3. high \in Nat /\ hist.top <= high /\ Limit <= high
    BY <1>2, <2>2, MaxOfTwo
  <2> HIDE DEF high
  <2>4. /\ made' \in [Names -> 0..MaxBuckets] /\ held' \subseteq {m \in Names : made'[m] > 0}
        /\ made'[Tenant] \in 1..MaxBuckets
        /\ \A m \in Names : made'[m] = made[m] \/ made'[m] = made[m] + 1
    BY <1>2, <2>1, AllowTypes, ConstantTypes
  <2>5. new \in Request /\ new.at = "tenant" /\ new.gen = made'[Tenant] /\ new.rate = Limit
    BY <2>2, <2>4, ConstantTypes DEF Request
  <2> HIDE DEF new
  <2>6. /\ hist' \in History /\ hist'.top = high /\ hist'.adm = hist.adm /\ hist'.orphan = hist.orphan
        /\ hist'.added = hist.added /\ hist'.twice = hist.twice /\ hist'.lost = hist.lost
    BY <1>2, <2>1, <2>3 DEF History
  <2>7. req \in [Threads -> Request]
    BY <1>2 DEF TypeOK
  <2>8. req' \in [Threads -> Request] /\ req'[i] = new /\ \A j \in Threads : j # i => req'[j] = req[j]
    BY <2>1, <2>5, <2>7
  <2>9. TypeOK'
    BY <1>1, <1>2, <2>4, <2>6, <2>8 DEF TypeOK, History, usage
  <2>10. LimiterSound'
    <3>1. ASSUME NEW n \in Names, NEW g \in 1..MaxBuckets
          PROVE  /\ bucket'[n][g].tokens <= hist'.top * BurstFactor(n) /\ bucket'[n][g].last <= now'
                 /\ g > made'[n] => bucket'[n][g] = Fresh
      <4>1. /\ bucket[n][g].tokens <= hist.top * BurstFactor(n) /\ bucket[n][g].last <= now
            /\ g > made[n] => bucket[n][g] = Fresh
        BY <1>2 DEF LimiterSound
      <4>2. bucket[n][g].tokens \in Nat /\ BurstFactor(n) \in Nat /\ made[n] \in Nat
        <5>1. bucket[n] \in [1..MaxBuckets -> BucketState]
          BY <1>2 DEF TypeOK, BucketState
        <5>2. bucket[n][g] \in BucketState
          BY <5>1
        <5>3. made \in [Names -> 0..MaxBuckets]
          BY <1>2 DEF TypeOK
        <5>4. made[n] \in Nat
          BY <5>3, ConstantTypes
        <5> QED  BY <5>2, <5>4, ConstantTypes DEF BucketState
      <4>3. /\ hist.top * BurstFactor(n) <= high * BurstFactor(n)
            /\ hist.top * BurstFactor(n) \in Nat /\ high * BurstFactor(n) \in Nat
        BY <1>2, <2>3, <4>2, TimesMonotone
      <4>4. bucket[n][g].tokens <= high * BurstFactor(n)
        BY <4>1, <4>2, <4>3
      <4>5. g > made'[n] => g > made[n]
        BY <2>4, <4>2
      <4> QED  BY <1>1, <2>6, <4>1, <4>4, <4>5
    <3>2. ASSUME NEW j \in Threads, req'[j].at \in {"tenant", "key"}
          PROVE  /\ req'[j].gen \in 1..made'[NameOf(j)'] /\ req'[j].rate \in 1..hist'.top
                 /\ (req'[j].at = "key" => req'[j].key \in Keys)
      <4>1. CASE j = i
        <5>1. NameOf(j)' = Tenant
          BY <2>5, <2>8, <4>1 DEF NameOf
        <5>2. made'[Tenant] \in 1..made'[Tenant]
          BY <2>4, ConstantTypes
        <5> QED  BY <2>2, <2>3, <2>5, <2>6, <2>8, <4>1, <5>1, <5>2
      <4>2. CASE j # i
        <5>1. req'[j] = req[j] /\ NameOf(j)' = NameOf(j)
          BY <2>8, <4>2 DEF NameOf
        <5>2. req[j].gen \in 1..made[NameOf(j)] /\ req[j].rate \in 1..hist.top
              /\ (req[j].at = "key" => req[j].key \in Keys)
          BY <1>2, <3>2, <5>1 DEF LimiterSound
        <5>3. NameOf(j) \in Names
          BY <3>2, <5>1, <5>2, ConstantTypes DEF NameOf
        <5>4. made[NameOf(j)] \in Nat /\ made'[NameOf(j)] \in Nat /\ made[NameOf(j)] <= made'[NameOf(j)]
          <6>1. made \in [Names -> 0..MaxBuckets]
            BY <1>2 DEF TypeOK
          <6>2. made[NameOf(j)] \in 0..MaxBuckets
            BY <5>3, <6>1
          <6> QED  BY <2>4, <5>3, <6>2, ConstantTypes
        <5> QED  BY <1>2, <2>3, <2>6, <5>1, <5>2, <5>4
      <4> QED  BY <4>1, <4>2
    <3>3. \A n \in Names, t \in Moments : t > now' => hist'.adm[n][t] = hist'.adm[n][now' + 1]
      BY <1>1, <1>2, <2>6 DEF LimiterSound
    <3> QED  BY <3>1, <3>2, <3>3 DEF LimiterSound
  <2>11. WithinPotential'
    <3> SUFFICES ASSUME NEW n \in Names, NEW a \in Moments, a <= now
                 PROVE  hist.adm[n][now + 1] - hist.adm[n][a] + Potential(n)'
                          <= high * (BurstFactor(n) + now - a) + hist.orphan[n]
      BY <1>1, <2>6 DEF WithinPotential
    <3> DEFINE b == bucket[n][made[n]]
               primed == n \in held /\ b.primed
               tokens == IF primed THEN b.tokens ELSE 0
               idle == IF primed THEN now - b.last ELSE BurstFactor(n)
               adm == hist.adm[n][now + 1] - hist.adm[n][a]
               length == now - a
    <3>1. /\ BurstFactor(n) \in Nat /\ a \in Nat /\ now + 1 \in Moments /\ length \in Nat
          /\ BurstFactor(n) + now - a = BurstFactor(n) + length
      BY <1>2, ConstantTypes DEF Moments
    <3>2. hist.adm[n] \in [Moments -> Nat] /\ hist.orphan[n] \in Int /\ adm \in Int
      BY <1>2, <3>1 DEF History
    <3>3. primed => b \in BucketState /\ now - b.last \in Nat
      BY <1>2, PotentialIs
    <3>4. tokens \in Nat /\ idle \in Nat
      BY <3>1, <3>3 DEF BucketState
    <3>5. Potential(n) = IF tokens + idle * hist.top < hist.top * BurstFactor(n)
                         THEN tokens + idle * hist.top ELSE hist.top * BurstFactor(n)
      <4>1. CASE primed
        BY <4>1 DEF Potential
      <4>2. CASE ~primed
        <5>1. Potential(n) = hist.top * BurstFactor(n)
          BY <4>2 DEF Potential
        <5>2. idle * hist.top = hist.top * BurstFactor(n) /\ hist.top * BurstFactor(n) \in Nat
          BY <1>2, <3>1, <4>2, TimesMonotone
        <5> QED  BY <4>2, <5>1, <5>2
      <4> QED  BY <4>1, <4>2
    <3>6. Potential(n)' = IF tokens + idle * high < high * BurstFactor(n)
                          THEN tokens + idle * high ELSE high * BurstFactor(n)
      <4>1. Potential(n)' = IF primed /\ b.tokens + (now - b.last) * high < high * BurstFactor(n)
                            THEN b.tokens + (now - b.last) * high ELSE high * BurstFactor(n)
        BY <1>1, <1>2, <2>1, <2>6, AllowPotential, ConstantTypes
      <4>2. CASE primed
        BY <4>1, <4>2
      <4>3. CASE ~primed
        <5>1. idle * high = high * BurstFactor(n) /\ high * BurstFactor(n) \in Nat
          BY <2>3, <3>1, <4>3, TimesMonotone
        <5> QED  BY <4>1, <4>3, <5>1
      <4> QED  BY <4>2, <4>3
    <3>7. adm + Potential(n) <= hist.top * (BurstFactor(n) + length) + hist.orphan[n]
      BY <1>2, <3>1 DEF WithinPotential
    <3> HIDE DEF adm, length, tokens, idle
    <3>8. adm + Potential(n)' <= high * (BurstFactor(n) + length) + hist.orphan[n]
      <4>1. adm + (IF tokens + idle * hist.top < hist.top * BurstFactor(n)
                   THEN tokens + idle * hist.top ELSE hist.top * BurstFactor(n))
              <= hist.top * (BurstFactor(n) + length) + hist.orphan[n]
        BY <3>5, <3>7
      <4>2. hist.orphan[n] \in Int /\ adm \in Int /\ length \in Nat
        BY <3>1, <3>2
      <4>3. adm + (IF tokens + idle * high < high * BurstFactor(n)
                   THEN tokens + idle * high ELSE high * BurstFactor(n))
              <= high * (BurstFactor(n) + length) + hist.orphan[n]
        <5> DEFINE top == hist.top
                   burst == BurstFactor(n)
                   orphan == hist.orphan[n]
        <5>1. top \in Nat /\ burst \in Nat /\ orphan \in Int
          BY <1>2, <3>1, <4>2
        <5>2. top <= high /\ high \in Nat
          BY <2>3
        <5>3. adm + (IF tokens + idle * top < top * burst THEN tokens + idle * top ELSE top * burst)
                <= top * (burst + length) + orphan
          BY <4>1
        <5> HIDE DEF top, burst, orphan
        <5>4. adm + (IF tokens + idle * high < high * burst THEN tokens + idle * high ELSE high * burst)
                <= high * (burst + length) + orphan
          BY <3>4, <4>2, <5>1, <5>2, <5>3, RateRises
        <5> QED  BY <5>4 DEF burst, orphan
      <4> QED  BY <3>6, <4>3
    <3> QED  BY <3>1, <3>8 DEF adm
  <2>12. WithinRate'
    <3>1. \A n \in Names : hist.orphan[n] <= hist'.orphan[n]
      BY <1>2, <2>6 DEF History
    <3> QED  BY <1>1, <1>2, <2>3, <2>6, <2>9, <2>10, <2>11, <3>1, RateFollows
  <2> QED  BY <1>1, <2>6, <2>9, <2>10, <2>11, <2>12 DEF Limiting
<1> QED  BY <1>3, <1>4

\* A call takes at most what its bucket has come to, and adds an admission when it takes a token;
\* on a bucket that was thrown away it counts as an orphan's.
LEMMA ChargeStep ==
  ASSUME TypeOK, Limiting, NEW i \in Threads, Charge(i)
  PROVE  TypeOK' /\ Limiting' /\ hist'.added = hist.added /\ hist'.twice = hist.twice
         /\ hist'.lost = hist.lost /\ UNCHANGED usage
<1> DEFINE n == NameOf(i)
           g == req[i].gen
           old == bucket[n][g]
           b == Refill(old, req[i].rate, req[i].rate * BurstFactor(n))
           ok == b.tokens >= 1
           orphan == n \notin held \/ g # made[n]
           taken == IF ok THEN 1 ELSE 0
           left == IF ok THEN [b EXCEPT !.tokens = b.tokens - 1] ELSE b
           key == req[i].key
           further == ok /\ n = Tenant /\ key # Session
<1>1. /\ TypeOK /\ LimiterSound /\ WithinPotential /\ WithinRate
      /\ hist \in History /\ hist.top \in Nat /\ now \in Nat /\ now <= MaxTime /\ MaxTime \in Nat
      /\ made \in [Names -> 0..MaxBuckets] /\ req \in [Threads -> Request]
      /\ bucket \in [Names -> [1..MaxBuckets -> BucketState]]
      /\ held \subseteq {m \in Names : made[m] > 0}
  BY MeteringAssumption DEF Limiting, TypeOK, History, BucketState
<1>2. /\ UNCHANGED <<now, setting, served, usage, process, spent>>
      /\ req[i].at \in {"tenant", "key"}
  BY DEF Charge
<1>3. /\ req[i].gen \in 1..made[NameOf(i)] /\ req[i].rate \in 1..hist.top
      /\ (req[i].at = "key" => req[i].key \in Keys)
  BY <1>1, <1>2 DEF LimiterSound
<1>4. n \in Names /\ key \in Keys \cup {Session}
  BY <1>1, <1>2, <1>3, ConstantTypes DEF NameOf, Request
<1>5. /\ made[n] \in Nat /\ made[n] <= MaxBuckets /\ BurstFactor(n) \in Nat
      /\ \A m \in Names : made[m] \in Nat
  BY <1>1, <1>4, ConstantTypes
<1>6. g \in 1..made[n] /\ g \in 1..MaxBuckets /\ g \in 0..MaxBuckets
  BY <1>3, <1>5, ConstantTypes
<1>7. old \in BucketState /\ old.last <= now /\ old.tokens <= hist.top * BurstFactor(n)
  <2>1. bucket[n] \in [1..MaxBuckets -> BucketState]
    BY <1>1, <1>4
  <2>2. bucket[n][g].tokens <= hist.top * BurstFactor(n) /\ bucket[n][g].last <= now
    BY <1>1, <1>4, <1>6 DEF LimiterSound
  <2> QED  BY <1>6, <2>1, <2>2
<1>8. /\ b \in BucketState /\ b.last = now /\ b.primed
      /\ b.tokens <= hist.top * BurstFactor(n)
      /\ old.primed => b.tokens <= old.tokens + (now - old.last) * hist.top
  <2>1. req[i].rate \in Nat /\ req[i].rate * BurstFactor(n) \in Nat
    BY <1>1, <1>3, <1>5, TimesMonotone
  <2>2. b \in BucketState /\ b.last = now /\ b.primed
    BY <1>1, <1>7, <2>1, RefillTypes
  <2>3. /\ b.tokens <= hist.top * BurstFactor(n)
        /\ old.primed => b.tokens <= old.tokens + (now - old.last) * hist.top
    <3> HIDE DEF old, n
    <3> QED  BY <1>1, <1>3, <1>5, <1>7, RefillBound
  <2> QED  BY <2>2, <2>3
<1>9. /\ bucket' = [bucket EXCEPT ![n][g] = IF ok THEN [b EXCEPT !.tokens = @ - 1] ELSE b]
      /\ hist' = IF ~ok THEN hist ELSE
           [hist EXCEPT !.adm[n] = [t \in Moments |-> IF t > now THEN @[t] + 1 ELSE @[t]],
                        !.orphan[n] = IF orphan THEN @ + 1 ELSE @]
  BY DEF Charge
<1>10. IF further
       THEN Allow(key) /\ req' = [req EXCEPT ![i].at = "key", ![i].gen = made'[key]]
       ELSE /\ req' = [req EXCEPT ![i] = IF ok THEN [Idle EXCEPT !.at = "serve"] ELSE Idle]
            /\ UNCHANGED <<made, held>>
  BY DEF Charge
<1> HIDE DEF b, old
<1>11. /\ b.tokens \in Nat /\ taken \in {0, 1} /\ taken <= b.tokens
  BY <1>8 DEF BucketState
<1>12. left \in BucketState /\ left.tokens = b.tokens - taken /\ left.last = now /\ left.primed
  BY <1>8, <1>11 DEF BucketState
<1>13. bucket' = [bucket EXCEPT ![n][g] = left]
  <2>1. bucket' = [bucket EXCEPT ![n] = [bucket[n] EXCEPT ![g] = IF ok THEN [b EXCEPT !.tokens = @ - 1] ELSE b]]
    BY <1>9
  <2> QED  BY <2>1
<1> HIDE DEF left
<1>14. /\ bucket' \in [Names -> [1..MaxBuckets -> BucketState]] /\ bucket'[n][g] = left
       /\ \A m \in Names, h \in 1..MaxBuckets : m # n \/ h # g => bucket'[m][h] = bucket[m][h]
  <2>1. bucket[n] \in [1..MaxBuckets -> BucketState]
    BY <1>1, <1>4
  <2> DEFINE row == [bucket[n] EXCEPT ![g] = left]
  <2>2. row \in [1..MaxBuckets -> BucketState] /\ row[g] = left
        /\ \A h \in 1..MaxBuckets : h # g => row[h] = bucket[n][h]
    BY <1>6, <1>12, <2>1
  <2>3. bucket' = [bucket EXCEPT ![n] = row]
    BY <1>13
  <2> HIDE DEF row
  <2> QED  BY <1>1, <1>4, <2>2, <2>3
<1>15. /\ hist' \in History /\ hist'.top = hist.top /\ hist'.added = hist.added
       /\ hist'.twice = hist.twice /\ hist'.lost = hist.lost
       /\ \A m \in Names \ {n} : hist'.adm[m] = hist.adm[m] /\ hist'.orphan[m] = hist.orphan[m]
       /\ \A t \in Moments : hist'.adm[n][t] = IF t > now THEN hist.adm[n][t] + taken ELSE hist.adm[n][t]
       /\ hist'.orphan[n] = IF orphan THEN hist.orphan[n] + taken ELSE hist.orphan[n]
  <2>1. CASE ~ok
    <3>1. hist.adm[n] \in [Moments -> Nat] /\ hist.orphan[n] \in Nat /\ hist' = hist
      BY <1>1, <1>4, <1>9, <2>1 DEF History
    <3> QED  BY <1>1, <2>1, <3>1
  <2>2. CASE ok
    <3>1. orphan \in BOOLEAN
      OBVIOUS
    <3>2. hist' = [hist EXCEPT !.adm[n] = [t \in Moments |-> IF t > now THEN @[t] + 1 ELSE @[t]],
                               !.orphan[n] = IF orphan THEN @ + 1 ELSE @]
      BY <1>9, <2>2
    <3> HIDE DEF orphan, n
    <3>3. /\ hist' \in History
          /\ \A m \in Names \ {n} : hist'.adm[m] = hist.adm[m] /\ hist'.orphan[m] = hist.orphan[m]
          /\ \A t \in Moments : hist'.adm[n][t] = IF t > now THEN hist.adm[n][t] + 1 ELSE hist.adm[n][t]
          /\ hist'.orphan[n] = IF orphan THEN hist.orphan[n] + 1 ELSE hist.orphan[n]
          /\ hist'.top = hist.top /\ hist'.added = hist.added /\ hist'.twice = hist.twice
          /\ hist'.lost = hist.lost
      BY <1>1, <1>4, <3>1, <3>2, AdmissionTypes
    <3> QED  BY <2>2, <3>3
  <2> QED  BY <2>1, <2>2
<1> HIDE DEF ok, orphan, taken
<1>16. /\ made' \in [Names -> 0..MaxBuckets] /\ held' \subseteq {m \in Names : made'[m] > 0}
       /\ \A m \in Names : /\ made'[m] = made[m] \/ (m \notin held /\ made'[m] = made[m] + 1)
                           /\ m \in held => m \in held'
                           /\ m \in held' /\ m \notin held => made'[m] = made[m] + 1
       /\ further => key \in Keys /\ made'[key] \in 1..MaxBuckets
  <2>1. CASE ~further
    BY <1>1, <1>10, <2>1
  <2>2. CASE further
    <3>1. Allow(key) /\ key \in Keys /\ key \in Names
      BY <1>4, <1>10, <2>2, ConstantTypes
    <3>2. held' = held \cup {key} /\ made' = [made EXCEPT ![key] = IF key \in held THEN made[key] ELSE made[key] + 1]
      BY <3>1 DEF Allow
    <3>3. /\ made' \in [Names -> 0..MaxBuckets] /\ held' \subseteq {m \in Names : made'[m] > 0}
          /\ made'[key] \in 1..MaxBuckets
      BY <1>1, <3>1, AllowTypes
    <3> QED  BY <1>1, <3>1, <3>2, <3>3
  <2> QED  BY <2>1, <2>2
<1>17. /\ req' \in [Threads -> Request] /\ \A j \in Threads : j # i => req'[j] = req[j]
       /\ req'[i].at \in {"tenant", "key"} =>
            /\ further /\ req'[i].at = "key" /\ req'[i].key = key /\ req'[i].gen = made'[key]
            /\ req'[i].rate = req[i].rate
  <2>1. req[i] \in Request
    BY <1>1
  <2>2. CASE further
    <3> DEFINE r == [req[i] EXCEPT !.at = "key", !.gen = made'[key]]
    <3>1. req' = [req EXCEPT ![i] = r]
      BY <1>10, <2>1, <2>2
    <3>2. made'[key] \in 0..MaxBuckets
      BY <1>16, <2>2, ConstantTypes
    <3>3. r \in Request /\ r.at = "key" /\ r.key = key /\ r.gen = made'[key] /\ r.rate = req[i].rate
      BY <2>1, <3>2 DEF Request
    <3> HIDE DEF r
    <3> QED  BY <1>1, <2>2, <3>1, <3>3
  <2>3. CASE ~further
    <3> DEFINE r == IF ok THEN [Idle EXCEPT !.at = "serve"] ELSE Idle
    <3>1. req' = [req EXCEPT ![i] = r]
      BY <1>10, <2>3
    <3>2. r \in Request /\ r.at \notin {"tenant", "key"}
      BY ConstantTypes DEF Idle, Request
    <3> HIDE DEF r
    <3> QED  BY <1>1, <3>1, <3>2
  <2> QED  BY <2>2, <2>3
<1> HIDE DEF further
<1>18. TypeOK'
  BY <1>1, <1>2, <1>14, <1>15, <1>16, <1>17 DEF TypeOK, BucketState, History, usage
<1>19. LimiterSound'
  <2>1. ASSUME NEW m \in Names, NEW h \in 1..MaxBuckets
        PROVE  /\ bucket'[m][h].tokens <= hist'.top * BurstFactor(m) /\ bucket'[m][h].last <= now'
               /\ h > made'[m] => bucket'[m][h] = Fresh
    <3>1. made'[m] \in Nat /\ made[m] \in Nat /\ made[m] <= made'[m]
      BY <1>5, <1>16
    <3>2. CASE m = n /\ h = g
      <4>1. bucket'[m][h] = left /\ ~(h > made'[m])
        BY <1>6, <1>14, <3>1, <3>2
      <4>2. hist.top * BurstFactor(n) \in Nat
        BY <1>1, <1>5, TimesMonotone
      <4>3. left.tokens <= hist.top * BurstFactor(n)
        BY <1>8, <1>11, <1>12, <4>2
      <4> QED  BY <1>1, <1>2, <1>12, <1>15, <3>2, <4>1, <4>3
    <3>3. CASE ~(m = n /\ h = g)
      <4>1. bucket'[m][h] = bucket[m][h]
        BY <1>14, <3>3
      <4>2. /\ bucket[m][h].tokens <= hist.top * BurstFactor(m) /\ bucket[m][h].last <= now
            /\ h > made[m] => bucket[m][h] = Fresh
        BY <1>1 DEF LimiterSound
      <4>3. h > made'[m] => h > made[m]
        BY <3>1
      <4> QED  BY <1>2, <1>15, <4>1, <4>2, <4>3
    <3> QED  BY <3>2, <3>3
  <2>2. ASSUME NEW j \in Threads, req'[j].at \in {"tenant", "key"}
        PROVE  /\ req'[j].gen \in 1..made'[NameOf(j)'] /\ req'[j].rate \in 1..hist'.top
               /\ (req'[j].at = "key" => req'[j].key \in Keys)
    <3>1. CASE j = i
      <4>1. /\ further /\ req'[i].at = "key" /\ req'[i].key = key /\ req'[i].gen = made'[key]
            /\ req'[i].rate = req[i].rate
        BY <1>17, <2>2, <3>1
      <4>2. NameOf(j)' = key
        BY <3>1, <4>1 DEF NameOf
      <4>3. key \in Keys /\ made'[key] \in 1..made'[key]
        BY <1>16, <4>1, ConstantTypes
      <4> QED  BY <1>3, <1>15, <3>1, <4>1, <4>2, <4>3
    <3>2. CASE j # i
      <4>1. req'[j] = req[j] /\ NameOf(j)' = NameOf(j)
        BY <1>17, <3>2 DEF NameOf
      <4>2. req[j].gen \in 1..made[NameOf(j)] /\ req[j].rate \in 1..hist.top
            /\ (req[j].at = "key" => req[j].key \in Keys)
        BY <1>1, <2>2, <4>1 DEF LimiterSound
      <4>3. NameOf(j) \in Names
        BY <2>2, <4>1, <4>2, ConstantTypes DEF NameOf
      <4>4. made[NameOf(j)] \in Nat /\ made'[NameOf(j)] \in Nat /\ made[NameOf(j)] <= made'[NameOf(j)]
        BY <1>5, <1>16, <4>3
      <4> QED  BY <1>15, <4>1, <4>2, <4>4
    <3> QED  BY <3>1, <3>2
  <2>3. ASSUME NEW m \in Names, NEW t \in Moments, t > now'
        PROVE  hist'.adm[m][t] = hist'.adm[m][now' + 1]
    <3>1. now + 1 \in Moments /\ now + 1 > now /\ t > now
      BY <1>1, <1>2, <2>3 DEF Moments
    <3>2. hist.adm[m][t] = hist.adm[m][now + 1]
      BY <1>1, <3>1 DEF LimiterSound
    <3> QED  BY <1>2, <1>15, <3>1, <3>2
  <2> QED  BY <2>1, <2>2, <2>3 DEF LimiterSound
<1>20. ASSUME NEW m \in Names
       PROVE  /\ Potential(m) \in Nat /\ Potential(m)' \in Nat
              /\ m # n \/ orphan => Potential(m)' = Potential(m)
              /\ m = n /\ ~orphan => Potential(m)' + taken <= Potential(m)
  <2>1. /\ Potential(m) \in Nat /\ hist.top * BurstFactor(m) \in Nat
        /\ m \notin held \/ ~bucket[m][made[m]].primed => Potential(m) = hist.top * BurstFactor(m)
    BY <1>1, PotentialIs
  <2>2. Potential(m)' \in Nat
    <3>1. (\A k \in Names : Potential(k) \in Nat)'
      BY <1>18, <1>19, PotentialNatNext
    <3> QED  BY <3>1
  <2>3. CASE m \notin held
    <3>1. m = n => orphan
      BY <2>3 DEF orphan
    <3>2. m \notin held' \/ ~bucket'[m][made'[m]].primed
      <4>1. CASE m \in held'
        <5>1. made'[m] = made[m] + 1 /\ made'[m] \in 0..MaxBuckets /\ made[m] \in Nat
          BY <1>5, <1>16, <2>3, <4>1
        <5>2. made[m] + 1 \in 1..MaxBuckets /\ made[m] + 1 > made[m] /\ (m = n => made[m] + 1 # g)
          BY <1>6, <5>1, ConstantTypes
        <5>3. bucket'[m][made[m] + 1] = Fresh
          BY <1>1, <1>14, <5>2 DEF LimiterSound
        <5> QED  BY <5>1, <5>3 DEF Fresh
      <4> QED  BY <4>1
    <3>3. Potential(m)' = hist.top * BurstFactor(m)
      BY <1>15, <3>2 DEF Potential
    <3> QED  BY <2>1, <2>2, <2>3, <3>1, <3>3
  <2>4. CASE m \in held
    <3>1. made'[m] = made[m] /\ m \in held' /\ made[m] \in 1..MaxBuckets
      <4>1. made[m] \in 0..MaxBuckets /\ made[m] > 0
        BY <1>1, <2>4
      <4> QED  BY <1>16, <2>4, <4>1, ConstantTypes
    <3>2. CASE m # n \/ orphan
      <4>1. bucket'[m][made[m]] = bucket[m][made[m]]
        BY <1>14, <2>4, <3>1, <3>2 DEF orphan
      <4>2. Potential(m)' = Potential(m)
        BY <1>2, <1>15, <2>4, <3>1, <4>1 DEF Potential
      <4> QED  BY <2>1, <2>2, <3>2, <4>2
    <3>3. CASE m = n /\ ~orphan
      <4>1. g = made[m] /\ bucket'[m][made'[m]] = left
        BY <1>14, <3>1, <3>3 DEF orphan
      <4>2. Potential(m)' = IF left.tokens + (now - now) * hist.top < hist.top * BurstFactor(m)
                            THEN left.tokens + (now - now) * hist.top ELSE hist.top * BurstFactor(m)
        BY <1>2, <1>12, <1>15, <3>1, <4>1 DEF Potential
      <4>3. (now - now) * hist.top = 0 /\ left.tokens \in Nat
        BY <1>1, <1>12 DEF BucketState
      <4>4. Potential(m)' <= left.tokens
        BY <2>1, <4>2, <4>3
      <4>5. b.tokens <= Potential(m)
        <5>1. CASE ~old.primed
          BY <1>8, <2>1, <3>3, <4>1, <5>1 DEF old
        <5>2. CASE old.primed
          <6>1. /\ bucket[m][made[m]] = old
                /\ bucket[m][made[m]].primed => Potential(m) =
                     IF bucket[m][made[m]].tokens + (now - bucket[m][made[m]].last) * hist.top < hist.top * BurstFactor(m)
                     THEN bucket[m][made[m]].tokens + (now - bucket[m][made[m]].last) * hist.top
                     ELSE hist.top * BurstFactor(m)
            BY <1>1, <2>4, <3>3, <4>1, PotentialIs DEF old
          <6> QED  BY <1>8, <3>3, <5>2, <6>1
        <5> QED  BY <5>1, <5>2
      <4> QED  BY <1>11, <1>12, <2>1, <2>2, <3>3, <4>3, <4>4, <4>5
    <3> QED  BY <3>2, <3>3
  <2> QED  BY <2>3, <2>4
<1>21. WithinPotential'
  <2> SUFFICES ASSUME NEW m \in Names, NEW a \in Moments, a <= now
               PROVE  hist'.adm[m][now + 1] - hist'.adm[m][a] + Potential(m)'
                        <= hist.top * (BurstFactor(m) + now - a) + hist'.orphan[m]
    BY <1>2, <1>15 DEF WithinPotential
  <2> DEFINE bound == hist.top * (BurstFactor(m) + now - a)
  <2>1. /\ hist.adm[m][now + 1] - hist.adm[m][a] + Potential(m) <= bound + hist.orphan[m]
        /\ now + 1 \in Moments /\ now + 1 > now /\ ~(a > now)
    BY <1>1 DEF WithinPotential, Moments
  <2>2. /\ hist.adm[m] \in [Moments -> Nat] /\ hist.orphan[m] \in Nat /\ BurstFactor(m) \in Nat
        /\ a \in Nat
    BY <1>1, ConstantTypes DEF History, Moments
  <2>3. hist.adm[m][now + 1] \in Nat /\ hist.adm[m][a] \in Nat /\ bound \in Nat
    <3>1. BurstFactor(m) + now - a \in Nat
      BY <1>1, <2>2
    <3>2. bound \in Nat
      BY <1>1, <3>1, TimesMonotone
    <3> QED  BY <2>1, <2>2, <3>2
  <2> HIDE DEF bound
  <2>4. /\ Potential(m) \in Nat /\ Potential(m)' \in Nat
        /\ m # n \/ orphan => Potential(m)' = Potential(m)
        /\ m = n /\ ~orphan => Potential(m)' + taken <= Potential(m)
    BY <1>20
  <2>5. CASE m # n
    BY <1>15, <2>1, <2>4, <2>5 DEF bound
  <2>6. CASE m = n
    <3>1. /\ hist'.adm[m][now + 1] = hist.adm[m][now + 1] + taken
          /\ hist'.adm[m][a] = hist.adm[m][a]
          /\ hist'.orphan[m] = IF orphan THEN hist.orphan[m] + taken ELSE hist.orphan[m]
      BY <1>15, <2>1, <2>6
    <3>2. hist'.adm[m][now + 1] - hist'.adm[m][a] + Potential(m)' <= bound + hist'.orphan[m]
      BY <1>11, <2>1, <2>2, <2>3, <2>4, <2>6, <3>1
    <3> QED  BY <3>2 DEF bound
  <2> QED  BY <2>5, <2>6
<1>22. WithinRate'
  <2>1. \A m \in Names : /\ hist.orphan[m] <= hist'.orphan[m]
                         /\ \A t \in Moments : t <= now => hist'.adm[m][t] = hist.adm[m][t]
    <3> TAKE m \in Names
    <3>1. hist.orphan[m] \in Nat
      BY <1>1 DEF History
    <3>2. CASE m # n
      BY <1>15, <3>1, <3>2
    <3>3. CASE m = n
      <4>1. hist'.orphan[m] = hist.orphan[m] \/ hist'.orphan[m] = hist.orphan[m] + taken
        BY <1>15, <3>3
      <4>2. hist.orphan[m] <= hist'.orphan[m]
        BY <1>11, <3>1, <4>1
      <4>3. ASSUME NEW t \in Moments, t <= now PROVE hist'.adm[m][t] = hist.adm[m][t]
        <5>1. ~(t > now)
          BY <1>1, <4>3 DEF Moments
        <5> QED  BY <1>15, <3>3, <5>1
      <4> QED  BY <4>2, <4>3
    <3> QED  BY <3>2, <3>3
  <2>2. hist.top <= hist'.top
    BY <1>1, <1>15
  <2> QED  BY <1>1, <1>2, <1>18, <1>19, <1>21, <2>1, <2>2, RateFollows
<1> QED  BY <1>2, <1>15, <1>18, <1>19, <1>21, <1>22 DEF Limiting

-----------------------------------------------------------------------------
(* The specification.                                                        *)

LEMMA InitSound == Init => IInv
<1> SUFFICES ASSUME Init PROVE IInv
  OBVIOUS
<1>1. /\ now = 0 /\ setting \in [kind: {"rate"}, qps: Qps]
      /\ bucket = [n \in Names |-> [g \in 1..MaxBuckets |-> Fresh]]
      /\ made = [n \in Names |-> 0] /\ held = {}
      /\ req = [i \in Threads |-> Idle] /\ served = 0
      /\ buffer = NoCounts /\ drained = NoCounts /\ flushing = FALSE /\ rows = NoCounts
      /\ process = "up" /\ spent = [stops |-> 0, changes |-> 0, faults |-> 0]
      /\ hist = [adm |-> NoAdmissions, orphan |-> [n \in Names |-> 0], top |-> 0,
                 added |-> NoCounts, twice |-> NoCounts, lost |-> NoCounts]
  BY DEF Init
<1>2. hist \in History /\ hist.top = 0 /\ hist.adm = NoAdmissions /\ hist.orphan = [n \in Names |-> 0]
      /\ hist.added = NoCounts /\ hist.twice = NoCounts /\ hist.lost = NoCounts
  BY <1>1, ConstantTypes DEF History, NoAdmissions
<1>3. TypeOK
  <2>1. Fresh \in BucketState /\ Idle \in Request
    BY ConstantTypes DEF Fresh, BucketState, Idle, Request
  <2>2. bucket \in [Names -> [1..MaxBuckets -> BucketState]] /\ made \in [Names -> 0..MaxBuckets]
    BY <1>1, <2>1, ConstantTypes
  <2>3. spent \in Spent /\ setting \in Settings
    BY <1>1, MeteringAssumption DEF Spent, Settings
  <2>4. req \in [Threads -> Request]
    BY <1>1, <2>1
  <2>5. /\ now \in 0..MaxTime /\ served \in 0..MaxRequests /\ flushing \in BOOLEAN
        /\ held \subseteq {n \in Names : made[n] > 0}
        /\ buffer \in Counts /\ drained \in Counts /\ rows \in Counts
    <3>1. MaxTime \in Nat /\ MaxRequests \in Nat
      BY MeteringAssumption
    <3>2. now \in 0..MaxTime /\ served \in 0..MaxRequests
      BY <1>1, <3>1
    <3>3. NoCounts \in Counts
      BY ConstantTypes
    <3>4. buffer \in Counts /\ drained \in Counts /\ rows \in Counts /\ flushing \in BOOLEAN
      BY <1>1, <3>3
    <3>5. held \subseteq {n \in Names : made[n] > 0}
      BY <1>1
    <3> QED  BY <3>2, <3>4, <3>5
  <2>6. process \in {"up", "stopping", "drained", "exited"}
    BY <1>1
  <2> QED
    BY <1>2, <2>2, <2>3, <2>4, <2>5, <2>6 DEF TypeOK, BucketState, History, Spent
<1>4. \A n \in Names, t \in Moments : hist.adm[n][t] = 0 /\ hist.orphan[n] = 0
  BY <1>2 DEF NoAdmissions
<1>5. now + 1 \in Moments /\ MaxTime \in Nat /\ \A n \in Names : BurstFactor(n) \in Nat
  BY <1>1, ConstantTypes DEF Moments
<1>6. LimiterSound
  <2>1. \A n \in Names : 0 * BurstFactor(n) = 0
    BY ConstantTypes
  <2>2. \A n \in Names, g \in 1..MaxBuckets :
          /\ bucket[n][g].tokens <= hist.top * BurstFactor(n) /\ bucket[n][g].last <= now
          /\ g > made[n] => bucket[n][g] = Fresh
    BY <1>1, <1>2, <2>1 DEF Fresh
  <2> QED  BY <1>1, <1>4, <1>5, <2>2 DEF LimiterSound, Idle
<1>7. WithinPotential
  <2> SUFFICES ASSUME NEW n \in Names, NEW a \in Moments, a <= now
               PROVE  hist.adm[n][now + 1] - hist.adm[n][a] + Potential(n)
                        <= hist.top * (BurstFactor(n) + now - a) + hist.orphan[n]
    BY DEF WithinPotential
  <2>1. Potential(n) = 0 * BurstFactor(n)
    BY <1>1, <1>2 DEF Potential
  <2>2. BurstFactor(n) \in Nat /\ a \in Nat
    BY <1>5 DEF Moments
  <2> QED  BY <1>1, <1>2, <1>4, <1>5, <2>1, <2>2
<1>8. WithinRate
  <2> SUFFICES ASSUME NEW n \in Names, NEW a \in 0..now, NEW b \in a..now
               PROVE  hist.adm[n][b + 1] - hist.adm[n][a]
                        <= hist.top * (BurstFactor(n) + b - a) + hist.orphan[n]
    BY DEF WithinRate
  <2>1. a = 0 /\ b = 0 /\ a \in Moments /\ b + 1 \in Moments
    BY <1>1, <1>5 DEF Moments
  <2> QED  BY <1>2, <1>4, <1>5, <2>1
<1>9. FlushSound /\ UsageConserved
  BY <1>1, <1>2 DEF FlushSound, UsageConserved, NoCounts
<1> QED  BY <1>3, <1>6, <1>7, <1>8, <1>9 DEF IInv

LEMMA IInvIs == IInv <=> TypeOK /\ Limiting /\ Counting
  BY DEF IInv, Limiting, Counting

LEMMA NextSound ==
  ASSUME IInv, [Next]_vars
  PROVE  TypeOK' /\ Limiting' /\ Counting'
<1>1. TypeOK /\ Limiting /\ Counting
  BY IInvIs
<1>2. ASSUME NEW i \in Threads, Charge(i) PROVE TypeOK' /\ Limiting' /\ Counting'
  BY <1>1, <1>2, ChargeStep, CounterQuiet
<1>3. ASSUME NEW i \in Threads, NEW k \in Keys \cup {Session}, RequestArrives(i, k)
      PROVE  TypeOK' /\ Limiting' /\ Counting'
  BY <1>1, <1>3, ArriveStep, CounterQuiet
<1>4. CASE EvictIdle
  <2>1. UNCHANGED <<usage, hist>>
    BY <1>4 DEF EvictIdle
  <2> QED  BY <1>1, <1>4, <2>1, EvictStep, CounterQuiet
<1>5. CASE Tick
  <2>1. UNCHANGED <<usage, hist>>
    BY <1>5 DEF Tick
  <2> QED  BY <1>1, <1>5, <2>1, TickStep, CounterQuiet
<1>6. CASE Exit
  BY <1>6, ExitStep
<1>7. CASE UNCHANGED vars
  <2>1. TypeOK'
    BY <1>1, <1>7 DEF TypeOK, vars, limiter, usage
  <2>2. Limiting' /\ Counting'
    BY <1>1, <1>7, LimiterQuiet, CounterQuiet DEF vars
  <2> QED  BY <2>1, <2>2
<1> QED  BY <1>1, <1>2, <1>3, <1>4, <1>5, <1>6, <1>7, UsageSteps DEF Next

\* The strengthened invariant holds in every behaviour of the limiter and the counter.
THEOREM Invariance == Spec => []IInv
<1>1. Init => IInv
  BY InitSound
<1>2. IInv /\ [Next]_vars => IInv'
  <2> SUFFICES ASSUME IInv, [Next]_vars PROVE IInv'
    OBVIOUS
  <2>1. TypeOK' /\ Limiting' /\ Counting'
    BY NextSound
  <2> QED  BY <2>1 DEF IInv, Limiting, Counting
<1> QED  BY <1>1, <1>2, PTL DEF Spec

\* The state of the limiter, the counter and the process has its types.
THEOREM TypeCorrect == Spec => []TypeOK
<1>1. IInv => TypeOK
  BY DEF IInv
<1> QED  BY <1>1, Invariance, PTL

\* However its requests interleave, with buckets evicted under them and settings changed, one
\* process admits in no interval more than a burst and what the highest rate gives in it
\* (bucket.go allow, limiter.go evictIdle).
THEOREM WithinRateAlways == Spec => []WithinRate
<1>1. IInv => WithinRate
  BY DEF IInv
<1> QED  BY <1>1, Invariance, PTL

\* No swap, upsert, failed flush or restore loses a count or writes it twice, but for an upsert
\* applied in spite of its error and for the end of the process (counter.go Add, Flush, restore).
THEOREM UsageConservedAlways == Spec => []UsageConserved
<1>1. IInv => UsageConserved
  BY DEF IInv
<1> QED  BY <1>1, Invariance, PTL

-----------------------------------------------------------------------------
(* One question: QueryPipeline.                                              *)

Q == INSTANCE QueryPipeline

\* What is assumed of the constants is assumed of the instance.
LEMMA SameAssumption == Q!QueryAssumption
BY QueryAssumption DEF Q!QueryAssumption, Q!ToSet, ToSet, Q!IsFiniteSet, IsFiniteSet

-----------------------------------------------------------------------------
(* Sequences.                                                                *)

\* A set of naturals has a least element.
LEMMA WellOrder ==
  ASSUME NEW T \in SUBSET Nat, T # {}
  PROVE  \E x \in T : \A y \in T : x <= y
<1> DEFINE R == {ss \in Nat \X Nat : ss[1] < ss[2]}
<1>1. IsWellFoundedOn(R, Nat)
  BY NatLessThanWellFounded DEF OpToRel
<1>2. \A x, y \in Nat : y < x => <<y, x>> \in R
  OBVIOUS
<1>3. \E x \in T : \A y \in T : ~ (<<y, x>> \in R)
  <2> HIDE DEF R
  <2> QED  BY <1>1, WFMin
<1>4. PICK x \in T : \A y \in T : ~ (<<y, x>> \in R)
  BY <1>3
<1> HIDE DEF R
<1>5. \A y \in T : x <= y
  <2> TAKE y \in T
  <2>1. x \in Nat /\ y \in Nat /\ ~ (y < x)
    BY <1>2, <1>4
  <2> QED  BY <2>1
<1> QED  BY <1>5

\* A function on 1..n is a sequence of n elements.
LEMMA AsSequence ==
  ASSUME NEW S, NEW n \in Nat, NEW f \in [1..n -> S]
  PROVE  f \in Seq(S) /\ Len(f) = n
<1>1. f \in Seq(S)
  BY SeqDef
<1> QED  BY <1>1, LenProperties

\* The two copies of an operator of FiniteSets agree.
LEMMA SameCardinality == \A S : Q!Cardinality(S) = Cardinality(S)
BY DEF Q!Cardinality, Cardinality

\* Ascending lists the elements of a set of indexes.
LEMMA AscendingLists ==
  ASSUME NEW m \in Nat, NEW S \in SUBSET (1..m)
  PROVE  Q!Ascending(S) \in Seq(S) /\ Len(Q!Ascending(S)) <= m
<1> DEFINE rank(i) == Q!Cardinality(S \cap 1..i)
           n == Q!Cardinality(S)
<1>1. IsFiniteSet(S) /\ n \in Nat /\ n <= m
  <2>1. IsFiniteSet(1..m) /\ Cardinality(1..m) = m
    BY FS_Interval
  <2> QED  BY <2>1, FS_Subset, FS_CardinalityType, SameCardinality
<1>2. \A i \in Nat : IsFiniteSet(S \cap 1..i) /\ rank(i) \in Nat
  <2> TAKE i \in Nat
  <2>1. S \cap 1..i \in SUBSET S
    OBVIOUS
  <2> QED  BY <1>1, <2>1, FS_Subset, FS_CardinalityType, SameCardinality
<1>3. rank(0) = 0 /\ rank(m) = n
  <2>1. 1..0 = {}
    OBVIOUS
  <2>2. S \cap 1..0 = {} /\ S \cap 1..m = S
    BY <2>1
  <2> QED  BY <2>2, FS_EmptySet, SameCardinality
<1>4. \A i \in Nat : rank(i + 1) = IF i + 1 \in S THEN rank(i) + 1 ELSE rank(i)
  <2> TAKE i \in Nat
  <2>1. i + 1 \notin S \cap 1..i
    OBVIOUS
  <2>2. CASE i + 1 \in S
    <3>1. S \cap 1..(i + 1) = (S \cap 1..i) \cup {i + 1}
      BY <2>2
    <3> QED  BY <1>2, <2>1, <2>2, <3>1, FS_AddElement, SameCardinality
  <2>3. CASE i + 1 \notin S
    <3>1. S \cap 1..(i + 1) = S \cap 1..i
      BY <2>3
    <3> QED  BY <2>3, <3>1
  <2> QED  BY <2>2, <2>3
<1>5. ASSUME NEW j \in 1..n PROVE \E i \in S : rank(i) = j
  <2> DEFINE T == {i \in Nat : rank(i) >= j}
  <2> HIDE DEF rank, n
  <2>1. m \in T
    BY <1>1, <1>3
  <2>2. PICK i \in T : \A y \in T : i <= y
    BY <2>1, WellOrder
  <2>3. i \in Nat /\ rank(i) >= j /\ i # 0
    BY <1>1, <1>3, <2>2
  <2>4. i - 1 \in Nat /\ (i - 1) + 1 = i
    BY <2>3
  <2>5. rank(i) = IF i \in S THEN rank(i - 1) + 1 ELSE rank(i - 1)
    BY <1>4, <2>4
  <2>6. ~ (rank(i - 1) >= j)
    BY <2>2, <2>4
  <2>7. rank(i) \in Nat /\ rank(i - 1) \in Nat /\ j \in Nat
    <3>1. rank(i) \in Nat /\ rank(i - 1) \in Nat
      BY <1>2, <2>3, <2>4
    <3>2. j \in Nat
      BY <1>1
    <3> QED  BY <3>1, <3>2
  <2>8. i \in S
    BY <2>3, <2>5, <2>6, <2>7
  <2> QED  BY <2>3, <2>5, <2>6, <2>7, <2>8
<1>6. Q!Ascending(S) = [j \in 1..n |-> CHOOSE i \in S : rank(i) = j]
  BY DEF Q!Ascending
<1> HIDE DEF rank, n
<1>7. Q!Ascending(S) \in [1..n -> S]
  BY <1>5, <1>6
<1> QED  BY <1>1, <1>7, AsSequence

\* First keeps the head of a sequence.
LEMMA FirstIs ==
  ASSUME NEW S, NEW s \in Seq(S), NEW n \in Nat
  PROVE  /\ Q!First(s, n) \in Seq(S)
         /\ Len(Q!First(s, n)) <= n /\ Len(Q!First(s, n)) <= Len(s)
         /\ \A i \in 1..Len(Q!First(s, n)) : Q!First(s, n)[i] = s[i]
<1> DEFINE k == IF Len(s) < n THEN Len(s) ELSE n
<1>1. k \in Nat /\ k <= n /\ k <= Len(s)
  BY LenProperties
<1>2. Q!First(s, n) = SubSeq(s, 1, k)
  BY DEF Q!First
<1> HIDE DEF k
<1>3. \A i \in 1..k : s[i] \in S
  BY <1>1, ElementOfSeq
<1> QED  BY <1>1, <1>2, <1>3, SubSeqProperties

-----------------------------------------------------------------------------
(* Types.                                                                    *)

Chunks == UNION {Q!ToSet(h.vec) \cup Q!ToSet(h.txt) : h \in Hits}
Scored == [c: Chunks, score: Nat, rel: BOOLEAN]
Ranks(n) == [i: 1..n, score: Nat]

LEMMA DivisionNat == \A a \in Nat, b \in Nat \ {0} : a \div b \in Nat
  OBVIOUS

LEMMA RangeFinite ==
  ASSUME NEW S, NEW s \in Seq(S)
  PROVE  IsFiniteSet(Q!ToSet(s))
<1>1. Len(s) \in Nat /\ DOMAIN s = 1..Len(s) /\ s \in [1..Len(s) -> S]
  BY LenProperties
<1>2. s \in Surjection(1..Len(s), Q!ToSet(s))
  BY <1>1 DEF Surjection, Q!ToSet
<1>3. IsFiniteSet(1..Len(s))
  BY <1>1, FS_Interval
<1> QED  BY <1>2, <1>3, FS_Surjection

\* Whatever order a search finds its chunks in, it is a sequence of scored chunks.
LEMMA FusionsTyped ==
  ASSUME Q!QueryAssumption, NEW h \in Hits, NEW s \in Q!Fusions(h)
  PROVE  s \in Seq(Scored)
<1> DEFINE U == Q!ToSet(h.vec) \cup Q!ToSet(h.txt)
           one(c) == [c |-> c, score |-> Q!RRFScore(c, h), rel |-> FALSE]
           found == {one(c) : c \in U}
<1>1. /\ h.vec \in Seq(Q!ToSet(h.vec)) /\ h.txt \in Seq(Q!ToSet(h.txt))
  BY DEF Q!QueryAssumption
<1>2. IsFiniteSet(U)
  BY <1>1, RangeFinite, FS_Union
<1>3. ASSUME NEW c PROVE Q!RRFScore(c, h) \in Nat
  <2> DEFINE In(list) == {i \in 1..Len(list) : list[i] = c}
             Part(list) == IF In(list) = {} THEN 0 ELSE 1000 \div (60 + CHOOSE i \in In(list) : TRUE)
  <2>1. ASSUME NEW list, NEW S, list \in Seq(S) PROVE Part(list) \in Nat
    <3>1. Len(list) \in Nat
      BY <2>1, LenProperties
    <3>2. CASE In(list) = {}
      BY <3>2
    <3>3. CASE In(list) # {}
      <4> DEFINE i == CHOOSE i \in In(list) : TRUE
      <4>1. i \in In(list)
        BY <3>3
      <4>2. i \in Nat
        BY <3>1, <4>1
      <4> HIDE DEF i
      <4>3. 60 + i \in Nat \ {0} /\ 1000 \in Nat
        BY <4>2
      <4>4. 1000 \div (60 + i) \in Nat
        BY <4>3, DivisionNat
      <4>5. Part(list) = 1000 \div (60 + i)
        BY <3>3 DEF i
      <4> QED  BY <4>4, <4>5
    <3> QED  BY <3>2, <3>3
  <2>2. Q!RRFScore(c, h) = Part(h.vec) + Part(h.txt)
    BY DEF Q!RRFScore
  <2> HIDE DEF Part
  <2>3. Part(h.vec) \in Nat /\ Part(h.txt) \in Nat
    BY <1>1, <2>1
  <2> QED  BY <2>2, <2>3
<1>4. \A c \in U : one(c) \in Scored
  BY <1>3 DEF Scored, Chunks
<1>5. s \in Q!SetToSeqs(found)
  BY DEF Q!Fusions
<1> HIDE DEF one
<1>6. IsFiniteSet(found)
  <2> DEFINE f == [c \in U |-> one(c)]
  <2>1. f \in Surjection(U, found)
    <3> HIDE DEF U
    <3> QED  BY DEF Surjection
  <2> HIDE DEF f, U, found
  <2> QED  BY <1>2, <2>1, FS_Surjection
<1>7. found \in SUBSET Scored
  BY <1>4
<1> HIDE DEF found
<1>8. Q!Cardinality(found) \in Nat
  BY <1>6, FS_CardinalityType, SameCardinality
<1>9. s \in [1..Q!Cardinality(found) -> found]
  BY <1>5 DEF Q!SetToSeqs
<1>10. s \in Seq(found)
  BY <1>8, <1>9, AsSequence
<1> QED  BY <1>7, <1>10, SeqMonotonic

\* A reranker's answer, its scores made to descend and what it left out appended, ranks passages.
LEMMA RankingsTyped ==
  ASSUME Q!QueryAssumption, NEW n \in Nat, NEW k \in Q!Rankings(n)
  PROVE  k \in Seq(Ranks(n)) /\ Len(k) >= 1
<1>1. PICK m \in 1..n : k \in [1..m -> [i: 1..n, score: Relevance]]
  BY DEF Q!Rankings
<1>2. Relevance \subseteq Nat
  BY DEF Q!QueryAssumption
<1>3. \A x \in 1..m : k[x] \in Ranks(n)
  BY <1>1, <1>2 DEF Ranks
<1>4. k \in [1..m -> Ranks(n)] /\ m \in Nat /\ m >= 1
  BY <1>1, <1>3
<1> QED  BY <1>4, AsSequence

LEMMA EnsureDescendingTyped ==
  ASSUME NEW n \in Nat, NEW k \in Seq(Ranks(n)), Len(k) >= 1
  PROVE  Q!EnsureDescending(k) \in Seq(Ranks(n))
<1> DEFINE m == Len(k)
           f == [i \in 1..m |-> [k[i] EXCEPT !.score = (1000 * (m + 1 - i)) \div m]]
<1>1. m \in Nat \ {0} /\ \A i \in 1..m : k[i] \in Ranks(n)
  BY LenProperties, ElementOfSeq
<1>2. Q!EnsureDescending(k) = k \/ Q!EnsureDescending(k) = f
  BY DEF Q!EnsureDescending
<1> HIDE DEF m
<1>3. ASSUME NEW i \in 1..m PROVE f[i] \in Ranks(n)
  <2> DEFINE score == (1000 * (m + 1 - i)) \div m
  <2>1. 1000 * (m + 1 - i) \in Nat
    BY <1>1
  <2>2. score \in Nat
    BY <1>1, <2>1, DivisionNat
  <2>3. f[i] = [k[i] EXCEPT !.score = score]
    OBVIOUS
  <2> HIDE DEF score, f
  <2> QED  BY <1>1, <2>2, <2>3 DEF Ranks
<1>4. f \in [1..m -> Ranks(n)]
  BY <1>3
<1> HIDE DEF f
<1> QED  BY <1>1, <1>2, <1>4, AsSequence

LEMMA OrderMissingLastTyped ==
  ASSUME NEW n \in Nat, NEW k \in Seq(Ranks(n))
  PROVE  Q!OrderMissingLast(k, n) \in Seq(Ranks(n))
<1> DEFINE left == {j \in 1..n : \A x \in DOMAIN k : k[x].i # j}
           missing == Q!Ascending(left)
           tail == [x \in 1..Len(missing) |-> [i |-> missing[x], score |-> 0]]
<1>1. left \in SUBSET (1..n)
  OBVIOUS
<1>2. missing \in Seq(left)
  BY <1>1, AscendingLists
<1>3. Q!OrderMissingLast(k, n) = k \o tail
  BY DEF Q!OrderMissingLast
<1> HIDE DEF missing, left
<1>4. Len(missing) \in Nat /\ \A x \in 1..Len(missing) : missing[x] \in 1..n
  BY <1>1, <1>2, LenProperties, ElementOfSeq
<1>5. tail \in [1..Len(missing) -> Ranks(n)]
  BY <1>4 DEF Ranks
<1> HIDE DEF tail
<1>6. tail \in Seq(Ranks(n))
  BY <1>4, <1>5, AsSequence
<1> QED  BY <1>3, <1>6, ConcatProperties

LEMMA ReorderByScoreTyped ==
  ASSUME NEW s \in Seq(Scored), NEW n \in Nat, n <= Len(s), NEW k \in Seq(Ranks(n))
  PROVE  Q!ReorderByScore(s, k) \in Seq(Scored)
<1> DEFINE head == [x \in 1..Len(k) |-> [c |-> s[k[x].i].c, score |-> k[x].score, rel |-> TRUE]]
           tail == SubSeq(s, Len(k) + 1, Len(s))
<1>1. Len(k) \in Nat /\ Len(s) \in Nat
  BY LenProperties
<1>2. ASSUME NEW x \in 1..Len(k) PROVE head[x] \in Scored
  <2>1. k[x] \in Ranks(n)
    BY ElementOfSeq
  <2>2. k[x].i \in 1..Len(s) /\ k[x].score \in Nat
    BY <1>1, <2>1 DEF Ranks
  <2>3. s[k[x].i] \in Scored
    BY <2>2, ElementOfSeq
  <2> QED  BY <2>2, <2>3 DEF Scored
<1>3. head \in [1..Len(k) -> Scored]
  BY <1>2
<1>4. Q!ReorderByScore(s, k) = head \o tail
  BY DEF Q!ReorderByScore
<1>5. tail \in Seq(Scored)
  <2>1. \A i \in (Len(k) + 1)..Len(s) : s[i] \in Scored
    <3> TAKE i \in (Len(k) + 1)..Len(s)
    <3>1. i \in 1..Len(s)
      BY <1>1
    <3> QED  BY <3>1, ElementOfSeq
  <2> QED  BY <1>1, <2>1, SubSeqProperties
<1> HIDE DEF head, tail
<1>6. head \in Seq(Scored)
  BY <1>1, <1>3, AsSequence
<1> QED  BY <1>4, <1>5, <1>6, ConcatProperties
-----------------------------------------------------------------------------
(* The invariant of the query pipeline.                                      *)

Call == [tries: 0..MaxRetries, fails: Nat, result: {"none", "ok", "failed", "open"}]
Cited == [n: Nat, c: Chunks]
Question ==
  [at: Q!Stages, mode: Q!Modes, k: 0..MaxTopK, reranked: BOOLEAN, rr: {"none", "cohere", "llm"},
   results: Seq(Scored), context: Seq(Scored), call: Call, cites: SUBSET Cited, marks: SUBSET Nat,
   logged: SUBSET Chunks, out: Q!Outcomes, counted: Nat, billed: Nat]

QueryTypes ==
  /\ reranker \in BOOLEAN /\ up \in BOOLEAN
  /\ status \in {"active", "suspended", "gone"} /\ changes \in 0..MaxPatches
  /\ query \in [Requests -> Question]
  /\ entry \in [Requests -> {"none", "pending", "stored", "lost"}]
  /\ rating \in [Requests -> {0, 1, 2}]

\* The context is what passed the floor of this request's results, and the citations point into
\* it; nothing of the kind is there before the context is built, and nothing is counted before
\* the request ends.
ContextSound(q) ==
  /\ Len(q.context) <= MaxTopK /\ (q.at = "prepare" => Len(q.results) <= MaxTopK)
  /\ \A n \in 1..Len(q.context) : /\ q.context[n] \in Q!ToSet(q.results)
                                  /\ q.reranked => q.context[n].score >= MinScore
  /\ \A x \in q.cites : x.n \in 1..Len(q.context) /\ q.context[x.n].c = x.c
  /\ q.at \notin {"generate", "stream", "end"} => q.cites = {} /\ q.context = <<>>
CountSound(q) ==
  /\ q.at # "end" => q.out = "none" /\ q.counted = 0 /\ q.billed = 0
  /\ q.at = "stream" => q.mode = "sse"
  /\ q.counted <= 1 /\ q.billed <= q.counted
  /\ q.counted = 1 <=> q.out \in {"answered", "refused", "degraded", "interrupted"}
  /\ q.billed = 1 => q.out = "answered" \/ (q.out = "interrupted" /\ q.mode = "sse")
  /\ q.out = "answered" /\ q.mode = "json" =>
       q.billed = 1 /\ {x.n : x \in q.cites} = q.marks \cap 1..Len(q.context)
  /\ q.out \in {"answered", "degraded", "interrupted"} => q.logged = {x.c : x \in q.cites}
QuestionSound(q) == ContextSound(q) /\ CountSound(q)

LogSound ==
  \A r \in Requests : /\ query[r].at # "end" => entry[r] = "none"
                      /\ rating[r] # 0 => entry[r] = "stored"

QueryInv == QueryTypes /\ (\A r \in Requests : QuestionSound(query[r])) /\ LogSound

\* A step that takes one request to another sound state.
Advances(r) == \E q \in Question : QuestionSound(q) /\ query' = [query EXCEPT ![r] = q]

LEMMA AdvanceKeeps ==
  ASSUME QueryInv, NEW r \in Requests, Advances(r), query[r].at # "end", UNCHANGED Q!Env_,
         UNCHANGED Q!Log_ \/ (Q!Logs(r) /\ query'[r].at = "end")
  PROVE  QueryInv'
<1>1. PICK q \in Question : QuestionSound(q) /\ query' = [query EXCEPT ![r] = q]
  BY DEF Advances
<1>2. QueryTypes /\ LogSound /\ \A s \in Requests : QuestionSound(query[s])
  BY DEF QueryInv
<1>3. query' \in [Requests -> Question] /\ query'[r] = q /\ \A s \in Requests \ {r} : query'[s] = query[s]
  BY <1>1, <1>2 DEF QueryTypes
<1>4. \A s \in Requests : QuestionSound(query'[s])
  BY <1>1, <1>2, <1>3
<1>5. UNCHANGED <<reranker, status, changes, up>>
  BY DEF Q!Env_
<1>6. CASE UNCHANGED Q!Log_
  <2>1. entry' = entry /\ rating' = rating
    BY <1>6 DEF Q!Log_
  <2>2. QueryTypes'
    BY <1>2, <1>3, <1>5, <2>1 DEF QueryTypes
  <2>3. LogSound'
    BY <1>2, <1>3, <2>1 DEF LogSound
  <2> QED  BY <1>4, <2>2, <2>3 DEF QueryInv
<1>7. CASE Q!Logs(r) /\ query'[r].at = "end"
  <2>1. entry' = [entry EXCEPT ![r] = "pending"] /\ rating' = rating
    BY <1>7 DEF Q!Logs
  <2>2. QueryTypes'
    BY <1>2, <1>3, <1>5, <2>1 DEF QueryTypes
  <2>3. rating[r] = 0
    BY <1>2 DEF LogSound
  <2>4. entry'[r] = "pending" /\ \A s \in Requests \ {r} : entry'[s] = entry[s]
    BY <1>2, <2>1 DEF QueryTypes
  <2>5. LogSound'
    BY <1>2, <1>3, <1>7, <2>1, <2>3, <2>4 DEF LogSound
  <2> QED  BY <1>4, <2>2, <2>5 DEF QueryInv
<1> QED  BY <1>6, <1>7

LEMMA RequestIs ==
  ASSUME QueryInv, NEW r \in Requests
  PROVE  query[r] \in Question /\ QuestionSound(query[r]) /\ query \in [Requests -> Question]
BY DEF QueryInv, QueryTypes

-----------------------------------------------------------------------------
(* Steps of a kind.                                                          *)

\* A provider call advances.
LEMMA CallStep ==
  ASSUME QueryInv, NEW r \in Requests, NEW c \in Call, query' = [query EXCEPT ![r].call = c]
  PROVE  Advances(r)
<1> DEFINE q == query[r]
           q2 == [q EXCEPT !.call = c]
<1>1. q \in Question /\ QuestionSound(q)
  BY RequestIs
<1>2. query' = [query EXCEPT ![r] = q2]
  BY RequestIs
<1>3. q2 \in Question
  BY <1>1 DEF Question
<1>4. QuestionSound(q2)
  BY <1>1 DEF Question, QuestionSound, ContextSound, CountSound
<1> HIDE DEF q2
<1> QED  BY <1>2, <1>3, <1>4 DEF Advances

\* The pipeline goes on to a stage that keeps nothing of the call.
LEMMA GoesStep ==
  ASSUME QueryInv, NEW r \in Requests, NEW stage \in {"hyde", "search", "cut", "stream"},
         Q!Goes(r, stage), Q!QueryAssumption,
         IF stage = "stream" THEN query[r].at = "generate" /\ query[r].mode = "sse"
                             ELSE query[r].at \notin {"generate", "stream", "end"}
  PROVE  Advances(r)
<1> DEFINE q == query[r]
           q2 == [q EXCEPT !.at = stage, !.call = Q!NoCall]
<1>1. q \in Question /\ QuestionSound(q)
  BY RequestIs
<1>2. query' = [query EXCEPT ![r] = q2]
  BY RequestIs DEF Q!Goes
<1>3. q2 \in Question
  <2>1. Q!NoCall \in Call
    BY DEF Q!NoCall, Call, Q!QueryAssumption
  <2> QED  BY <1>1, <2>1 DEF Question, Q!Stages, Q!CallStages
<1>4. /\ q2.at = stage /\ q2.context = q.context /\ q2.results = q.results /\ q2.cites = q.cites
      /\ q2.reranked = q.reranked /\ q2.mode = q.mode /\ q2.out = q.out /\ q2.counted = q.counted
      /\ q2.billed = q.billed /\ q2.marks = q.marks /\ q2.logged = q.logged
  BY <1>1 DEF Question
<1> HIDE DEF q2
<1>5. ContextSound(q2)
  BY <1>1, <1>4 DEF QuestionSound, ContextSound
<1>6. CountSound(q2)
  BY <1>1, <1>4 DEF QuestionSound, CountSound
<1> QED  BY <1>2, <1>3, <1>5, <1>6 DEF Advances, QuestionSound

\* The request ends in an error, or its client is gone.
LEMMA EndsStep ==
  ASSUME QueryInv, NEW r \in Requests, NEW out \in {"error", "left"}, Q!Ends(r, out),
         Q!QueryAssumption, query[r].at # "end"
  PROVE  Advances(r)
<1> DEFINE q == query[r]
           q2 == [q EXCEPT !.at = "end", !.out = out, !.call = Q!NoCall]
<1>1. q \in Question /\ QuestionSound(q)
  BY RequestIs
<1>2. query' = [query EXCEPT ![r] = q2]
  BY RequestIs DEF Q!Ends
<1>3. q2 \in Question
  <2>1. Q!NoCall \in Call
    BY DEF Q!NoCall, Call, Q!QueryAssumption
  <2> QED  BY <1>1, <2>1 DEF Question, Q!Stages, Q!Outcomes
<1>4. /\ q2.at = "end" /\ q2.context = q.context /\ q2.results = q.results /\ q2.cites = q.cites
      /\ q2.reranked = q.reranked /\ q2.out = out /\ q2.counted = q.counted
      /\ q2.billed = q.billed
  BY <1>1 DEF Question
<1> HIDE DEF q2
<1>5. ContextSound(q2)
  BY <1>1, <1>4 DEF QuestionSound, ContextSound
<1>6. CountSound(q2)
  BY <1>1, <1>4 DEF QuestionSound, CountSound
<1> QED  BY <1>2, <1>3, <1>5, <1>6 DEF Advances, QuestionSound

\* The request is answered in one of the four ways that count.
LEMMA RespondsStep ==
  ASSUME QueryInv, Q!QueryAssumption, NEW r \in Requests,
         NEW out \in {"answered", "refused", "degraded", "interrupted"},
         NEW cites \in SUBSET Cited, NEW marks \in SUBSET Nat, NEW billed \in {0, 1},
         Q!Responds(r, out, cites, marks, billed), query[r].at # "end",
         \A x \in cites : x.n \in 1..Len(query[r].context) /\ query[r].context[x.n].c = x.c,
         billed = 1 => out = "answered" \/ (out = "interrupted" /\ query[r].mode = "sse"),
         out = "answered" /\ query[r].mode = "json" =>
           billed = 1 /\ {x.n : x \in cites} = marks \cap 1..Len(query[r].context)
  PROVE  Advances(r) /\ query'[r].at = "end"
<1> DEFINE q == query[r]
           logged == Q!CitedChunks(cites, q.context)
           q2 == [q EXCEPT !.at = "end", !.out = out, !.cites = cites, !.marks = marks,
                           !.counted = q.counted + 1, !.billed = q.billed + billed,
                           !.call = Q!NoCall, !.logged = logged]
<1>1. q \in Question /\ QuestionSound(q)
  BY RequestIs
<1>2. query' = [query EXCEPT ![r] = q2]
  BY RequestIs DEF Q!Responds
<1>3. logged = {x.c : x \in cites}
  <2>1. {y \in cites : y.n <= Len(q.context)} = cites
    <3>1. Len(q.context) \in Nat
      BY <1>1, LenProperties DEF Question
    <3> QED  BY <3>1
  <2>2. logged = {q.context[x.n].c : x \in cites}
    BY <2>1 DEF Q!CitedChunks
  <2> QED  BY <2>2
<1>4. logged \in SUBSET Chunks
  BY <1>3 DEF Cited
<1> HIDE DEF logged
<1>5. q2 \in Question
  <2>1. Q!NoCall \in Call
    BY DEF Q!NoCall, Call, Q!QueryAssumption
  <2>2. q.counted + 1 \in Nat /\ q.billed + billed \in Nat
    BY <1>1 DEF Question
  <2> QED  BY <1>1, <1>4, <2>1, <2>2 DEF Question, Q!Stages, Q!Outcomes
<1>6. /\ q2.at = "end" /\ q2.context = q.context /\ q2.results = q.results /\ q2.cites = cites
      /\ q2.reranked = q.reranked /\ q2.mode = q.mode /\ q2.out = out /\ q2.counted = q.counted + 1
      /\ q2.billed = q.billed + billed /\ q2.marks = marks /\ q2.logged = logged
  BY <1>1 DEF Question
<1> HIDE DEF q2
<1>7. ContextSound(q2)
  BY <1>1, <1>6 DEF QuestionSound, ContextSound
<1>8. q.counted = 0 /\ q.billed = 0
  BY <1>1 DEF QuestionSound, CountSound
<1>9. CountSound(q2)
  BY <1>3, <1>6, <1>8 DEF CountSound
<1>10. query'[r] = q2
  BY <1>2, RequestIs
<1> QED  BY <1>2, <1>5, <1>6, <1>7, <1>9, <1>10 DEF Advances, QuestionSound
-----------------------------------------------------------------------------
(* The steps of a request.                                                   *)

LEMMA AttemptStep ==
  ASSUME QueryInv, Q!QueryAssumption, NEW r \in Requests, Q!Attempt(r)
  PROVE  QueryInv'
<1> DEFINE c == query[r].call
<1>1. c \in Call /\ MaxRetries \in Nat /\ query[r] \in Question /\ query \in [Requests -> Question]
  BY RequestIs DEF Question, Q!QueryAssumption
<1>2. \E c2 \in Call : query' = [query EXCEPT ![r].call = c2]
  <2>1. CASE Q!AttemptFails(r)
    <3> DEFINE c2 == [tries |-> IF c.tries < MaxRetries THEN c.tries + 1 ELSE c.tries,
                      fails |-> c.fails + 1,
                      result |-> IF c.tries < MaxRetries THEN "none" ELSE "failed"]
    <3>1. query' = [query EXCEPT ![r].call = c2]
      BY <2>1 DEF Q!AttemptFails
    <3>2. c2 \in Call
      BY <1>1 DEF Call
    <3> QED  BY <3>1, <3>2
  <2>2. CASE \E x \in {"open", "failed", "ok"} : query' = [query EXCEPT ![r].call.result = x]
    <3>1. PICK x \in {"open", "failed", "ok"} : query' = [query EXCEPT ![r].call.result = x]
      BY <2>2
    <3> DEFINE c2 == [c EXCEPT !.result = x]
    <3>2. query' = [query EXCEPT ![r].call = c2] /\ c2 \in Call
      BY <1>1, <3>1 DEF Call
    <3> QED  BY <3>2
  <2>3. CASE Q!DoerFails(r)
    <3> DEFINE tries == IF c.tries < MaxRetries THEN c.tries + 1 ELSE c.tries
               result == IF c.tries < MaxRetries THEN "none" ELSE "failed"
               c2 == [c EXCEPT !.tries = tries, !.result = result]
    <3>1. query' = [query EXCEPT ![r].call.tries = tries, ![r].call.result = result]
      BY <2>3 DEF Q!DoerFails
    <3>2. tries \in 0..MaxRetries /\ result \in {"none", "failed"}
      BY <1>1 DEF Call
    <3> HIDE DEF tries, result
    <3>3. query' = [query EXCEPT ![r].call = c2]
      BY <1>1, <3>1 DEF Question, Call
    <3>4. c2 \in Call
      BY <1>1, <3>2 DEF Call
    <3> HIDE DEF c2
    <3> QED  BY <3>3, <3>4
  <2> QED
    BY <2>1, <2>2, <2>3
       DEF Q!Attempt, Q!CallAnswered, Q!AttemptRefused, Q!ProviderRefused, Q!AttemptEnds, Q!DoerEnds
<1>3. query[r].at # "end" /\ UNCHANGED Q!Env_ /\ UNCHANGED Q!Log_
  BY DEF Q!Attempt, Q!CallAnswered, Q!AttemptFails, Q!AttemptRefused, Q!ProviderRefused, Q!DoerFails, Q!AttemptEnds,
         Q!DoerEnds, Q!Calling, Q!ByCohere, Q!CallStages, Q!Env_, Q!Log_
<1>4. Advances(r)
  BY <1>2, CallStep
<1> QED  BY <1>3, <1>4, AdvanceKeeps

LEMMA FinalKTyped ==
  ASSUME Q!QueryAssumption, NEW k \in TopKs
  PROVE  Q!FinalKOf(k) \in 0..MaxTopK
BY DEF Q!QueryAssumption, Q!FinalKOf

LEMMA BeginStep ==
  ASSUME QueryInv, Q!QueryAssumption, NEW r \in Requests, Q!Begin(r)
  PROVE  QueryInv'
<1> DEFINE q == query[r]
<1>1. q \in Question /\ QuestionSound(q)
  BY RequestIs
<1>2. ASSUME NEW k \in 0..MaxTopK, NEW mode \in Q!Modes, NEW stage \in {"rewrite", "hyde", "search"},
             NEW flag \in BOOLEAN, q.at = "new",
             query' = [query EXCEPT ![r].at = stage, ![r].mode = mode, ![r].reranked = flag, ![r].k = k]
      PROVE  Advances(r)
  <2> DEFINE q2 == [q EXCEPT !.at = stage, !.mode = mode, !.reranked = flag, !.k = k]
  <2>1. query' = [query EXCEPT ![r] = q2]
    BY <1>2, RequestIs
  <2>2. q2 \in Question
    BY <1>1 DEF Question, Q!Stages, Q!CallStages
  <2>3. /\ q2.at = stage /\ q2.context = q.context /\ q2.cites = q.cites /\ q2.out = q.out
        /\ q2.counted = q.counted /\ q2.billed = q.billed
    BY <1>1 DEF Question
  <2> HIDE DEF q2
  <2>4. q.context = <<>> /\ q.cites = {} /\ q.out = "none" /\ q.counted = 0 /\ q.billed = 0
    BY <1>1, <1>2 DEF QuestionSound, ContextSound, CountSound
  <2>5. Len(<<>>) = 0 /\ MaxTopK \in Nat
    BY EmptySeq DEF Q!QueryAssumption
  <2>6. ContextSound(q2)
    BY <2>3, <2>4, <2>5 DEF ContextSound
  <2>7. CountSound(q2)
    BY <2>3, <2>4 DEF CountSound
  <2> QED  BY <2>1, <2>2, <2>6, <2>7 DEF Advances, QuestionSound
<1>3. ASSUME NEW k \in TopKs, Q!RetrieveBegins(r, k) PROVE Advances(r)
  <2>1. q.at = "new" /\ query' = [query EXCEPT ![r].at = "search", ![r].mode = "retrieve", ![r].k = Q!FinalKOf(k)]
    BY <1>3 DEF Q!RetrieveBegins, Q!At
  <2>2. q.reranked \in BOOLEAN
    BY <1>1 DEF Question
  <2>3. query' = [query EXCEPT ![r].at = "search", ![r].mode = "retrieve", ![r].reranked = q.reranked,
                               ![r].k = Q!FinalKOf(k)]
    BY <1>1, <2>1, RequestIs DEF Question
  <2> QED  BY <1>2, <2>1, <2>2, <2>3, FinalKTyped DEF Q!Modes
<1>4. ASSUME NEW k \in TopKs, NEW mode \in Q!Modes, NEW stage \in Q!Stages, Q!QueryBegins(r, mode, stage, k)
      PROVE  Advances(r)
  <2>1. q.at = "new" /\ stage \in {"rewrite", "hyde", "search"} /\ reranker \in BOOLEAN
        /\ query' = [query EXCEPT ![r].at = stage, ![r].mode = mode, ![r].reranked = reranker,
                                  ![r].k = Q!FinalKOf(k)]
    BY <1>4 DEF Q!QueryBegins, Q!At, Q!Reranked, QueryInv, QueryTypes
  <2> QED  BY <1>2, <2>1, FinalKTyped
<1>5. ASSUME Q!BeginFails(r) PROVE Advances(r)
  BY <1>5, EndsStep DEF Q!BeginFails, Q!At
<1>6. query[r].at # "end" /\ UNCHANGED Q!Env_ /\ UNCHANGED Q!Log_
  BY DEF Q!Begin, Q!RetrieveBegins, Q!QueryBegins, Q!BeginFails, Q!At, Q!Env_, Q!Log_
<1>7. Advances(r)
  BY <1>3, <1>4, <1>5 DEF Q!Begin
<1> QED  BY <1>6, <1>7, AdvanceKeeps

\* A stage of the search: new results, and on to the next stage.
LEMMA ResultsStep ==
  ASSUME QueryInv, NEW r \in Requests, NEW results \in Seq(Scored), NEW call \in Call,
         NEW rr \in {"none", "cohere", "llm"}, NEW stage \in {"hybrid", "rerank", "cut", "prepare"},
         stage = "prepare" => Len(results) <= MaxTopK,
         query[r].at \notin {"generate", "stream", "end"},
         query' = [query EXCEPT ![r] = [query[r] EXCEPT !.results = results, !.call = call, !.rr = rr, !.at = stage]]
  PROVE  Advances(r)
<1> DEFINE q == query[r]
           q2 == [q EXCEPT !.results = results, !.call = call, !.rr = rr, !.at = stage]
<1>1. q \in Question /\ QuestionSound(q)
  BY RequestIs
<1>2. q2 \in Question
  BY <1>1 DEF Question, Q!Stages, Q!CallStages
<1>3. /\ q2.at = stage /\ q2.results = results /\ q2.context = q.context /\ q2.cites = q.cites
      /\ q2.out = q.out /\ q2.counted = q.counted /\ q2.billed = q.billed
  BY <1>1 DEF Question
<1> HIDE DEF q2
<1>4. q.context = <<>> /\ q.cites = {} /\ Len(q.context) <= MaxTopK
  BY <1>1 DEF QuestionSound, ContextSound
<1>5. Len(<<>>) = 0
  BY EmptySeq
<1>6. ContextSound(q2)
  BY <1>3, <1>4, <1>5 DEF ContextSound
<1>7. CountSound(q2)
  BY <1>1, <1>3 DEF QuestionSound, CountSound
<1> QED  BY <1>2, <1>6, <1>7 DEF Advances, QuestionSound, q2
LEMMA RetrievingStep ==
  ASSUME QueryInv, Q!QueryAssumption, NEW r \in Requests, Q!Retrieving(r)
  PROVE  QueryInv'
<1> DEFINE q == query[r]
<1>1. q \in Question /\ QuestionSound(q) /\ query \in [Requests -> Question]
  BY RequestIs
<1>2. /\ q.results \in Seq(Scored) /\ q.call \in Call /\ q.k \in 0..MaxTopK
      /\ q.rr \in {"none", "cohere", "llm"} /\ Len(q.results) \in Nat
  BY <1>1, LenProperties DEF Question
<1>3. Q!NoCall \in Call /\ MaxTopK \in Nat /\ TopN \in Nat \ {0} /\ q.k \in Nat
  BY <1>2 DEF Q!NoCall, Call, Q!QueryAssumption
<1>4. ASSUME NEW stage \in Q!Stages, Q!RewriteReturns(r, stage) PROVE Advances(r)
  BY <1>4, GoesStep DEF Q!RewriteReturns, Q!At
<1>5. ASSUME Q!HydeReturns(r) PROVE Advances(r)
  BY <1>5, GoesStep DEF Q!HydeReturns, Q!At
<1>6. ASSUME NEW built \in {"none", "cohere", "llm"}, Q!SearchOpens(r, built) PROVE Advances(r)
  <2>1. q.at = "search" /\ query' = [query EXCEPT ![r].at = "hybrid", ![r].rr = built]
    BY <1>6 DEF Q!SearchOpens, Q!At
  <2> DEFINE results == q.results
             call == q.call
             stage == "hybrid"
  <2>2. query' = [query EXCEPT ![r] = [q EXCEPT !.results = results, !.call = call, !.rr = built, !.at = stage]]
    BY <1>1, <2>1 DEF Question
  <2>3. results \in Seq(Scored) /\ call \in Call /\ stage \in {"hybrid", "rerank", "cut", "prepare"} /\ stage # "prepare"
    BY <1>2
  <2> HIDE DEF results, call, stage
  <2>4. q.at \notin {"generate", "stream", "end"} /\ built \in {"none", "cohere", "llm"}
    BY <1>6, <2>1
  <2>5. Advances(r)
    BY <2>2, <2>3, <2>4, ResultsStep
  <2> QED  BY <2>5
<1>7. ASSUME Q!SearchFails(r) PROVE Advances(r)
  BY <1>7, EndsStep DEF Q!SearchFails, Q!At
<1>8. ASSUME NEW h \in Hits, Q!Hybrid(r, h) PROVE Advances(r)
  <2> DEFINE k == IF q.rr # "none" /\ TopN > q.k THEN TopN ELSE q.k
  <2>1. k \in Nat
    BY <1>3
  <2>2. PICK s \in Q!Fusions(h) :
          query' = [query EXCEPT ![r].results = Q!First(s, k),
                      ![r].at = IF q.rr # "none" /\ Q!First(s, k) # <<>> THEN "rerank" ELSE "cut"]
    BY <1>8 DEF Q!Hybrid
  <2> HIDE DEF k
  <2>3. Q!First(s, k) \in Seq(Scored)
    BY <2>1, FusionsTyped, FirstIs
  <2> DEFINE found == Q!First(s, k)
             stage == IF q.rr # "none" /\ found # <<>> THEN "rerank" ELSE "cut"
  <2>4. stage \in {"rerank", "cut"} /\ found \in Seq(Scored)
    BY <2>3
  <2>5. query' = [query EXCEPT ![r].results = found, ![r].at = stage]
    BY <2>2
  <2> HIDE DEF found, stage
  <2>6. query' = [query EXCEPT ![r] = [q EXCEPT !.results = found, !.call = q.call, !.rr = q.rr, !.at = stage]]
    BY <1>1, <2>5 DEF Question
  <2>7. q.at = "hybrid"
    BY <1>8 DEF Q!Hybrid, Q!At
  <2> QED  BY <1>2, <2>4, <2>6, <2>7, ResultsStep
<1>9. ASSUME Q!RerankReturns(r) PROVE Advances(r)
  <2> DEFINE n == IF TopN < Len(q.results) THEN TopN ELSE Len(q.results)
  <2>1. n \in Nat /\ n <= Len(q.results)
    BY <1>2, <1>3
  <2>2. PICK k \in Q!Rankings(n) :
          query' = [query EXCEPT
            ![r].results = Q!ReorderByScore(q.results,
               Q!OrderMissingLast(IF q.rr = "llm" THEN Q!EnsureDescending(k) ELSE k, n)),
            ![r].at = "cut", ![r].call = Q!NoCall]
    BY <1>9 DEF Q!RerankReturns
  <2> HIDE DEF n
  <2> DEFINE ranked == IF q.rr = "llm" THEN Q!EnsureDescending(k) ELSE k
             results == Q!ReorderByScore(q.results, Q!OrderMissingLast(ranked, n))
  <2>3. ranked \in Seq(Ranks(n))
    BY <2>1, RankingsTyped, EnsureDescendingTyped
  <2>4. query' = [query EXCEPT ![r].results = results, ![r].at = "cut", ![r].call = Q!NoCall]
    BY <2>2
  <2> HIDE DEF ranked
  <2>5. results \in Seq(Scored)
    BY <1>2, <2>1, <2>3, OrderMissingLastTyped, ReorderByScoreTyped
  <2> HIDE DEF results
  <2>6. query' = [query EXCEPT ![r] = [q EXCEPT !.results = results, !.call = Q!NoCall, !.rr = q.rr, !.at = "cut"]]
    BY <1>1, <2>4 DEF Question
  <2>7. q.at = "rerank"
    BY <1>9 DEF Q!RerankReturns, Q!At
  <2> QED  BY <1>2, <1>3, <2>5, <2>6, <2>7, ResultsStep
<1>10. ASSUME Q!RerankFallsBack(r) PROVE Advances(r)
  BY <1>10, GoesStep DEF Q!RerankFallsBack, Q!At
<1>11. ASSUME Q!SearchReturns(r) PROVE Advances(r)
  <2> DEFINE found == Q!First(q.results, q.k)
  <2>1. found \in Seq(Scored) /\ Len(found) \in Nat /\ Len(found) <= MaxTopK
    <3>1. found \in Seq(Scored) /\ Len(found) <= q.k
      BY <1>2, <1>3, FirstIs
    <3> QED  BY <1>2, <1>3, <3>1, LenProperties
  <2>2. /\ q.at = "cut"
        /\ query' = [query EXCEPT ![r].results = found,
                                  ![r].at = IF q.mode = "retrieve" THEN "end" ELSE "prepare",
                                  ![r].out = IF q.mode = "retrieve" THEN "chunks" ELSE "none"]
    BY <1>1, <1>11 DEF Q!SearchReturns, Q!At
  <2> HIDE DEF found
  <2>3. q.out = "none" /\ q.counted = 0 /\ q.billed = 0 /\ q.cites = {} /\ q.context = <<>>
    BY <1>1, <2>2 DEF QuestionSound, ContextSound, CountSound
  <2>4. CASE q.mode # "retrieve"
    <3>1. query' = [query EXCEPT ![r] = [q EXCEPT !.results = found, !.call = q.call, !.rr = q.rr, !.at = "prepare"]]
      BY <1>1, <2>2, <2>3, <2>4 DEF Question
    <3> QED  BY <1>2, <2>1, <2>2, <3>1, ResultsStep
  <2>5. CASE q.mode = "retrieve"
    <3> DEFINE q2 == [q EXCEPT !.results = found, !.at = "end", !.out = "chunks"]
    <3>1. query' = [query EXCEPT ![r] = q2]
      BY <1>1, <2>2, <2>5
    <3>2. q2 \in Question
      BY <1>1, <2>1 DEF Question, Q!Stages, Q!Outcomes
    <3>3. /\ q2.at = "end" /\ q2.context = <<>> /\ q2.cites = {} /\ q2.out = "chunks" /\ q2.counted = 0
          /\ q2.billed = 0
      BY <1>1, <2>3 DEF Question
    <3> HIDE DEF q2
    <3>4. Len(<<>>) = 0
      BY EmptySeq
    <3>5. ContextSound(q2)
      BY <1>3, <3>3, <3>4 DEF ContextSound
    <3>6. CountSound(q2)
      BY <3>3 DEF CountSound
    <3> QED  BY <3>1, <3>2, <3>5, <3>6 DEF Advances, QuestionSound
  <2> QED  BY <2>4, <2>5
<1>12. Advances(r)
  BY <1>4, <1>5, <1>6, <1>7, <1>8, <1>9, <1>10, <1>11 DEF Q!Retrieving
<1>13. query[r].at # "end" /\ UNCHANGED Q!Env_ /\ UNCHANGED Q!Log_
  BY DEF Q!Retrieving, Q!RewriteReturns, Q!HydeReturns, Q!SearchOpens, Q!SearchFails, Q!Hybrid,
         Q!RerankReturns, Q!RerankFallsBack, Q!SearchReturns, Q!At, Q!Env_, Q!Log_
<1> QED  BY <1>12, <1>13, AdvanceKeeps

\* The blocks that pass the floor are results of this request, at or over the floor in force.
LEMMA PassFloorIs ==
  ASSUME QueryInv, Q!QueryAssumption, NEW r \in Requests
  PROVE  /\ Q!PassFloor(r) \in Seq(Scored) /\ Len(Q!PassFloor(r)) <= Len(query[r].results)
         /\ \A n \in 1..Len(Q!PassFloor(r)) :
              /\ Q!PassFloor(r)[n] \in Q!ToSet(query[r].results)
              /\ query[r].reranked => Q!PassFloor(r)[n].score >= MinScore
<1> DEFINE results == query[r].results
           floor == IF query[r].reranked THEN MinScore ELSE 0
           over == {i \in 1..Len(results) : results[i].score >= floor}
           kept == Q!Ascending(over)
           m == Len(kept)
           f == [n \in 1..m |-> results[kept[n]]]
<1>1. results \in Seq(Scored) /\ Len(results) \in Nat /\ DOMAIN results = 1..Len(results)
  <2>1. results \in Seq(Scored)
    BY RequestIs DEF Question
  <2> QED  BY <2>1, LenProperties
<1>2. Q!PassFloor(r) = f
  BY DEF Q!PassFloor
<1>3. kept \in Seq(over) /\ Len(kept) <= Len(results)
  BY <1>1, AscendingLists
<1>4. m \in Nat /\ \A n \in 1..m : kept[n] \in over
  BY <1>3, LenProperties, ElementOfSeq
<1> HIDE DEF kept, m
<1>5. ASSUME NEW n \in 1..m
      PROVE  /\ f[n] \in Scored /\ f[n] \in Q!ToSet(results)
             /\ query[r].reranked => f[n].score >= MinScore
  <2>1. kept[n] \in 1..Len(results) /\ results[kept[n]].score >= floor /\ f[n] = results[kept[n]]
    BY <1>4
  <2>2. results[kept[n]] \in Scored /\ results[kept[n]] \in Q!ToSet(results)
    BY <1>1, <2>1, ElementOfSeq DEF Q!ToSet
  <2> HIDE DEF f, results
  <2> QED  BY <2>1, <2>2
<1>6. f \in [1..m -> Scored]
  BY <1>5
<1> HIDE DEF f
<1>7. f \in Seq(Scored) /\ Len(f) = m
  BY <1>4, <1>6, AsSequence
<1> QED  BY <1>2, <1>3, <1>5, <1>7 DEF m
LEMMA AnsweringStep ==
  ASSUME QueryInv, Q!QueryAssumption, NEW r \in Requests, Q!Answering(r)
  PROVE  QueryInv'
<1> DEFINE q == query[r]
<1>1. q \in Question /\ QuestionSound(q) /\ query \in [Requests -> Question]
  BY RequestIs
<1>2. /\ q.context \in Seq(Scored) /\ Len(q.context) \in Nat /\ q.mode \in Q!Modes
      /\ q.cites \in SUBSET Cited
      /\ \A x \in q.cites : x.n \in 1..Len(q.context) /\ q.context[x.n].c = x.c
      /\ \A n \in 1..Len(q.context) : q.context[n] \in Scored
      /\ q.at = "stream" => q.mode = "sse"
  <2>1. q.context \in Seq(Scored) /\ q.mode \in Q!Modes /\ q.cites \in SUBSET Cited
    BY <1>1 DEF Question
  <2> QED  BY <1>1, <2>1, LenProperties, ElementOfSeq DEF QuestionSound, ContextSound, CountSound
<1> DEFINE Quietly == UNCHANGED Q!Env_ /\ UNCHANGED Q!Log_ /\ q.at # "end" /\ Advances(r)
           Loudly == UNCHANGED Q!Env_ /\ Q!Logs(r) /\ q.at # "end" /\ Advances(r) /\ query'[r].at = "end"
<1> SUFFICES Quietly \/ Loudly
  BY AdvanceKeeps
<1> HIDE DEF Quietly, Loudly
<1>3. CASE Q!Refuse(r)
  <2>1. Q!Responds(r, "refused", {}, {}, 0) /\ q.at = "prepare" /\ Q!Logs(r) /\ UNCHANGED Q!Env_
    BY <1>3 DEF Q!Refuse, Q!At
  <2>2. Advances(r) /\ query'[r].at = "end"
    BY <2>1, RespondsStep
  <2> QED  BY <2>1, <2>2 DEF Loudly
<1>4. CASE Q!Prepare(r)
  <2> DEFINE passed == Q!PassFloor(r)
             budget == IF Budget = 0 THEN 1 ELSE Budget
             context == Q!WithinBudget(passed)
             cites == IF q.mode = "sse" THEN Q!Candidates(context) ELSE {}
             q2 == [q EXCEPT !.at = "generate", !.context = context, !.cites = cites]
  <2>1. query' = [query EXCEPT ![r].at = "generate", ![r].context = context, ![r].cites = cites]
        /\ q.at = "prepare" /\ UNCHANGED <<Q!Env_, Q!Log_>>
    BY <1>4 DEF Q!Prepare, Q!At
  <2>2. /\ passed \in Seq(Scored) /\ Len(passed) <= Len(q.results) /\ Len(passed) \in Nat
        /\ \A n \in 1..Len(passed) : passed[n] \in Q!ToSet(q.results) /\ (q.reranked => passed[n].score >= MinScore)
    BY PassFloorIs, LenProperties
  <2>3. Len(q.results) <= MaxTopK /\ MaxTopK \in Nat /\ Len(q.results) \in Nat
    <3>1. q.results \in Seq(Scored)
      BY <1>1 DEF Question
    <3> QED  BY <1>1, <2>1, <3>1, LenProperties DEF QuestionSound, ContextSound, Q!QueryAssumption
  <2> HIDE DEF passed
  <2>4. budget \in Nat
    BY DEF Q!QueryAssumption
  <2>5. context = Q!First(passed, budget)
    BY DEF Q!WithinBudget
  <2> HIDE DEF budget, context
  <2>6. /\ context \in Seq(Scored) /\ Len(context) <= Len(passed)
        /\ \A n \in 1..Len(context) : context[n] = passed[n]
    BY <2>2, <2>4, <2>5, FirstIs
  <2>7. Len(context) \in Nat /\ Len(context) <= MaxTopK
    BY <2>2, <2>3, <2>6, LenProperties
  <2>8. \A n \in 1..Len(context) :
          context[n] \in Q!ToSet(q.results) /\ (q.reranked => context[n].score >= MinScore)
    BY <2>2, <2>6, <2>7
  <2>9. cites \in SUBSET Cited /\ \A x \in cites : x.n \in 1..Len(context) /\ context[x.n].c = x.c
    <3>1. \A n \in 1..Len(context) : context[n] \in Scored /\ n \in Nat
      BY <2>6, <2>7, ElementOfSeq
    <3>2. Q!Candidates(context) = {[n |-> i, c |-> context[i].c] : i \in 1..Len(context)}
      BY DEF Q!Candidates
    <3> QED  BY <3>1, <3>2 DEF Scored, Cited
  <2> HIDE DEF cites
  <2>10. query' = [query EXCEPT ![r] = q2]
    BY <1>1, <2>1
  <2>11. q2 \in Question
    BY <1>1, <2>6, <2>9 DEF Question, Q!Stages, Q!CallStages
  <2>12. /\ q2.at = "generate" /\ q2.context = context /\ q2.cites = cites /\ q2.out = q.out
         /\ q2.counted = q.counted /\ q2.billed = q.billed /\ q2.results = q.results
         /\ q2.reranked = q.reranked
    BY <1>1 DEF Question
  <2> HIDE DEF q2
  <2>13. ContextSound(q2)
    BY <2>7, <2>8, <2>9, <2>12 DEF ContextSound
  <2>14. CountSound(q2)
    BY <1>1, <2>1, <2>12 DEF QuestionSound, CountSound
  <2>15. Advances(r)
    BY <2>10, <2>11, <2>13, <2>14 DEF Advances, QuestionSound
  <2> QED  BY <2>1, <2>15 DEF Quietly
<1>5. ASSUME NEW marks \in SUBSET {1, 2, 3}, Q!AnswerReturns(r, marks) PROVE Loudly
  <2> DEFINE cites == Q!MapCitations(q.context, marks)
  <2>1. Q!Responds(r, "answered", cites, marks, 1) /\ q.at = "generate" /\ Q!Logs(r) /\ UNCHANGED Q!Env_
    BY <1>5 DEF Q!AnswerReturns, Q!At
  <2>2. cites = {[n |-> i, c |-> q.context[i].c] : i \in marks \cap 1..Len(q.context)}
    BY DEF Q!MapCitations
  <2> HIDE DEF cites
  <2>3. cites \in SUBSET Cited /\ \A x \in cites : x.n \in 1..Len(q.context) /\ q.context[x.n].c = x.c
    BY <1>2, <2>2 DEF Scored, Cited
  <2>6. {x.n : x \in cites} = marks \cap 1..Len(q.context)
    <3> DEFINE used == marks \cap 1..Len(q.context)
    <3>1. \A x \in cites : x.n \in used
      BY <2>2
    <3>2. \A i \in used : \E x \in cites : x.n = i
      <4> TAKE i \in used
      <4>1. [n |-> i, c |-> q.context[i].c] \in cites
        BY <2>2
      <4> QED  BY <4>1
    <3> HIDE DEF used
    <3>3. {x.n : x \in cites} = used
      BY <3>1, <3>2
    <3> QED  BY <3>3 DEF used
  <2>4. marks \in SUBSET Nat
    OBVIOUS
  <2>5. Advances(r) /\ query'[r].at = "end"
    BY <2>1, <2>3, <2>4, <2>6, RespondsStep
  <2> QED  BY <2>1, <2>5 DEF Loudly
<1>6. CASE Q!AnswerDegrades(r)
  <2> DEFINE cites == Q!Candidates(q.context)
  <2>1. Q!Responds(r, "degraded", cites, {}, 0) /\ q.at = "generate" /\ UNCHANGED <<Q!Env_, Q!Log_>>
    BY <1>6 DEF Q!AnswerDegrades, Q!At
  <2>2. cites = {[n |-> i, c |-> q.context[i].c] : i \in 1..Len(q.context)}
    BY DEF Q!Candidates
  <2> HIDE DEF cites
  <2>3. cites \in SUBSET Cited /\ \A x \in cites : x.n \in 1..Len(q.context) /\ q.context[x.n].c = x.c
    BY <1>2, <2>2 DEF Scored, Cited
  <2>4. Advances(r)
    BY <2>1, <2>3, RespondsStep
  <2> QED  BY <2>1, <2>4 DEF Quietly
<1>7. CASE Q!GenerateFails(r)
  BY <1>7, EndsStep DEF Quietly, Q!GenerateFails, Q!At
<1>8. CASE Q!StreamOpens(r)
  BY <1>8, GoesStep DEF Quietly, Q!StreamOpens, Q!At
<1>9. ASSUME NEW out \in {"answered", "degraded", "interrupted"}, NEW billed \in {0, 1},
             q.at \in {"generate", "stream"}, Q!Responds(r, out, q.cites, {}, billed), q.mode = "sse",
             billed = 1 => out \in {"answered", "interrupted"}, Q!Logs(r), UNCHANGED Q!Env_
      PROVE  Loudly
  <2> DEFINE cites == q.cites
  <2>1. cites \in SUBSET Cited /\ \A x \in cites : x.n \in 1..Len(q.context) /\ q.context[x.n].c = x.c
    BY <1>2
  <2>2. Q!Responds(r, out, cites, {}, billed)
    BY <1>9
  <2> HIDE DEF cites
  <2>3. /\ out \in {"answered", "refused", "degraded", "interrupted"} /\ {} \in SUBSET Nat
        /\ q.at # "end" /\ q.mode # "json" /\ billed \in {0, 1}
        /\ billed = 1 => out = "answered" \/ (out = "interrupted" /\ query[r].mode = "sse")
    BY <1>9
  <2>4. Advances(r) /\ query'[r].at = "end"
    BY <2>1, <2>2, <2>3, RespondsStep
  <2> QED  BY <1>9, <2>3, <2>4 DEF Loudly
<1>10. CASE Q!StreamDegrades(r)
  BY <1>9, <1>10 DEF Q!StreamDegrades, Q!At
<1>11. ASSUME NEW billed \in {0, 1}, Q!StreamDrains(r, billed) PROVE Loudly
  BY <1>2, <1>9, <1>11 DEF Q!StreamDrains, Q!At
<1>12. ASSUME NEW billed \in {0, 1}, Q!StreamInterrupted(r, billed) PROVE Loudly
  BY <1>2, <1>9, <1>12 DEF Q!StreamInterrupted, Q!At
<1>13. CASE Q!ClientLeaves(r)
  BY <1>13, EndsStep DEF Quietly, Q!ClientLeaves, Q!At
<1> QED
  BY <1>3, <1>4, <1>5, <1>6, <1>7, <1>8, <1>10, <1>11, <1>12, <1>13 DEF Q!Answering, Q!Responding, Q!StreamEnds

-----------------------------------------------------------------------------
(* The query log, the tenant and the process.                                *)

LEMMA LogStep ==
  ASSUME QueryInv, UNCHANGED query,
         \/ \E r \in Requests : Q!InsertLog(r) \/ Q!InsertLost(r) \/ \E x \in {1, 2} : Q!Feedback(r, x)
         \/ Q!Shutdown
  PROVE  QueryInv'
<1>1. QueryTypes /\ LogSound /\ \A r \in Requests : QuestionSound(query[r])
  BY DEF QueryInv
<1>2. CASE \E r \in Requests : Q!InsertLog(r) \/ Q!InsertLost(r) \/ \E x \in {1, 2} : Q!Feedback(r, x)
  <2>1. PICK r \in Requests : Q!InsertLog(r) \/ Q!InsertLost(r) \/ \E x \in {1, 2} : Q!Feedback(r, x)
    BY <1>2
  <2>2. UNCHANGED <<reranker, status, changes, up>>
    BY <2>1 DEF Q!InsertLog, Q!InsertLost, Q!Feedback, Q!Env_
  <2>3. CASE Q!InsertLog(r) \/ Q!InsertLost(r)
    <3>1. /\ entry[r] = "pending" /\ rating' = rating
          /\ entry' = [entry EXCEPT ![r] = "stored"] \/ entry' = [entry EXCEPT ![r] = "lost"]
      BY <2>3 DEF Q!InsertLog, Q!InsertLost
    <3> QED  BY <1>1, <2>2, <3>1 DEF QueryInv, QueryTypes, LogSound
  <2>4. CASE \E x \in {1, 2} : Q!Feedback(r, x)
    <3>1. PICK x \in {1, 2} : rating' = [rating EXCEPT ![r] = x]
      BY <2>4 DEF Q!Feedback
    <3>2. entry[r] = "stored" /\ entry' = entry
      BY <2>4 DEF Q!Feedback
    <3> QED  BY <1>1, <2>2, <3>1, <3>2 DEF QueryInv, QueryTypes, LogSound
  <2> QED  BY <2>1, <2>3, <2>4
<1>3. CASE Q!Shutdown
  <2>1. /\ entry' = [r \in Requests |-> IF entry[r] = "pending" THEN "lost" ELSE entry[r]]
        /\ up' = FALSE /\ UNCHANGED <<reranker, status, changes, rating>>
    BY <1>3 DEF Q!Shutdown
  <2> QED  BY <1>1, <2>1 DEF QueryInv, QueryTypes, LogSound
<1> QED  BY <1>2, <1>3

LEMMA TenantStep ==
  ASSUME QueryInv, Q!QueryAssumption,
         Q!PatchSettings \/ \E to \in {"active", "suspended", "gone"} : Q!SetStatus(to)
  PROVE  QueryInv'
<1>1. /\ UNCHANGED <<query, entry, rating, up>> /\ reranker' \in BOOLEAN
      /\ status' \in {"active", "suspended", "gone"} /\ changes' = changes + 1 /\ changes < MaxPatches
  BY DEF Q!PatchSettings, Q!SetStatus, Q!Change, QueryInv, QueryTypes
<1>2. MaxPatches \in Nat
  BY DEF Q!QueryAssumption
<1> QED  BY <1>1, <1>2 DEF QueryInv, QueryTypes, LogSound

LEMMA QueryInitSound == Q!QueryAssumption /\ Q!Init => QueryInv
<1> SUFFICES ASSUME Q!QueryAssumption, Q!Init PROVE QueryInv
  OBVIOUS
<1>1. Q!New \in Question
  <2>1. <<>> \in Seq(Scored)
    BY EmptySeq
  <2> QED  BY <2>1 DEF Q!New, Question, Call, Q!Stages, Q!CallStages, Q!Modes, Q!Outcomes, Q!NoCall, Q!QueryAssumption
<1>2. QuestionSound(Q!New)
  <2>1. Len(<<>>) = 0
    BY EmptySeq
  <2> QED  BY <2>1 DEF Q!New, QuestionSound, ContextSound, CountSound, Q!QueryAssumption
<1>3. Q!New.at = "new"
  BY DEF Q!New
<1> QED  BY <1>1, <1>2, <1>3 DEF Q!Init, QueryInv, QueryTypes, LogSound, Q!QueryAssumption

LEMMA QueryNextSound ==
  ASSUME QueryInv, Q!QueryAssumption, [Q!Next]_(Q!vars)
  PROVE  QueryInv'
<1>1. CASE UNCHANGED Q!vars
  BY <1>1 DEF Q!vars, QueryInv, QueryTypes, LogSound
<1>2. ASSUME NEW r \in Requests, Q!Begin(r) \/ Q!Step(r) PROVE QueryInv'
  BY <1>2, BeginStep, AttemptStep, RetrievingStep, AnsweringStep DEF Q!Step
<1>3. ASSUME NEW r \in Requests, Q!InsertLog(r) \/ Q!InsertLost(r) \/ \E x \in {1, 2} : Q!Feedback(r, x)
      PROVE  QueryInv'
  <2>1. UNCHANGED query
    BY <1>3 DEF Q!InsertLog, Q!InsertLost, Q!Feedback
  <2> QED  BY <1>3, <2>1, LogStep
<1>4. CASE Q!Shutdown
  <2>1. UNCHANGED query
    BY <1>4 DEF Q!Shutdown
  <2> QED  BY <1>4, <2>1, LogStep
<1> QED  BY <1>1, <1>2, <1>3, <1>4, TenantStep DEF Q!Next

\* The strengthened invariant holds in every behaviour of the query pipeline.
THEOREM QueryInvariance == Q!Spec => []QueryInv
<1>1. Q!Init => QueryInv
  BY SameAssumption, QueryInitSound
<1>2. QueryInv /\ [Q!Next]_(Q!vars) => QueryInv'
  BY SameAssumption, QueryNextSound
<1> QED  BY <1>1, <1>2, PTL DEF Q!Spec

\* The state of a request, of its log entry and of the tenant has its types.
THEOREM QueryTypeCorrect == Q!Spec => []Q!TypeOK
<1>1. QueryInv => Q!TypeOK
  <2> SUFFICES ASSUME QueryInv, NEW r \in Requests
               PROVE  /\ reranker \in BOOLEAN /\ up \in BOOLEAN
                      /\ status \in {"active", "suspended", "gone"} /\ changes \in 0..MaxPatches
                      /\ query[r].at \in Q!Stages /\ query[r].mode \in Q!Modes /\ query[r].out \in Q!Outcomes
                      /\ Q!IsResults(query[r].results)
                      /\ Len(query[r].context) <= MaxTopK
                      /\ query[r].call.tries <= MaxRetries
                      /\ entry[r] \in {"none", "pending", "stored", "lost"}
                      /\ rating[r] \in {0, 1, 2} /\ (rating[r] # 0 => entry[r] = "stored")
    BY DEF Q!TypeOK, QueryInv, QueryTypes
  <2>1. query[r] \in Question /\ QuestionSound(query[r])
    BY RequestIs
  <2>2. Q!IsResults(query[r].results)
    <3>1. \A i \in 1..Len(query[r].results) : query[r].results[i] \in Scored
      BY <2>1, ElementOfSeq DEF Question
    <3> QED  BY <3>1 DEF Q!IsResults, Scored
  <2> QED
    BY <2>1, <2>2 DEF QueryInv, QueryTypes, LogSound, Question, Call, QuestionSound, ContextSound, Q!QueryAssumption
<1> QED  BY <1>1, QueryInvariance, PTL

\* Every citation number leads the client, the log and feedback to one chunk, retrieved for this
\* request and over the floor in force, whatever the search, the reranker and the model return
\* (answer.go mapCitations, candidateCitations, logQuery; service.go reorderByScore).
THEOREM CitationsResolveAlways == Q!Spec => []CitationsResolve
<1>1. QueryInv => CitationsResolve
  <2> SUFFICES ASSUME QueryInv, NEW r \in Requests
               PROVE  LET q == query[r]
                      IN  /\ \A x \in q.cites :
                               /\ x.n \in 1..Len(q.context) /\ q.context[x.n].c = x.c
                               /\ q.context[x.n] \in ToSet(q.results)
                               /\ (q.reranked => q.context[x.n].score >= MinScore)
                          /\ q.out = "answered" /\ q.mode = "json" => {x.n : x \in q.cites} = q.marks \cap 1..Len(q.context)
                          /\ q.out \in {"answered", "degraded", "interrupted"} => q.logged = {x.c : x \in q.cites}
    BY DEF CitationsResolve
  <2> QED  BY RequestIs DEF QuestionSound, ContextSound, CountSound, ToSet, Q!ToSet
<1> QED  BY <1>1, QueryInvariance, PTL

\* A question costs one query and its tokens at most once, and only a generation costs tokens: an
\* answer's, or those a stream had brought before it broke, whatever the retries, the fallbacks and
\* the mode (query.go recordQuery; answer.go Answer, RecordStreamed).
THEOREM CountedOnceAlways == Q!Spec => []CountedOnce
<1>1. QueryInv => CountedOnce
  BY RequestIs DEF CountedOnce, QuestionSound, CountSound
<1> QED  BY <1>1, QueryInvariance, PTL
=============================================================================
