------------------------ MODULE TickConversionProofs ------------------------
(***************************************************************************)
(* What the conversion of durations computes at every width, and how far   *)
(* from what was asked for a timed operation of any duration can end.      *)
(***************************************************************************)
EXTENDS TickGrid, TimedWait, TLAPS

LEMMA Widths ==
  RepHalf \in Nat \ {0} /\ TickMod \in Nat \ {0} /\ Den \in Nat \ {0} /\ Den <= RepHalf
BY WidthAssumption

(* A remainder is known by its range and the multiple it differs by. *)
LEMMA UniqueRemainder ==
  ASSUME NEW m \in Nat \ {0}, NEW k \in Int, NEW r \in 0 .. m - 1
  PROVE  (k * m + r) % m = r
<1> DEFINE x == k * m + r
           q == x \div m
<1>1. x \in Int /\ x = (m * q) + (x % m) /\ x % m \in 0 .. m - 1 /\ q \in Int
  OBVIOUS
<1>2. m * (q - k) = r - (x % m)
  BY <1>1
<1>3. q - k = 0
  BY <1>1, <1>2
<1> QED BY <1>1, <1>2, <1>3

(* The cast leaves no value for the test after it to find. *)
LEMMA ClampIsDead ==
  ASSUME NEW x \in Int
  PROVE  Clamp(Cast(x)) = Cast(x) /\ Cast(x) \in 0 .. TickMod - 1
BY Widths DEF Clamp, Cast

LEMMA WrapIsIdentity ==
  ASSUME NEW x \in -RepHalf .. RepHalf - 1
  PROVE  Wrap(x) = x
<1>1. x + RepHalf \in 0 .. 2 * RepHalf - 1 /\ 2 * RepHalf \in Nat \ {0}
  BY Widths
<1>2. (x + RepHalf) % (2 * RepHalf) = x + RepHalf
  BY <1>1
<1> QED BY <1>2, Widths DEF Wrap

(* What a duration that fits converts to: the whole ticks in it. *)
LEMMA ConvertCountsTicks ==
  ASSUME NEW u \in Nat, NEW f \in Nat,
         u * f < RepHalf, u * f < TickMod * Den
  PROVE  /\ Convert(u, f) \in Nat
         /\ Convert(u, f) * Den <= u * f
         /\ u * f < (Convert(u, f) + 1) * Den
<1> DEFINE p == u * f
           n == p \div Den
<1>1. p \in Nat /\ p < RepHalf /\ p < TickMod * Den
  OBVIOUS
<1> HIDE DEF p
<1>2. n \in Nat /\ n * Den <= p /\ p < (n + 1) * Den
  BY <1>1, Widths
<1>3. n < TickMod
  BY <1>1, <1>2, Widths
<1>4. Cast(n) = n
  <2>1. n \in 0 .. TickMod - 1
    BY <1>2, <1>3, Widths
  <2>2. (0 * TickMod + n) % TickMod = n
    BY <2>1, UniqueRemainder, Widths
  <2> QED BY <2>1, <2>2, Widths DEF Cast
<1>5. Wrap(p) = p
  BY <1>1, WrapIsIdentity, Widths
<1>6. Convert(u, f) = n
  BY <1>1, <1>4, <1>5, <1>2, ClampIsDead DEF Convert, TruncDiv, p
<1> QED BY <1>2, <1>6 DEF p

(* A duration of more ticks than 32 bits hold is cut down to what is left  *)
(* of it beyond a multiple of 2^32: the test that means to make it wait    *)
(* forever comes after the cast, and changes nothing, at any width.        *)
THEOREM LongWaitsAreCutShort ==
  ASSUME NEW u \in Nat, NEW f \in Nat, u * f < RepHalf
  PROVE  Convert(u, f) = ((u * f) \div Den) % TickMod
<1> DEFINE p == u * f
<1>1. p \in Nat /\ p < RepHalf
  OBVIOUS
<1> HIDE DEF p
<1>2. p \div Den \in Int
  BY <1>1, Widths
<1>3. Wrap(p) = p
  BY <1>1, WrapIsIdentity, Widths
<1>4. Convert(u, f) = Cast(p \div Den)
  BY <1>1, <1>2, <1>3, ClampIsDead DEF Convert, TruncDiv, p
<1> QED BY <1>4 DEF Cast, p

LEMMA GridInvariant == GridSpec => []InGrid
<1>1. GridInit => InGrid
  BY Widths DEF GridInit, InGrid
<1>2. InGrid /\ [GridNext]_gridVars => InGrid'
  BY Widths DEF InGrid, GridNext, NextDuration, NextFrequency, gridVars
<1> QED BY <1>1, <1>2, PTL DEF GridSpec

(* Every timed operation of the library is blocked for exactly the whole   *)
(* ticks of its duration, as long as the duration fits.                    *)
THEOREM ConversionIsExact == GridSpec => []ExactWhenItFits
<1>1. InGrid => ExactWhenItFits
  BY ConvertCountsTicks, Widths DEF InGrid, Fits, ExactWhenItFits
<1> QED BY <1>1, GridInvariant, PTL

(* condition_variable::wait passes microseconds::max(): with an even       *)
(* frequency below one tick per microsecond it is blocked for 0 ticks.     *)
THEOREM UntimedWaitIsAPoll == GridSpec => []UntimedWaitPolls
<1>1. InGrid => UntimedWaitPolls
  <2> SUFFICES ASSUME InGrid, usec = RepHalf - 1, freq % 2 = 0, freq < Den
               PROVE  Convert(usec, freq) = 0
    BY DEF UntimedWaitPolls
  <2> DEFINE h == freq \div 2
             m == 2 * RepHalf
  <2>1. freq = 2 * h /\ h \in Nat /\ freq \in 1 .. Den - 1 /\ m \in Nat \ {0}
    BY Widths DEF InGrid
  <2>2. (usec * freq) + RepHalf = (h * m) + (RepHalf - freq)
    BY <2>1, Widths
  <2>3. RepHalf - freq \in 0 .. m - 1
    BY <2>1, Widths
  <2>4. ((usec * freq) + RepHalf) % m = RepHalf - freq
    BY <2>1, <2>2, <2>3, UniqueRemainder
  <2>5. Wrap(usec * freq) = -freq
    BY <2>1, <2>4, Widths DEF Wrap
  <2>6. freq \div Den = 0
    BY <2>1, Widths
  <2>7. TruncDiv(-freq) = 0
    BY <2>1, <2>6, Widths DEF TruncDiv
  <2>8. Cast(0) = 0
    BY Widths DEF Cast
  <2> QED BY <2>5, <2>7, <2>8, ClampIsDead DEF Convert
<1> QED BY <1>1, GridInvariant, PTL

-----------------------------------------------------------------------------
(* The clock after t microseconds. *)
ClockAt(t) == ((FirstCount + TicksAt(t)) * Den) \div Freq

LEMMA Frequencies ==
  /\ Freq \in Nat \ {0} /\ Freq <= Den
  /\ FirstCount \in Nat /\ FirstCount < TickMod
  /\ MaxNow \in Nat /\ Durations \subseteq Int
BY TimeAssumption, Widths

LEMMA Quotient ==
  ASSUME NEW p \in Nat, NEW m \in Nat \ {0}
  PROVE  p \div m \in Nat /\ (p \div m) * m <= p /\ p < ((p \div m) + 1) * m
OBVIOUS

LEMMA TickRange ==
  ASSUME NEW t \in Nat
  PROVE  /\ TicksAt(t) \in Nat
         /\ TicksAt(t) * Den <= t * Freq
         /\ t * Freq < (TicksAt(t) + 1) * Den
<1>1. t * Freq \in Nat
  BY Frequencies
<1> QED BY <1>1, Quotient, Widths DEF TicksAt

LEMMA ClockRange ==
  ASSUME NEW t \in Nat
  PROVE  /\ ClockAt(t) \in Nat
         /\ ClockAt(t) * Freq <= (FirstCount + TicksAt(t)) * Den
         /\ (FirstCount + TicksAt(t)) * Den < (ClockAt(t) + 1) * Freq
<1>1. (FirstCount + TicksAt(t)) * Den \in Nat
  BY Frequencies, TickRange, Widths
<1> QED BY <1>1, Quotient, Frequencies DEF ClockAt

(* A multiple that is less than the next multiple is no greater. *)
LEMMA CompareMultiples ==
  ASSUME NEW a \in Nat, NEW b \in Nat, NEW m \in Nat \ {0}, a * m < (b + 1) * m
  PROVE  a <= b
OBVIOUS

LEMMA MultiplesGrow ==
  ASSUME NEW a \in Int, NEW b \in Int, NEW m \in Nat, a <= b
  PROVE  a * m <= b * m
OBVIOUS

LEMMA TicksGrow ==
  ASSUME NEW s \in Nat, NEW t \in Nat, s <= t
  PROVE  TicksAt(s) <= TicksAt(t)
<1> DEFINE a == s * Freq
           b == t * Freq
<1>1. a \in Int /\ b \in Int /\ a <= b
  BY MultiplesGrow, Frequencies
<1>2. TicksAt(s) * Den <= a /\ b < (TicksAt(t) + 1) * Den
  BY TickRange
<1>3. TicksAt(s) * Den \in Int /\ (TicksAt(t) + 1) * Den \in Int
  BY TickRange, Widths
<1> HIDE DEF a, b
<1>4. TicksAt(s) * Den < (TicksAt(t) + 1) * Den
  BY <1>1, <1>2, <1>3
<1> QED BY <1>4, TickRange, CompareMultiples, Widths

LEMMA ClockGrows ==
  ASSUME NEW s \in Nat, NEW t \in Nat, s <= t
  PROVE  ClockAt(s) <= ClockAt(t)
<1>1. (FirstCount + TicksAt(s)) * Den <= (FirstCount + TicksAt(t)) * Den
  <2>1. FirstCount + TicksAt(s) \in Int /\ FirstCount + TicksAt(t) \in Int
    BY TickRange, Frequencies
  <2>2. FirstCount + TicksAt(s) <= FirstCount + TicksAt(t)
    BY TicksGrow, TickRange, Frequencies
  <2> QED BY <2>1, <2>2, MultiplesGrow, Widths
<1>2. ClockAt(s) * Freq < (ClockAt(t) + 1) * Freq
  <2> DEFINE a == (FirstCount + TicksAt(s)) * Den
             b == (FirstCount + TicksAt(t)) * Den
  <2>1. a \in Int /\ b \in Int /\ a <= b
    BY <1>1, TickRange, Frequencies, Widths
  <2>2. ClockAt(s) * Freq <= a /\ b < (ClockAt(t) + 1) * Freq
    BY ClockRange
  <2>3. ClockAt(s) * Freq \in Int /\ (ClockAt(t) + 1) * Freq \in Int
    BY ClockRange, Frequencies
  <2> HIDE DEF a, b
  <2> QED BY <2>1, <2>2, <2>3
<1> QED BY <1>2, ClockRange, CompareMultiples, Frequencies

(* A microsecond brings a tick or none. *)
LEMMA NextTick ==
  ASSUME NEW t \in Nat
  PROVE  TicksAt(t + 1) = TicksAt(t) \/ TicksAt(t + 1) = TicksAt(t) + 1
<1> DEFINE p == t * Freq
           k == TicksAt(t)
           n == TicksAt(t + 1)
<1>1. p \in Nat /\ (t + 1) * Freq = p + Freq
  BY Frequencies
<1>2. k \in Nat /\ p < (k + 1) * Den
  BY TickRange
<1>3. n \in Nat /\ n * Den <= p + Freq
  BY <1>1, TickRange
<1>4. TicksAt(t) <= TicksAt(t + 1)
  BY TicksGrow
<1> HIDE DEF p, k, n
<1>5. n * Den < ((k + 1) + 1) * Den
  <2>1. ((k + 1) + 1) * Den = (k + 1) * Den + Den /\ (k + 1) * Den \in Nat /\ n * Den \in Nat
    BY <1>2, <1>3, Widths
  <2> QED BY <1>1, <1>2, <1>3, <2>1, Frequencies, Widths
<1>6. n <= k + 1
  BY <1>2, <1>3, <1>5, CompareMultiples, Widths
<1> QED BY <1>2, <1>3, <1>4, <1>6 DEF k, n

(* A call of duration d that began at s is blocked anew at t, for the      *)
(* ticks of what the clock says is left of it.                             *)
LEMMA BlockedInTime ==
  ASSUME DurationsFit,
         NEW s \in Nat, NEW t \in Nat, s <= t,
         NEW d \in Durations, NEW rest \in Nat,
         rest = (d + ClockAt(s)) - ClockAt(t)
  PROVE  /\ Convert(rest, Freq) \in Nat
         /\ (d + s) * Freq < (TicksAt(t) + Convert(rest, Freq) + 2) * Den + Freq
         /\ (TicksAt(t) + Convert(rest, Freq)) * Den < (d + s) * Freq + Freq
<1> DEFINE n == Convert(rest, Freq)
           a == ClockAt(s)
           b == ClockAt(t)
           i == TicksAt(s)
           j == TicksAt(t)
<1>1. a \in Nat /\ b \in Nat /\ i \in Nat /\ j \in Nat /\ d \in Int
  BY ClockRange, TickRange, Frequencies
<1>2. rest = (d + a) - b /\ a <= b
  BY ClockGrows
<1>3. a * Freq <= (FirstCount + i) * Den /\ (FirstCount + i) * Den < (a + 1) * Freq
  BY ClockRange
<1>4. b * Freq <= (FirstCount + j) * Den /\ (FirstCount + j) * Den < (b + 1) * Freq
  BY ClockRange
<1>5. i * Den <= s * Freq /\ s * Freq < (i + 1) * Den
  BY TickRange
<1>6. n \in Nat /\ n * Den <= rest * Freq /\ rest * Freq < (n + 1) * Den
  <2>1. rest <= d
    BY <1>1, <1>2
  <2>2. rest * Freq <= d * Freq /\ rest * Freq \in Int /\ d * Freq \in Int
    BY <2>1, <1>1, MultiplesGrow, Frequencies
  <2>3. d * Freq < RepHalf /\ d * Freq < TickMod * Den
    BY DEF DurationsFit
  <2>4. rest * Freq < RepHalf /\ rest * Freq < TickMod * Den
    <3>1. RepHalf \in Int /\ TickMod * Den \in Int
      BY Widths
    <3> QED BY <2>2, <2>3, <3>1
  <2> QED BY <2>4, ConvertCountsTicks, Frequencies
<1> HIDE DEF n, a, b, i, j
<1>7. /\ rest * Freq = (d * Freq + a * Freq) - b * Freq
      /\ (a + 1) * Freq = a * Freq + Freq
      /\ (b + 1) * Freq = b * Freq + Freq
      /\ (d + s) * Freq = d * Freq + s * Freq
  <2>1. rest + b = d + a
    BY <1>1, <1>2
  <2>2. (rest + b) * Freq = rest * Freq + b * Freq
    BY <1>1, Frequencies
  <2>3. (d + a) * Freq = d * Freq + a * Freq
    BY <1>1, Frequencies
  <2>4. rest * Freq = (d * Freq + a * Freq) - b * Freq
    <3>1. rest * Freq \in Int /\ b * Freq \in Int /\ d * Freq \in Int /\ a * Freq \in Int
      BY <1>1, Frequencies
    <3> QED BY <2>1, <2>2, <2>3, <3>1
  <2>5. /\ (a + 1) * Freq = a * Freq + Freq
        /\ (b + 1) * Freq = b * Freq + Freq
        /\ (d + s) * Freq = d * Freq + s * Freq
    BY <1>1, Frequencies
  <2> QED BY <2>4, <2>5
<1>8. /\ (FirstCount + i) * Den = FirstCount * Den + i * Den
      /\ (FirstCount + j) * Den = FirstCount * Den + j * Den
      /\ (i + 1) * Den = i * Den + Den
      /\ (n + 1) * Den = n * Den + Den
      /\ (j + n + 2) * Den = j * Den + n * Den + Den + Den
      /\ (j + n) * Den = j * Den + n * Den
  BY <1>1, <1>6, Frequencies, Widths
<1>9. /\ a * Freq \in Int /\ b * Freq \in Int /\ d * Freq \in Int /\ s * Freq \in Int
      /\ FirstCount * Den \in Int /\ i * Den \in Int /\ j * Den \in Int /\ n * Den \in Int
  BY <1>1, <1>6, Frequencies, Widths
<1>10. /\ n \in Nat
       /\ (d + s) * Freq < (j + n + 2) * Den + Freq
       /\ (j + n) * Den < (d + s) * Freq + Freq
  BY <1>3, <1>4, <1>5, <1>6, <1>7, <1>8, <1>9, Frequencies, Widths
<1> QED BY <1>10 DEF n, j

(* An operation that ends when its ticks are over. *)
LEMMA EndBound ==
  ASSUME NEW s \in Nat, NEW t \in Nat, NEW d \in Int,
         (d + s) * Freq < (TicksAt(t) + 2) * Den + Freq
  PROVE  (d - (t - s)) * Freq < 2 * Den + Freq
<1> DEFINE j == TicksAt(t)
<1>1. j \in Nat /\ j * Den <= t * Freq
  BY TickRange
<1> HIDE DEF j
<1>2. (d + s) * Freq < (j + 2) * Den + Freq
  BY DEF j
<1>3. /\ (d + s) * Freq = d * Freq + s * Freq
      /\ (d - (t - s)) * Freq = (d * Freq + s * Freq) - t * Freq
      /\ (j + 2) * Den = j * Den + 2 * Den
      /\ d * Freq \in Int /\ s * Freq \in Int /\ t * Freq \in Int /\ j * Den \in Int
  BY <1>1, Frequencies, Widths
<1> QED BY <1>1, <1>2, <1>3, Frequencies, Widths

(* An operation whose ticks are over in time is not late. *)
LEMMA LateBound ==
  ASSUME NEW s \in Nat, NEW t \in Nat, NEW d \in Int, NEW n \in Nat,
         (TicksAt(t) + n) * Den < (d + s) * Freq + Freq
  PROVE  ((t - s) - d) * Freq < Den + Freq
<1> DEFINE j == TicksAt(t)
<1>1. j \in Nat /\ t * Freq < (j + 1) * Den
  BY TickRange
<1> HIDE DEF j
<1>2. (j + n) * Den < (d + s) * Freq + Freq
  BY DEF j
<1>3. /\ (d + s) * Freq = d * Freq + s * Freq
      /\ ((t - s) - d) * Freq = (t * Freq - s * Freq) - d * Freq
      /\ (j + 1) * Den = j * Den + Den
      /\ (j + n) * Den = j * Den + n * Den
      /\ d * Freq \in Int /\ s * Freq \in Int /\ t * Freq \in Int /\ j * Den \in Int
  BY <1>1, Frequencies, Widths
<1>4. n * Den \in Nat
  BY Widths
<1> QED BY <1>1, <1>2, <1>3, <1>4, Frequencies, Widths

(* A deadline that the clock is past is not far off. *)
LEMMA PastBound ==
  ASSUME NEW s \in Nat, NEW t \in Nat, NEW d \in Int,
         ClockAt(s) + d < ClockAt(t)
  PROVE  (d - (t - s)) * Freq < 2 * Den + Freq
<1> DEFINE a == ClockAt(s)
           b == ClockAt(t)
           i == TicksAt(s)
           j == TicksAt(t)
<1>1. a \in Nat /\ b \in Nat /\ i \in Nat /\ j \in Nat /\ a + d <= b
  BY ClockRange, TickRange
<1>2. b * Freq <= (FirstCount + j) * Den
  BY ClockRange
<1>3. (FirstCount + i) * Den < (a + 1) * Freq
  BY ClockRange
<1>4. s * Freq < (i + 1) * Den /\ j * Den <= t * Freq
  BY TickRange
<1> HIDE DEF a, b, i, j
<1>5. (a + d) * Freq <= b * Freq
  BY <1>1, MultiplesGrow, Frequencies
<1>6. /\ (a + d) * Freq = a * Freq + d * Freq
      /\ (a + 1) * Freq = a * Freq + Freq
      /\ (FirstCount + i) * Den = FirstCount * Den + i * Den
      /\ (FirstCount + j) * Den = FirstCount * Den + j * Den
      /\ (i + 1) * Den = i * Den + Den
      /\ (d - (t - s)) * Freq = (d * Freq + s * Freq) - t * Freq
  BY <1>1, Frequencies, Widths
<1>7. /\ a * Freq \in Int /\ b * Freq \in Int /\ d * Freq \in Int
      /\ s * Freq \in Int /\ t * Freq \in Int
      /\ FirstCount * Den \in Int /\ i * Den \in Int /\ j * Den \in Int
  BY <1>1, Frequencies, Widths
<1> QED BY <1>2, <1>3, <1>4, <1>5, <1>6, <1>7, Frequencies, Widths

(* A loop that still has its deadline before it is not late after a        *)
(* microsecond more.                                                       *)
LEMMA BusyBound ==
  ASSUME NEW s \in Nat, NEW t \in Nat, NEW d \in Int,
         ClockAt(t) < ClockAt(s) + d
  PROVE  (((t + 1) - s) - d) * Freq < Den + Freq
<1> DEFINE a == ClockAt(s)
           b == ClockAt(t)
           i == TicksAt(s)
           j == TicksAt(t)
<1>1. a \in Nat /\ b \in Nat /\ i \in Nat /\ j \in Nat /\ b + 1 <= a + d
  BY ClockRange, TickRange
<1>2. a * Freq <= (FirstCount + i) * Den
  BY ClockRange
<1>3. (FirstCount + j) * Den < (b + 1) * Freq
  BY ClockRange
<1>4. i * Den <= s * Freq /\ t * Freq < (j + 1) * Den
  BY TickRange
<1> HIDE DEF a, b, i, j
<1>5. (b + 1) * Freq <= (a + d) * Freq
  BY <1>1, MultiplesGrow, Frequencies
<1>6. /\ (a + d) * Freq = a * Freq + d * Freq
      /\ (FirstCount + i) * Den = FirstCount * Den + i * Den
      /\ (FirstCount + j) * Den = FirstCount * Den + j * Den
      /\ (j + 1) * Den = j * Den + Den
      /\ (((t + 1) - s) - d) * Freq = ((t * Freq + Freq) - s * Freq) - d * Freq
  BY <1>1, Frequencies, Widths
<1>7. /\ a * Freq \in Int /\ (b + 1) * Freq \in Int /\ d * Freq \in Int
      /\ s * Freq \in Int /\ t * Freq \in Int
      /\ FirstCount * Den \in Int /\ i * Den \in Int /\ j * Den \in Int
  BY <1>1, Frequencies, Widths
<1> QED BY <1>2, <1>3, <1>4, <1>5, <1>6, <1>7, Frequencies, Widths

-----------------------------------------------------------------------------
Calls ==
  [op : {"none", "waitFor", "waitUntil", "sleepFor", "sleepUntil", "sleepLoop", "predicate"},
   requested : Int, started : 0 .. MaxNow, deadline : Int]

TimedTypes == TypeOK /\ call.started <= now

LEMMA ConvertRange ==
  ASSUME NEW u \in Int
  PROVE  Convert(u, Freq) \in 0 .. WaitForever
<1>1. u * Freq \in Int
  BY Frequencies
<1>2. Wrap(u * Freq) \in Int
  BY <1>1, Widths DEF Wrap
<1>3. TruncDiv(Wrap(u * Freq)) \in Int
  BY <1>2, Widths DEF TruncDiv
<1> QED BY <1>3, ClampIsDead DEF Convert, WaitForever

LEMMA ClockIsInt == TimedTypes => Clock \in Int
<1> SUFFICES ASSUME TimedTypes PROVE Clock \in Int
  OBVIOUS
<1>1. count \in Nat
  BY Widths DEF TimedTypes, TypeOK
<1>2. count * Den \in Int
  BY <1>1, Widths
<1> QED BY <1>2, Frequencies DEF Clock, ToUsec

(* A call that begins. *)
LEMMA NewCall ==
  ASSUME TimedTypes, NEW d \in Durations,
         NEW op \in {"waitFor", "waitUntil", "sleepFor", "sleepUntil", "sleepLoop", "predicate"}
  PROVE  /\ Call(op, d) \in Calls
         /\ Call(op, d).op = op
         /\ Call(op, d).requested = d
         /\ Call(op, d).started = now
         /\ Call(op, d).deadline = Clock + d
<1>1. d \in Int /\ Clock + d \in Int /\ now \in 0 .. MaxNow
  BY ClockIsInt, Frequencies DEF TimedTypes, TypeOK
<1> QED BY <1>1 DEF Call, Calls

LEMMA BlockTypes ==
  ASSUME TimedTypes, NEW c \in Calls, c.started <= now, NEW rest \in Int,
         Block(c, rest), UNCHANGED <<now, count>>
  PROVE  TimedTypes'
<1>1. left' \in 0 .. WaitForever
  BY ConvertRange DEF Block
<1> QED BY <1>1 DEF TimedTypes, TypeOK, Calls, Block

LEMMA EndTypes ==
  ASSUME TimedTypes, NEW c \in Calls, c.started <= now,
         NEW outcome \in {"success", "timeout", "exception"},
         End(c, outcome), UNCHANGED <<now, count>>
  PROVE  TimedTypes'
<1>1. call' \in Calls /\ call'.started = 0
  BY Frequencies DEF End, NoCall, Calls
<1>2. now - c.started \in 0 .. MaxNow /\ c.requested \in Int /\ now \in 0 .. MaxNow
  BY Frequencies DEF TimedTypes, TypeOK, Calls
<1>3. left' \in 0 .. WaitForever
  BY Widths DEF End, WaitForever
<1>4. last' \in [outcome : {"none", "success", "timeout", "exception"},
                 requested : Int, elapsed : 0 .. MaxNow]
  BY <1>2 DEF End
<1> QED BY <1>1, <1>2, <1>3, <1>4 DEF TimedTypes, TypeOK, Calls

LEMMA AdvanceTypes == TimedTypes /\ Advance => TimedTypes'
<1> SUFFICES ASSUME TimedTypes, Advance PROVE TimedTypes'
  OBVIOUS
<1>1. now' \in 0 .. MaxNow /\ now' = now + 1
  BY Frequencies DEF TimedTypes, TypeOK, Advance
<1>2. count' \in 0 .. TickMod - 1
  <2>1. count \in Int
    BY Widths DEF TimedTypes, TypeOK
  <2>2. (count + 1) % TickMod \in 0 .. TickMod - 1
    BY <2>1, Widths
  <2> QED BY <2>2 DEF TimedTypes, TypeOK, Advance
<1>3. left' \in 0 .. WaitForever
  BY Widths DEF TimedTypes, TypeOK, Advance, WaitForever
<1>4. call \in Calls /\ call' = call /\ last' = last
  BY DEF TimedTypes, TypeOK, Calls, Advance
<1>5. call.started <= now'
  BY <1>1, Frequencies DEF TimedTypes, TypeOK
<1> QED BY <1>1, <1>2, <1>3, <1>4, <1>5 DEF TimedTypes, TypeOK, Calls

LEMMA TimedTypesNext == TimedTypes /\ [Next]_vars => TimedTypes'
<1> SUFFICES ASSUME TimedTypes, [Next]_vars PROVE TimedTypes'
  OBVIOUS
<1>1. call \in Calls /\ call.started <= now /\ now <= now /\ now \in Int
  BY Frequencies DEF TimedTypes, TypeOK, Calls
<1>2. Clock \in Int
  BY ClockIsInt
<1>3. ASSUME NEW d \in Durations,
             WaitFor(d) \/ WaitUntil(d) \/ SleepFor(d) \/ SleepUntil(d) \/ PredicateWait(d)
      PROVE  TimedTypes'
  <2>1. PICK op \in {"waitFor", "waitUntil", "sleepFor", "sleepUntil", "sleepLoop", "predicate"} :
          /\ \/ \E outcome \in {"timeout", "exception"} : End(Call(op, d), outcome)
             \/ Block(Call(op, d), d)
          /\ UNCHANGED <<now, count>>
    BY <1>3 DEF WaitFor, WaitUntil, SleepFor, SleepUntil, PredicateWait
  <2>2. d \in Int
    BY Frequencies
  <2> QED BY <1>1, <2>1, <2>2, NewCall, BlockTypes, EndTypes
<1>4. CASE Signal
  <2>1. call.deadline - Clock \in Int
    BY <1>1, <1>2 DEF Calls
  <2> QED BY <1>1, <1>4, <2>1, BlockTypes, EndTypes DEF Signal
<1>5. CASE Expire
  BY <1>1, <1>5, EndTypes DEF Expire
<1>6. CASE SleepAgain
  <2>1. call.deadline - Clock \in Int
    BY <1>1, <1>2 DEF Calls
  <2> QED BY <1>1, <1>6, <2>1, BlockTypes, EndTypes DEF SleepAgain
<1>7. CASE Advance
  BY <1>7, AdvanceTypes
<1>8. CASE Horizon \/ UNCHANGED vars
  BY <1>8 DEF Horizon, vars, TimedTypes, TypeOK
<1> QED BY <1>3, <1>4, <1>5, <1>6, <1>7, <1>8 DEF Next

LEMMA TimedTypesInvariant == Spec => []TimedTypes
<1>1. Init => TimedTypes
  BY Frequencies, Widths DEF Init, NoCall, TimedTypes, TypeOK, WaitForever
<1> QED BY <1>1, TimedTypesNext, PTL DEF Spec

(* The clock, the calls and the kernel's tick counts keep their types.     *)
THEOREM SpecTimedTypeOK == Spec => []TypeOK
<1>1. TimedTypes => TypeOK
  BY DEF TimedTypes
<1> QED BY <1>1, TimedTypesInvariant, PTL

-----------------------------------------------------------------------------
(* The tick count is that of the time.                                     *)
CountIsTicks == count = FirstCount + TicksAt(now)

(* The deadline of a call was fixed when it began.                         *)
DeadlineIsFixed ==
  call.op # "none" =>
    /\ call.requested \in Durations
    /\ call.deadline = call.requested + ClockAt(call.started)

(* The ticks of a blocked call end neither too early nor too late.         *)
EndsNotTooEarly ==
  call.op # "none" =>
    (call.requested + call.started) * Freq < (TicksAt(now) + left + 2) * Den + Freq

EndsNotTooLate ==
  call.op # "none" /\ left \in 1 .. WaitForever - 1 =>
    (TicksAt(now) + left) * Den < (call.requested + call.started) * Freq + Freq

CallInTime == DeadlineIsFixed /\ EndsNotTooEarly /\ EndsNotTooLate /\ DeadlineIsMet

TimeInv == CountIsTicks /\ CallInTime /\ EarlyByTwoTicks

LEMMA ClockIsClockAt == TimedTypes /\ CountIsTicks => Clock = ClockAt(now)
BY DEF CountIsTicks, Clock, ToUsec, ClockAt

(* A call that is blocked, at first or anew.                               *)
LEMMA BlockInTime ==
  ASSUME DurationsFit, TimedTypes, TimeInv,
         NEW c \in Calls, c.op # "none", c.started <= now,
         c.requested \in Durations,
         c.deadline = c.requested + ClockAt(c.started),
         NEW rest \in Nat, rest = c.deadline - Clock,
         Block(c, rest), UNCHANGED <<now, count>>
  PROVE  TimeInv'
<1> DEFINE n == Convert(rest, Freq)
           d == c.requested
           s == c.started
<1>1. s \in Nat /\ now \in Nat /\ d \in Int /\ call' = c /\ left' = n /\ now' = now
  BY Frequencies DEF Block, TimedTypes, TypeOK, Calls
<1>2. rest = (d + ClockAt(s)) - ClockAt(now)
  BY ClockIsClockAt DEF TimeInv
<1>3. /\ n \in Nat
      /\ (d + s) * Freq < (TicksAt(now) + n + 2) * Den + Freq
      /\ (TicksAt(now) + n) * Den < (d + s) * Freq + Freq
  BY <1>1, <1>2, BlockedInTime
<1>4. ((now - s) - d) * Freq < Den + Freq
  BY <1>1, <1>3, LateBound
<1> HIDE DEF n
<1>5. CountIsTicks' /\ EarlyByTwoTicks'
  BY <1>1 DEF Block, TimeInv, CountIsTicks, EarlyByTwoTicks, TimedOut
<1>6. DeadlineIsFixed'
  BY <1>1 DEF DeadlineIsFixed
<1>7. EndsNotTooEarly' /\ EndsNotTooLate'
  BY <1>1, <1>3 DEF EndsNotTooEarly, EndsNotTooLate
<1>8. DeadlineIsMet'
  BY <1>1, <1>4 DEF DeadlineIsMet
<1> QED BY <1>5, <1>6, <1>7, <1>8 DEF TimeInv, CallInTime

(* A call that ends, early or not.                                         *)
LEMMA EndInTime ==
  ASSUME TimedTypes, TimeInv, NEW c, NEW outcome,
         outcome = "timeout" => (c.requested - (now - c.started)) * Freq < 2 * Den + Freq,
         End(c, outcome), UNCHANGED <<now, count>>
  PROVE  TimeInv'
<1>1. CountIsTicks'
  BY DEF TimeInv, CountIsTicks
<1>2. call'.op = "none"
  BY DEF End, NoCall
<1>3. EarlyByTwoTicks'
  BY DEF End, EarlyByTwoTicks, TimedOut
<1> QED BY <1>1, <1>2, <1>3 DEF TimeInv, CallInTime, DeadlineIsFixed, EndsNotTooEarly,
                                EndsNotTooLate, DeadlineIsMet

LEMMA AdvanceInTime ==
  ASSUME CountFits, TimedTypes, TimeInv, Advance
  PROVE  TimeInv'
<1> DEFINE d == call.requested
           s == call.started
           k == TicksAt(now)
           k1 == TicksAt(now + 1)
<1>1. /\ now \in Nat /\ now' = now + 1 /\ now + 1 \in Nat /\ now + 1 <= MaxNow
      /\ s \in Nat /\ d \in Int /\ left \in 0 .. WaitForever
      /\ call' = call /\ last' = last
  BY Frequencies DEF Advance, TimedTypes, TypeOK
<1>2. WaitForever \in Nat
  BY Widths DEF WaitForever
<1>3. k \in Nat /\ k1 \in Nat /\ (k1 = k \/ k1 = k + 1)
  BY <1>1, NextTick, TickRange
<1>4. \/ k1 = k + 1 /\ count' = (count + 1) % TickMod
         /\ left' = IF left \in {0, WaitForever} THEN left ELSE left - 1
      \/ k1 = k /\ count' = count /\ left' = left
  BY <1>1, <1>3 DEF Advance, TicksAt
<1>5. left' \in 0 .. WaitForever /\ k + left <= k1 + left'
  BY <1>1, <1>2, <1>3, <1>4
<1>6. CountIsTicks'
  <2>1. CASE k1 = k
    BY <1>1, <1>3, <1>4, <2>1 DEF TimeInv, CountIsTicks
  <2>2. CASE k1 = k + 1
    <3>1. count + 1 = FirstCount + k1 /\ FirstCount + k1 \in Nat
      BY <1>3, <2>2, Frequencies DEF TimeInv, CountIsTicks
    <3>2. k1 <= TicksAt(MaxNow)
      BY <1>1, TicksGrow, Frequencies
    <3>3. FirstCount + k1 \in 0 .. TickMod - 1
      BY <1>3, <3>1, <3>2, TickRange, Frequencies, Widths DEF CountFits
    <3>4. (0 * TickMod + (FirstCount + k1)) % TickMod = FirstCount + k1
      BY <3>3, UniqueRemainder, Widths
    <3>5. count' = FirstCount + k1
      BY <1>3, <1>4, <2>2, <3>1, <3>3, <3>4, Widths
    <3> QED BY <1>1, <3>5 DEF CountIsTicks
  <2> QED BY <1>3, <2>1, <2>2
<1>7. DeadlineIsFixed' /\ EarlyByTwoTicks'
  BY <1>1 DEF TimeInv, CallInTime, DeadlineIsFixed, EarlyByTwoTicks, TimedOut
<1>8. EndsNotTooEarly'
  <2> SUFFICES ASSUME call.op # "none"
               PROVE  (d + s) * Freq < (k1 + left' + 2) * Den + Freq
    BY <1>1 DEF EndsNotTooEarly
  <2>1. (d + s) * Freq < (k + left + 2) * Den + Freq
    BY DEF TimeInv, CallInTime, EndsNotTooEarly
  <2>2. (k + left + 2) * Den <= (k1 + left' + 2) * Den
    BY <1>1, <1>3, <1>5, MultiplesGrow, Widths
  <2>3. (d + s) * Freq \in Int /\ (k + left + 2) * Den \in Int /\ (k1 + left' + 2) * Den \in Int
    BY <1>1, <1>3, <1>5, Frequencies, Widths
  <2> HIDE DEF d, s, k, k1
  <2> QED BY <2>1, <2>2, <2>3, Frequencies
<1>9. EndsNotTooLate' /\ DeadlineIsMet'
  <2> SUFFICES ASSUME call.op # "none", left' < WaitForever
               PROVE  /\ left' \in 1 .. WaitForever - 1
                           => (k1 + left') * Den < (d + s) * Freq + Freq
                      /\ (((now + 1) - s) - d) * Freq < Den + Freq
    BY <1>1, <1>2, <1>5 DEF EndsNotTooLate, DeadlineIsMet
  <2>1. CASE left = 0
    <3>1. left' = 0 /\ Unfinished
      BY <1>1, <1>4, <2>1 DEF Advance
    <3>2. ClockAt(now) < ClockAt(s) + d
      BY <1>1, <3>1, ClockIsClockAt, ClockRange DEF Unfinished, TimeInv, CallInTime, DeadlineIsFixed
    <3> QED BY <1>1, <3>1, <3>2, BusyBound
  <2>2. CASE left # 0
    <3>1. left \in 1 .. WaitForever - 1 /\ k1 + left' = k + left
      BY <1>1, <1>2, <1>3, <1>4, <2>2
    <3>2. (k1 + left') * Den < (d + s) * Freq + Freq
      BY <3>1 DEF TimeInv, CallInTime, EndsNotTooLate
    <3>3. left' \in Nat
      BY <1>5
    <3>4. (((now + 1) - s) - d) * Freq < Den + Freq
      BY <1>1, <3>2, <3>3, LateBound
    <3> QED BY <3>2, <3>4
  <2> QED BY <2>1, <2>2
<1> QED BY <1>6, <1>7, <1>8, <1>9 DEF TimeInv, CallInTime

LEMMA TimeInvNext ==
  ASSUME DurationsFit, CountFits, TimedTypes, TimeInv, [Next]_vars
  PROVE  TimeInv'
<1>1. /\ call \in Calls /\ call.started <= now /\ now \in Nat
      /\ call.requested \in Int /\ call.started \in Nat
  BY Frequencies DEF TimedTypes, TypeOK, Calls
<1>2. Clock = ClockAt(now) /\ Clock \in Nat
  BY <1>1, ClockIsClockAt, ClockRange DEF TimeInv
<1>3. ASSUME NEW d \in Durations,
             WaitFor(d) \/ WaitUntil(d) \/ SleepFor(d) \/ SleepUntil(d) \/ PredicateWait(d)
      PROVE  TimeInv'
  <2>1. PICK op \in {"waitFor", "waitUntil", "sleepFor", "sleepUntil", "sleepLoop", "predicate"} :
          /\ \/ d <= 0 /\ End(Call(op, d), "timeout")
             \/ End(Call(op, d), "exception")
             \/ d >= 0 /\ Block(Call(op, d), d)
          /\ UNCHANGED <<now, count>>
    BY <1>3, Frequencies DEF WaitFor, WaitUntil, SleepFor, SleepUntil, PredicateWait
  <2> DEFINE c == Call(op, d)
  <2>2. d \in Int
    BY Frequencies
  <2>3. /\ c \in Calls /\ c.op # "none" /\ c.started = now /\ c.requested = d
        /\ c.deadline = Clock + d
    BY NewCall
  <2> HIDE DEF c
  <2>4. CASE d <= 0 /\ End(c, "timeout")
    <3>1. (d - (now - now)) * Freq < 2 * Den + Freq
      <4>1. d * Freq <= 0 * Freq /\ d * Freq \in Int
        BY <2>2, <2>4, MultiplesGrow, Frequencies
      <4> QED BY <1>1, <2>2, <4>1, Frequencies, Widths
    <3> QED BY <2>1, <2>3, <2>4, <3>1, EndInTime
  <2>5. CASE End(c, "exception")
    BY <2>1, <2>5, EndInTime
  <2>6. CASE d >= 0 /\ Block(c, d)
    <3>1. d \in Nat /\ d = c.deadline - Clock /\ c.deadline = c.requested + ClockAt(c.started)
      BY <1>2, <2>2, <2>3, <2>6
    <3> QED BY <1>1, <2>1, <2>3, <2>6, <3>1, BlockInTime
  <2> QED BY <2>1, <2>4, <2>5, <2>6 DEF c
<1>4. ASSUME call.op # "none", call.deadline >= Clock,
             Block(call, call.deadline - Clock), UNCHANGED <<now, count>>
      PROVE  TimeInv'
  <2>1. call.requested \in Durations /\ call.deadline = call.requested + ClockAt(call.started)
    BY <1>4 DEF TimeInv, CallInTime, DeadlineIsFixed
  <2>2. call.deadline - Clock \in Nat
    BY <1>1, <1>2, <1>4 DEF Calls
  <2> QED BY <1>1, <1>4, <2>1, <2>2, BlockInTime
<1>5. CASE Signal
  <2>1. CASE End(call, "success")
    BY <1>5, <2>1, EndInTime DEF Signal
  <2>2. CASE call.op = "predicate" /\ call.deadline < Clock /\ End(call, "timeout")
    <3>1. ClockAt(call.started) + call.requested < ClockAt(now)
      BY <1>1, <1>2, <2>2, ClockRange DEF TimeInv, CallInTime, DeadlineIsFixed
    <3>2. (call.requested - (now - call.started)) * Freq < 2 * Den + Freq
      BY <1>1, <3>1, PastBound
    <3> QED BY <1>5, <2>2, <3>2, EndInTime DEF Signal
  <2>3. CASE call.op = "predicate" /\ call.deadline >= Clock /\ Block(call, call.deadline - Clock)
    BY <1>4, <1>5, <2>3 DEF Signal
  <2> QED BY <1>5, <2>1, <2>2, <2>3 DEF Signal
<1>6. CASE Expire
  <2>1. (call.requested + call.started) * Freq < (TicksAt(now) + 2) * Den + Freq
    <3>1. (call.requested + call.started) * Freq < (TicksAt(now) + left + 2) * Den + Freq
      BY <1>6 DEF Expire, TimeInv, CallInTime, EndsNotTooEarly
    <3> QED BY <1>1, <1>6, <3>1, TickRange DEF Expire
  <2>2. (call.requested - (now - call.started)) * Freq < 2 * Den + Freq
    BY <1>1, <2>1, EndBound
  <2> QED BY <1>6, <2>2, EndInTime DEF Expire
<1>7. CASE SleepAgain
  <2>1. call.op # "none" /\ call.deadline >= Clock
    BY <1>1, <1>2, <1>7 DEF SleepAgain, Unfinished, Calls
  <2> QED BY <1>4, <1>7, <2>1, EndInTime DEF SleepAgain
<1>8. CASE Advance
  BY <1>8, AdvanceInTime
<1>9. CASE Horizon \/ UNCHANGED vars
  BY <1>9 DEF Horizon, vars, TimeInv, CountIsTicks, CallInTime, DeadlineIsFixed, EndsNotTooEarly,
              EndsNotTooLate, DeadlineIsMet, EarlyByTwoTicks, TimedOut
<1> QED BY <1>3, <1>5, <1>6, <1>7, <1>8, <1>9 DEF Next

LEMMA TimeInvariant == DurationsFit /\ CountFits /\ Spec => []TimeInv
<1>1. Init => TimeInv
  <2>1. TicksAt(0) = 0
    BY Frequencies, Widths DEF TicksAt
  <2> QED BY <2>1, Frequencies DEF Init, NoCall, TimeInv, CountIsTicks, CallInTime, DeadlineIsFixed,
             EndsNotTooEarly, EndsNotTooLate, DeadlineIsMet, EarlyByTwoTicks, TimedOut
<1>2. DurationsFit /\ CountFits /\ TimedTypes /\ TimeInv /\ [Next]_vars => TimeInv'
  BY TimeInvNext
<1> SUFFICES ASSUME DurationsFit /\ CountFits PROVE Spec => []TimeInv
  OBVIOUS
<1>3. TimedTypes /\ TimeInv /\ [Next]_vars => TimeInv'
  BY <1>2
<1> QED BY <1>1, <1>3, TimedTypesInvariant, PTL DEF Spec

(* Of every timed operation, with durations that fit and while the clock   *)
(* does not wrap: it gives up less than two ticks and a microsecond before *)
(* its time, whatever wakes it up in between.                              *)
THEOREM SpecEarlyByTwoTicks == DurationsFit /\ CountFits /\ Spec => []EarlyByTwoTicks
<1>1. TimeInv => EarlyByTwoTicks
  BY DEF TimeInv
<1> QED BY <1>1, TimeInvariant, PTL

(* And it is not blocked a tick and a microsecond past its time.           *)
THEOREM SpecDeadlineIsMet == DurationsFit /\ CountFits /\ Spec => []DeadlineIsMet
<1>1. TimeInv => DeadlineIsMet
  BY DEF TimeInv, CallInTime
<1> QED BY <1>1, TimeInvariant, PTL

=============================================================================
