----------------------------- MODULE AlgoProofs -----------------------------
(***************************************************************************)
(* Algo orders, for every value of the constants: what the slicing         *)
(* strategies place, and what the parent order and its runner keep.        *)
(***************************************************************************)
EXTENDS SliceStrategies, AlgoExecution, SumTheorems

\* What the loops know of the quantities they have handed out.
Kept ==
  /\ total \in Nat /\ num \in Nat /\ shown \in Nat /\ i \in Nat
  /\ done \in BOOLEAN
  /\ kind \in {"twap", "vwap", "iceberg"}
  /\ kind # "vwap" => allocated \in Int /\ placed = allocated

\* A VWAP that will fall back has handed out nothing yet.
FallbackInv ==
  (kind = "vwap" /\ (profile = <<>> \/ Weight(profile) = 0)) =>
     i = 0 /\ allocated = 0 /\ placed = 0 /\ ~done

\* While the TWAP loop runs, a slice is left that takes the remainder.
TwapInv == (kind = "twap" /\ ~done) => i < TwapSlices

Covered == (kind # "vwap" /\ done) => allocated = total

SliceInv == Kept /\ FallbackInv /\ TwapInv /\ Covered

\* What quantize returns for a positive divisor is an integer.
LEMMA QuantizeInt ==
  ASSUME NEW a \in Int, NEW b \in Nat \ {0}
  PROVE  Quantize(a, b) \in Int
BY DEF Quantize

\* Before the first slice the invariant holds.
LEMMA SliceStarts == SliceInit => SliceInv
<1> SUFFICES ASSUME SliceInit PROVE SliceInv
  OBVIOUS
<1>1. total \in Nat /\ num \in Nat /\ shown \in Nat
  BY SliceAssumption DEF SliceInit
<1>2. /\ i = 0 /\ allocated = 0 /\ placed = 0 /\ ~done /\ done \in BOOLEAN
      /\ kind \in {"twap", "vwap", "iceberg"}
  BY SliceAssumption DEF SliceInit
<1>3. TwapSlices > 0
  BY <1>1 DEF TwapSlices
<1>4. Kept
  BY <1>1, <1>2 DEF Kept
<1>5. TwapInv
  BY <1>2, <1>3 DEF TwapInv
<1> QED
  BY <1>2, <1>4, <1>5 DEF SliceInv, FallbackInv, Covered

\* Every slice keeps the invariant.
LEMMA SliceSteps == SliceInv /\ [SliceNext]_sliceVars => SliceInv'
<1> SUFFICES ASSUME SliceInv, [SliceNext]_sliceVars PROVE SliceInv'
  OBVIOUS
<1> USE DEF SliceInv, Kept
<1>1. CASE TwapSlice
  <2>1. TwapSlices \in Nat \ {0}
    BY DEF TwapSlices
  <2>2. Quantize(total, TwapSlices) \in Int
    BY <2>1, QuantizeInt
  <2> DEFINE qty == TwapShare(TwapSlices, Quantize(total, TwapSlices))
  <2>3. qty \in Int
    BY <1>1, <2>2 DEF TwapShare, TwapSlice
  <2>4. /\ kind' = kind /\ UNCHANGED <<total, num, profile, shown>>
        /\ kind = "twap" /\ ~done
        /\ i' = i + 1 /\ allocated' = allocated + qty /\ placed' = placed + qty
        /\ done' = (i + 1 = TwapSlices)
    BY <1>1 DEF TwapSlice, AddSlice, input, TwapEnds
  <2>5. i = TwapSlices - 1 => qty = total - allocated
    BY DEF TwapShare
  <2>6. TwapSlices' = TwapSlices
    BY <2>4 DEF TwapSlices
  <2>7. done' \in BOOLEAN /\ (done' <=> i + 1 = TwapSlices)
    BY <2>4, Zenon
  <2>8. kind # "vwap" /\ allocated \in Int /\ placed = allocated
    BY <2>4
  <2>9. Kept'
    BY <2>3, <2>4, <2>7, <2>8
  <2>10. FallbackInv' /\ Covered'
    BY <2>1, <2>3, <2>4, <2>5, <2>7, <2>8 DEF FallbackInv, Covered
  <2>11. TwapInv'
    <3>1. i < TwapSlices
      BY <2>4 DEF TwapInv
    <3>2. ~done' => i' < TwapSlices'
      BY <2>1, <2>4, <2>6, <2>7, <3>1
    <3> QED
      BY <3>2 DEF TwapInv
  <2> QED
    BY <2>9, <2>10, <2>11
<1>2. CASE VwapFallback
  <2>1. /\ kind' = "twap" /\ UNCHANGED <<total, num, profile, shown, i, allocated, placed, done>>
        /\ i = 0 /\ allocated = 0 /\ placed = 0 /\ ~done
    BY <1>2 DEF VwapFallback, input, FallbackInv
  <2> QED
    BY <2>1 DEF FallbackInv, TwapInv, Covered, TwapSlices
<1>3. CASE VwapSlice
  <2>1. /\ kind = "vwap" /\ profile # <<>> /\ Weight(profile) # 0
        /\ kind' = kind /\ UNCHANGED <<total, num, profile, shown>>
        /\ i' = i + 1 /\ done' \in BOOLEAN
    BY <1>3 DEF VwapSlice, AddSlice, input
  <2>2. Weight(profile') = Weight(profile)
    BY <2>1
  <2> QED
    BY <2>1, <2>2 DEF FallbackInv, TwapInv, Covered
<1>4. CASE IcebergSlice
  <2> DEFINE remaining == total - allocated
             qty == IF Visible <= remaining THEN Visible ELSE remaining
  <2>1. Visible \in Int
    BY QuantizeInt DEF Visible
  <2>2. /\ kind = "iceberg" /\ kind' = kind /\ UNCHANGED <<total, num, profile, shown, i>>
        /\ allocated' = allocated + qty /\ placed' = placed + qty
        /\ done' = (remaining = qty)
    BY <1>4 DEF IcebergSlice, input
  <2>3. qty \in Int
    BY <2>1, <2>2
  <2>4. done' \in BOOLEAN /\ (done' <=> remaining = qty)
    BY <2>2, Zenon
  <2>5. allocated \in Int /\ placed = allocated
    BY <2>2
  <2>6. Kept'
    BY <2>2, <2>3, <2>4, <2>5
  <2>7. Covered'
    BY <2>2, <2>3, <2>4, <2>5 DEF Covered
  <2> QED
    BY <2>2, <2>6, <2>7 DEF FallbackInv, TwapInv
<1>5. CASE UNCHANGED sliceVars
  BY <1>5 DEF sliceVars, input, FallbackInv, TwapInv, Covered, TwapSlices
<1> QED
  BY <1>1, <1>2, <1>3, <1>4, <1>5 DEF SliceNext

\* TWAP (also as VWAP's fallback) and Iceberg hand out exactly the order's
\* quantity: compute_slices gives the last slice what the others left.
THEOREM SlicesCover == SliceSpec => []TwapIcebergCover
<1>1. SliceInv => TwapIcebergCover
  BY DEF SliceInv, Kept, Covered, TwapIcebergCover, CoversOrder
<1> QED
  BY <1>1, SliceStarts, SliceSteps, PTL DEF SliceSpec

-----------------------------------------------------------------------------
\* What quantize returns is within half of the quotient.
LEMMA QuantizeNear ==
  ASSUME NEW a \in Nat, NEW b \in Nat \ {0}
  PROVE  /\ Quantize(a, b) \in Nat
         /\ 2 * (b * Quantize(a, b)) <= 2 * a + b
         /\ 2 * a <= 2 * (b * Quantize(a, b)) + b
<1> DEFINE q == a \div b
           r == a % b
<1>1. q \in Nat /\ r \in 0..b-1 /\ a = b * q + r
  OBVIOUS
<1> HIDE DEF q, r
<1>2. Quantize(a, b) = IF 2 * r > b \/ (2 * r = b /\ q % 2 = 1) THEN q + 1 ELSE q
  BY DEF Quantize, q, r
<1>3. b * (q + 1) = b * q + b /\ b * q \in Nat
  BY <1>1
<1>4. CASE 2 * r > b \/ (2 * r = b /\ q % 2 = 1)
  BY <1>1, <1>2, <1>3, <1>4
<1>5. CASE ~(2 * r > b \/ (2 * r = b /\ q % 2 = 1))
  <2>1. 2 * r <= b
    BY <1>1, <1>5
  <2> QED
    BY <1>1, <1>2, <1>3, <1>5, <2>1
<1> QED
  BY <1>4, <1>5

\* The weights of a profile.
LEMMA ProfileFacts ==
  ASSUME profile \in Profiles
  PROVE  /\ Len(profile) \in Nat /\ DOMAIN profile = 1..Len(profile)
         /\ \A k \in 1..Len(profile) : profile[k] \in Int
         /\ Weight(profile) = SumFunctionOnSet(profile, 1..Len(profile))
         /\ Weight(profile) \in Int
         /\ NonNegative(profile) => Weight(profile) \in Nat
         /\ \A n \in Nat : IsFiniteSet(1..n)
<1>1. PICK n \in 0..MaxSlices : profile \in [1..n -> -MaxWeight..MaxWeight]
  BY DEF Profiles
<1>2. n \in Nat /\ \A x \in -MaxWeight..MaxWeight : x \in Int
  BY SliceAssumption
<1>3. Len(profile) = n
  BY <1>1, <1>2
<1>4. DOMAIN profile = 1..n /\ \A k \in 1..n : profile[k] \in Int
  BY <1>1, <1>2
<1>5. ASSUME NEW m \in Nat PROVE IsFiniteSet(1..m)
  <2>1. 1 \in Int /\ m \in Int
    OBVIOUS
  <2> QED
    BY ONLY <2>1, FS_Interval
<1>6. Weight(profile) = SumFunctionOnSet(profile, 1..n)
  BY <1>4 DEF Weight, SumFunction
<1>7. SumFunctionOnSet(profile, 1..n) \in Int
  BY <1>2, <1>4, <1>5, SumInt
<1>8. ASSUME NonNegative(profile) PROVE SumFunctionOnSet(profile, 1..n) \in Nat
  <2>1. \A k \in 1..n : profile[k] \in Nat
    BY <1>4, <1>8 DEF NonNegative
  <2> QED
    BY <1>2, <1>5, <2>1, SumNat
<1> QED
  BY <1>2, <1>3, <1>4, <1>5, <1>6, <1>7, <1>8

\* A share of VWAP before the last.
LEMMA ProportionInt ==
  ASSUME total \in Nat, Weight(profile) \in Int \ {0}, NEW w \in Int, NEW qty \in Proportions(w)
  PROVE  qty \in Int
<1> DEFINE a == Numerator(w)
           b == Denominator
<1>1. a \in Int /\ b \in Nat \ {0}
  <2>1. total * w \in Int
    OBVIOUS
  <2> QED
    BY <2>1 DEF Numerator, Denominator
<1>2. qty \in IF 2 * (a % b) = b THEN {a \div b, a \div b + 1} ELSE {Quantize(a, b)}
  BY DEF Proportions
<1> HIDE DEF a, b
<1>3. a \div b \in Int
  BY <1>1
<1>4. Quantize(a, b) \in Int
  BY <1>3 DEF Quantize
<1> QED
  BY <1>2, <1>3, <1>4

\* It is close to the proportion if no weight is negative.
LEMMA ProportionNear ==
  ASSUME total \in Nat, Weight(profile) \in Nat \ {0}, NEW w \in Nat, NEW qty \in Proportions(w)
  PROVE  qty \in Nat /\ 2 * (Weight(profile) * qty) <= 2 * (total * w) + Weight(profile)
<1> DEFINE a == total * w
           b == Weight(profile)
           q == a \div b
           r == a % b
<1>1. a \in Nat /\ b \in Nat \ {0}
  OBVIOUS
<1>2. qty \in IF 2 * r = b THEN {q, q + 1} ELSE {Quantize(a, b)}
  <2>1. Numerator(w) = a /\ Denominator = b
    BY DEF Numerator, Denominator
  <2> QED
    BY <2>1 DEF Proportions
<1> HIDE DEF a, b
<1>3. q \in Nat /\ r \in 0..b-1 /\ a = b * q + r
  BY <1>1
<1>4. /\ Quantize(a, b) \in Nat /\ 2 * (b * Quantize(a, b)) <= 2 * a + b
  BY <1>1, QuantizeNear
<1> HIDE DEF q, r
<1>5. b * (q + 1) = b * q + b /\ b * q \in Nat
  BY <1>1, <1>3
<1>6. qty \in Nat /\ 2 * (b * qty) <= 2 * a + b
  <2>1. CASE qty = Quantize(a, b)
    BY <1>4, <2>1
  <2>2. CASE 2 * r = b /\ qty = q
    BY <1>1, <1>3, <1>5, <2>2
  <2>3. CASE 2 * r = b /\ qty = q + 1
    BY <1>1, <1>3, <1>5, <2>3
  <2> QED
    BY <1>2, <2>1, <2>2, <2>3
<1> QED
  BY <1>6 DEF a, b

\* The TWAP loop has handed out the same share i times; its last slice absorbs
\* what that leaves.
Base == Quantize(total, TwapSlices)

TwapRounding ==
  kind = "twap" => IF done THEN last = total - (TwapSlices - 1) * Base
                           ELSE allocated = i * Base

\* The first k weights of the profile.
Weights(k) == SumFunctionOnSet(profile, 1..k)

\* The VWAP loop places what it allocates, or more; if no weight is negative it
\* is at most half a quantum per slice ahead of its profile.
VwapRounding ==
  kind = "vwap" /\ profile # <<>> /\ Weight(profile) # 0 =>
    IF done
      THEN /\ placed \in Int /\ placed >= total
           /\ NonNegative(profile) => 2 * (placed - total) <= Len(profile)
      ELSE /\ allocated \in Int /\ placed \in Int /\ placed >= allocated /\ i < Len(profile)
           /\ NonNegative(profile) =>
                /\ allocated \in Nat /\ placed = allocated
                /\ 2 * (Weight(profile) * allocated)
                     <= 2 * (total * Weights(i)) + i * Weight(profile)

RoundingInv == profile \in Profiles /\ TwapRounding /\ VwapRounding

\* Before the first slice nothing is rounded.
LEMMA RoundingStarts == SliceInit => RoundingInv
<1> SUFFICES ASSUME SliceInit PROVE RoundingInv
  OBVIOUS
<1>1. /\ i = 0 /\ allocated = 0 /\ placed = 0 /\ ~done /\ total \in Nat /\ num \in Nat
  BY SliceAssumption DEF SliceInit
<1>2. profile \in Profiles
  <2>1. CASE kind = "vwap"
    BY <2>1 DEF SliceInit
  <2>2. CASE kind # "vwap"
    <3>1. profile = <<>>
      BY <2>2 DEF SliceInit
    <3>2. 0 \in 0..MaxSlices /\ <<>> \in [1..0 -> -MaxWeight..MaxWeight]
      BY SliceAssumption
    <3> QED
      BY <3>1, <3>2 DEF Profiles
  <2> QED
    BY <2>1, <2>2
<1>3. TwapRounding
  <2>1. Base \in Nat
    BY <1>1, QuantizeNear DEF Base, TwapSlices
  <2> QED
    BY <1>1, <2>1 DEF TwapRounding
<1>4. VwapRounding
  <2> SUFFICES ASSUME kind = "vwap", profile # <<>>, Weight(profile) # 0 PROVE VwapRounding
    BY DEF VwapRounding
  <2>1. Len(profile) \in Nat /\ Weight(profile) \in Int /\ DOMAIN profile = 1..Len(profile)
    BY <1>2, ProfileFacts
  <2>2. 0 < Len(profile)
    <3> SUFFICES ASSUME Len(profile) = 0 PROVE FALSE
      BY <2>1
    <3>1. Weight(profile) = SumFunctionOnSet(profile, {})
      BY <1>2, ProfileFacts
    <3> QED
      BY <3>1, SumEmpty
  <2>3. Weights(0) = 0
    <3>1. 1..0 = {}
      OBVIOUS
    <3> QED
      BY <3>1, SumEmpty DEF Weights
  <2>4. \A x \in Int : x * 0 = 0 /\ 0 * x = 0
    OBVIOUS
  <2>5. 2 * (Weight(profile) * allocated) <= 2 * (total * Weights(i)) + i * Weight(profile)
    BY <1>1, <2>1, <2>3, <2>4
  <2> QED
    BY <1>1, <2>2, <2>5 DEF VwapRounding
<1> QED
  BY <1>2, <1>3, <1>4 DEF RoundingInv

\* A slice of TWAP.
LEMMA TwapRounds ==
  ASSUME SliceInv, RoundingInv, TwapSlice
  PROVE  RoundingInv'
<1>1. /\ kind = "twap" /\ ~done /\ kind' = kind /\ UNCHANGED <<total, num, profile>>
      /\ i' = i + 1
      /\ allocated' = allocated + TwapShare(TwapSlices, Base)
      /\ last' = TwapShare(TwapSlices, Base)
      /\ done' = (i + 1 = TwapSlices)
  BY DEF TwapSlice, AddSlice, input, TwapEnds, Base
<1>2. TwapSlices' = TwapSlices /\ Base' = Base
  BY <1>1 DEF TwapSlices, Base
<1>3. /\ total \in Nat /\ num \in Nat /\ i \in Nat /\ i < TwapSlices
      /\ TwapSlices \in Nat \ {0} /\ allocated = i * Base
  BY <1>1 DEF SliceInv, Kept, TwapInv, TwapSlices, RoundingInv, TwapRounding
<1>4. Base \in Nat
  BY <1>3, QuantizeNear DEF Base
<1>5. done' <=> i = TwapSlices - 1
  <2>1. done' <=> i + 1 = TwapSlices
    BY <1>1, Zenon
  <2> QED
    BY <1>3, <2>1
<1>6. CASE i = TwapSlices - 1
  <2>1. last' = total - (TwapSlices - 1) * Base
    BY <1>1, <1>3, <1>6 DEF TwapShare
  <2> QED
    BY <1>1, <1>2, <1>5, <1>6, <2>1 DEF RoundingInv, TwapRounding, VwapRounding
<1>7. CASE i # TwapSlices - 1
  <2>1. allocated' = i * Base + Base
    BY <1>1, <1>3, <1>7 DEF TwapShare
  <2>2. \A x \in Nat, y \in Nat : x * y + y = (x + 1) * y
    OBVIOUS
  <2>3. allocated' = i' * Base'
    BY <1>1, <1>2, <1>3, <1>4, <2>1, <2>2
  <2> QED
    BY <1>1, <1>5, <1>7, <2>3 DEF RoundingInv, TwapRounding, VwapRounding
<1> QED
  BY <1>6, <1>7

\* A slice of VWAP with a profile none of whose weights is negative.
LEMMA VwapNear ==
  ASSUME SliceInv, RoundingInv, kind = "vwap", ~done, profile # <<>>, Weight(profile) # 0,
         NonNegative(profile), NEW qty \in VwapShares(Len(profile))
  PROVE  IF i = Len(profile) - 1
           THEN 2 * (allocated - total) <= Len(profile)
           ELSE /\ qty \in Nat
                /\ 2 * (Weight(profile) * (allocated + qty))
                     <= 2 * (total * Weights(i + 1)) + (i + 1) * Weight(profile)
<1> DEFINE n == Len(profile)
           W == Weight(profile)
<1>3. /\ n \in Nat /\ W \in Nat \ {0}
      /\ \A k \in 1..n : profile[k] \in Nat
      /\ W = Weights(n) /\ \A k \in Nat : IsFiniteSet(1..k)
  <2>1. \A k \in 1..n : profile[k] \in Int /\ profile[k] >= 0
    BY ProfileFacts DEF RoundingInv, NonNegative
  <2> QED
    BY <2>1, ProfileFacts DEF RoundingInv, Weights
<1>4. /\ allocated \in Nat /\ placed = allocated /\ i < n /\ i \in Nat /\ total \in Nat
      /\ 2 * (W * allocated) <= 2 * (total * Weights(i)) + i * W
  BY DEF RoundingInv, VwapRounding, SliceInv, Kept
<1>5. Weights(i) \in Nat /\ Weights(i) <= W
  <2>1. 1..i \in SUBSET (1..n)
    BY <1>3, <1>4
  <2>2. SumFunctionOnSet(profile, 1..i) <= SumFunctionOnSet(profile, 1..n)
    BY <1>3, <2>1, SumSubset
  <2>3. \A k \in 1..i : profile[k] \in Nat
    BY <1>3, <2>1
  <2>4. SumFunctionOnSet(profile, 1..i) \in Nat
    BY <1>3, <1>4, <2>3, SumNat
  <2> QED
    BY <1>3, <2>2, <2>4 DEF Weights
<1>8. \A x, y \in Nat : x * y \in Nat /\ x * y = y * x
  OBVIOUS
<1> HIDE DEF n, W
<1>9. CASE i = n - 1
  <2>2. 2 * (allocated - total) <= n
    <3>1. total * Weights(i) <= total * W
      BY <1>3, <1>4, <1>5
    <3>2. total * W = W * total /\ W * total \in Nat /\ total * Weights(i) \in Nat
          /\ W * allocated \in Nat /\ i * W = W * i /\ W * i \in Nat
      <4>1. total \in Nat /\ W \in Nat /\ Weights(i) \in Nat /\ allocated \in Nat /\ i \in Nat
        BY <1>3, <1>4, <1>5
      <4> QED
        BY ONLY <1>8, <4>1
    <3>3. 2 * (W * allocated) <= 2 * (W * total) + W * i
      BY <1>4, <3>1, <3>2
    <3>4. ASSUME NEW x \in Nat, NEW y \in Nat, NEW z \in Nat, NEW v \in Nat \ {0},
                 2 * (v * x) <= 2 * (v * y) + v * z
          PROVE  2 * x <= 2 * y + z
      <4>1. v * (2 * x) = 2 * (v * x) /\ v * (2 * y + z) = 2 * (v * y) + v * z
        OBVIOUS
      <4>2. v * (2 * x) <= v * (2 * y + z)
        BY <3>4, <4>1
      <4>3. ASSUME NEW l \in Nat, NEW m \in Nat, v * l <= v * m PROVE l <= m
        <5> SUFFICES ASSUME l > m PROVE FALSE
          OBVIOUS
        <5>1. v * l >= v * (m + 1) /\ v * (m + 1) = v * m + v
          OBVIOUS
        <5> QED
          BY <4>3, <5>1
      <4>4. 2 * x \in Nat /\ 2 * y + z \in Nat
        OBVIOUS
      <4> QED
        BY <4>2, <4>3, <4>4
    <3>5. 2 * allocated <= 2 * total + i
      BY <1>3, <1>4, <3>3, <3>4
    <3> QED
      BY <1>3, <1>4, <1>9, <3>5
  <2> QED
    BY <1>9, <2>2 DEF n
<1>10. CASE i # n - 1
  <2>1. i + 1 \in 1..n /\ i + 1 < n
    BY <1>3, <1>4, <1>10
  <2>2. profile[i + 1] \in Nat /\ qty \in Proportions(profile[i + 1])
    BY <1>3, <1>10, <2>1 DEF VwapShares, n
  <2>3. qty \in Nat /\ 2 * (W * qty) <= 2 * (total * profile[i + 1]) + W
    BY <1>3, <1>4, <2>2, ProportionNear DEF W
  <2>4. Weights(i + 1) = Weights(i) + profile[i + 1]
    <3>1. \A k \in 1..(i + 1) : profile[k] \in Int
      BY <1>3, <1>4, <2>1
    <3> QED
      BY <1>4, <3>1, SumNext DEF Weights
  <2>6. 2 * (W * (allocated + qty)) <= 2 * (total * Weights(i + 1)) + (i + 1) * W
    <3>1. W * (allocated + qty) = W * allocated + W * qty
      BY <1>3, <1>4, <2>3
    <3>2. total * (Weights(i) + profile[i + 1]) = total * Weights(i) + total * profile[i + 1]
      BY <1>4, <1>5, <2>2
    <3>3. (i + 1) * W = i * W + W
      BY <1>3, <1>4
    <3>4. /\ W * allocated \in Nat /\ W * qty \in Nat /\ total * Weights(i) \in Nat
          /\ total * profile[i + 1] \in Nat /\ i * W \in Nat
      <4>1. /\ total \in Nat /\ W \in Nat /\ Weights(i) \in Nat /\ allocated \in Nat
            /\ i \in Nat /\ qty \in Nat /\ profile[i + 1] \in Nat
        BY <1>3, <1>4, <1>5, <2>2, <2>3
      <4> QED
        BY ONLY <1>8, <4>1
    <3>5. W \in Nat
      BY <1>3
    <3>6. 2 * (W * (allocated + qty)) <=
            2 * (total * (Weights(i) + profile[i + 1])) + (i + 1) * W
      <4>1. \A x, y, t, p, u, v \in Nat :
              2 * x <= 2 * t + u /\ 2 * y <= 2 * p + v => 2 * (x + y) <= 2 * (t + p) + (u + v)
        OBVIOUS
      <4>2. 2 * (W * allocated + W * qty) <=
              2 * (total * Weights(i) + total * profile[i + 1]) + (i * W + W)
        BY ONLY <1>4, <2>3, <3>4, <3>5, <4>1
      <4> QED
        BY ONLY <3>1, <3>2, <3>3, <4>2
    <3> QED
      BY <2>4, <3>6
  <2> QED
    BY <1>10, <2>3, <2>6 DEF n, W
<1> QED
  BY <1>9, <1>10

\* A slice of VWAP.
LEMMA VwapRounds ==
  ASSUME SliceInv, RoundingInv, VwapSlice
  PROVE  RoundingInv'
<1>1. /\ kind = "vwap" /\ ~done /\ profile # <<>> /\ Weight(profile) # 0
      /\ kind' = kind /\ UNCHANGED <<total, profile>> /\ i' = i + 1
      /\ done' = (i + 1 = Len(profile))
  BY DEF VwapSlice, AddSlice, input
<1>2. PICK qty \in VwapShares(Len(profile)) :
        /\ allocated' = allocated + qty
        /\ placed' = IF qty > 0 THEN placed + qty ELSE placed
  BY DEF VwapSlice, AddSlice
<1> DEFINE n == Len(profile)
<1>3. /\ n \in Nat /\ Weight(profile) \in Int \ {0}
      /\ \A k \in 1..n : profile[k] \in Int
  BY <1>1, ProfileFacts DEF RoundingInv
<1>4. /\ allocated \in Int /\ placed \in Int /\ placed >= allocated
      /\ i < n /\ i \in Nat /\ total \in Nat
      /\ NonNegative(profile) => placed = allocated /\ allocated \in Nat
  BY <1>1 DEF RoundingInv, VwapRounding, SliceInv, Kept
<1>5. /\ Weight(profile') = Weight(profile) /\ Len(profile') = n /\ TwapRounding'
      /\ NonNegative(profile') <=> NonNegative(profile)
  BY <1>1 DEF TwapRounding
<1>6. done' <=> i + 1 = n
  BY <1>1, Zenon
<1>7. CASE i = n - 1
  <2>1. qty = total - allocated
    BY <1>2, <1>7 DEF VwapShares
  <2>2. NonNegative(profile) => 2 * (allocated - total) <= n
    BY <1>1, <1>7, VwapNear
  <2> HIDE DEF n
  <2>3. placed' \in Int /\ placed' >= total
    BY <1>2, <1>4, <2>1
  <2>4. NonNegative(profile) => 2 * (placed' - total) <= n
    <3>1. CASE qty > 0
      BY <1>2, <1>3, <1>4, <2>1, <3>1
    <3>2. CASE ~(qty > 0)
      BY <1>2, <1>3, <1>4, <2>1, <2>2, <3>2
    <3> QED
      BY <3>1, <3>2
  <2>5. done'
    BY <1>3, <1>4, <1>6, <1>7
  <2>6. VwapRounding'
    BY <1>1, <1>5, <2>3, <2>4, <2>5 DEF VwapRounding
  <2> QED
    BY <1>1, <1>5, <2>6 DEF RoundingInv
<1>8. CASE i # n - 1
  <2>1. i + 1 \in 1..n /\ i + 1 < n
    BY <1>3, <1>4, <1>8
  <2>2. qty \in Proportions(profile[i + 1])
    BY <1>2, <1>8 DEF VwapShares
  <2>3. qty \in Int
    BY <1>3, <1>4, <2>1, <2>2, ProportionInt
  <2>4. allocated' \in Int /\ placed' \in Int /\ placed' >= allocated'
    BY <1>2, <1>4, <2>3
  <2>5. ASSUME NonNegative(profile)
        PROVE  /\ allocated' \in Nat /\ placed' = allocated'
               /\ 2 * (Weight(profile) * allocated')
                    <= 2 * (total * Weights(i + 1)) + (i + 1) * Weight(profile)
    <3>1. /\ qty \in Nat
          /\ 2 * (Weight(profile) * (allocated + qty))
               <= 2 * (total * Weights(i + 1)) + (i + 1) * Weight(profile)
      BY <1>1, <1>8, <2>5, VwapNear
    <3>2. allocated' \in Nat /\ placed' = allocated'
      BY <1>2, <1>4, <2>5, <3>1
    <3> QED
      BY <1>2, <3>1, <3>2
  <2>6. ~done'
    BY <1>3, <1>4, <1>6, <1>8
  <2>7. Weights(i)' = Weights(i + 1)
    BY <1>1 DEF Weights
  <2>8. /\ i' < Len(profile')
        /\ NonNegative(profile') =>
             /\ allocated' \in Nat /\ placed' = allocated'
             /\ 2 * (Weight(profile') * allocated')
                  <= 2 * (total' * Weights(i)') + i' * Weight(profile')
    BY <1>1, <1>5, <2>1, <2>5, <2>7
  <2>9. VwapRounding'
    BY <2>4, <2>6, <2>8 DEF VwapRounding
  <2> QED
    BY <1>1, <1>5, <2>9 DEF RoundingInv
<1> QED
  BY <1>7, <1>8

\* Every slice keeps the invariant.
LEMMA RoundingSteps == SliceInv /\ RoundingInv /\ [SliceNext]_sliceVars => RoundingInv'
<1> SUFFICES ASSUME SliceInv, RoundingInv, [SliceNext]_sliceVars PROVE RoundingInv'
  OBVIOUS
<1>1. CASE VwapFallback
  <2>1. /\ kind' = "twap" /\ UNCHANGED <<total, num, profile, i, allocated, done>>
        /\ i = 0 /\ allocated = 0 /\ ~done /\ total \in Nat /\ num \in Nat
    BY <1>1 DEF VwapFallback, input, SliceInv, Kept, FallbackInv
  <2>2. Base \in Nat /\ Base' = Base
    <3>1. TwapSlices \in Nat \ {0} /\ TwapSlices' = TwapSlices
      BY <2>1 DEF TwapSlices
    <3> QED
      BY <2>1, <3>1, QuantizeNear DEF Base
  <2>3. TwapRounding'
    BY <2>1, <2>2 DEF TwapRounding
  <2> QED
    BY <2>1, <2>3 DEF RoundingInv, VwapRounding
<1>2. CASE IcebergSlice
  BY <1>2 DEF IcebergSlice, input, RoundingInv, TwapRounding, VwapRounding
<1>3. CASE UNCHANGED sliceVars
  <2>1. UNCHANGED <<kind, total, num, profile, i, allocated, placed, last, done>>
    BY <1>3 DEF sliceVars, input
  <2>2. TwapRounding'
    BY <2>1 DEF RoundingInv, TwapRounding, Base, TwapSlices
  <2>3. VwapRounding'
    BY <2>1 DEF RoundingInv, VwapRounding, Weights
  <2> QED
    BY <2>1, <2>2, <2>3 DEF RoundingInv
<1> QED
  BY <1>1, <1>2, <1>3, TwapRounds, VwapRounds DEF SliceNext

(* What rounding does stays small, for every quantity, number of slices    *)
(* and volume profile: TWAP's last slice differs from the others by at     *)
(* most half a quantum per slice, and VWAP places at least what was        *)
(* ordered and, if no weight of the profile is negative, at most half a    *)
(* quantum per slice too much.                                             *)
THEOREM RoundingIsBounded == SliceSpec => []RoundingBounded
<1>1. SliceInv /\ RoundingInv => RoundingBounded
  <2> SUFFICES ASSUME SliceInv, RoundingInv, done PROVE RoundingBounded
    BY DEF RoundingBounded
  <2>1. CASE kind = "twap"
    <3>1. TwapSlices \in Nat \ {0} /\ total \in Nat
      BY DEF SliceInv, Kept, TwapSlices
    <3>2. /\ Base \in Nat
          /\ 2 * (TwapSlices * Base) <= 2 * total + TwapSlices
          /\ 2 * total <= 2 * (TwapSlices * Base) + TwapSlices
      BY <3>1, QuantizeNear DEF Base
    <3>3. last = total - (TwapSlices - 1) * Base
      BY <2>1 DEF RoundingInv, TwapRounding
    <3>4. (TwapSlices - 1) * Base = TwapSlices * Base - Base /\ TwapSlices * Base \in Nat
      BY <3>1, <3>2
    <3>5. last - Base = total - TwapSlices * Base
      BY <3>1, <3>2, <3>3, <3>4
    <3>6. 2 * (last - Base) <= TwapSlices /\ -2 * (last - Base) <= TwapSlices
      BY <3>1, <3>2, <3>4, <3>5
    <3> QED
      BY <2>1, <3>6 DEF RoundingBounded, Base
  <2>2. CASE kind = "vwap"
    <3>1. profile # <<>> /\ Weight(profile) # 0
      BY <2>2 DEF SliceInv, FallbackInv
    <3> QED
      BY <2>2, <3>1 DEF RoundingInv, VwapRounding, RoundingBounded
  <2>3. CASE kind = "iceberg"
    BY <2>3 DEF RoundingBounded
  <2> QED
    BY <2>1, <2>2, <2>3 DEF SliceInv, Kept
<1> QED
  BY <1>1, SliceStarts, SliceSteps, RoundingStarts, RoundingSteps, PTL DEF SliceSpec

-----------------------------------------------------------------------------
\* What the other parts need of the types.
Shape ==
  /\ cstate \in [Slices -> ChildStates \cup {"none"}]
  /\ DOMAIN cfilled = Slices
  /\ submitted \in [Slices -> Nat]
  /\ idx \in Nat \ {0}
  /\ cancels \in Nat /\ faults \in Nat
  /\ cancels = 0 => kpc = "idle"

\* A runner that was told to stop is at the top of its loop, or gone.
StopInv == stopFlag => rpc \in {"none", "top"}

\* There is no runner before create_algo_order starts one.
StartInv ==
  starter # "returned" => rpc = "none" /\ \A s \in Slices : submitted[s] = 0

\* A runner that is not stopped has not submitted the slices before it.
RunInv ==
  rpc # "none" /\ ~stopFlag =>
    \A s \in Slices : s > idx \/ (s = idx /\ rpc # "filling") => submitted[s] = 0

\* A child is inserted before it is worked on.
Worked(s) ==
  \/ s = idx /\ rpc \in {"approve", "send", "submit"}
  \/ s = fill.child /\ fpc = "child"
  \/ s \in kset

RowInv == \A s \in Slices : Worked(s) => cstate[s] # "none"

SubmitInv == RowInv /\ Shape /\ StopInv /\ StartInv /\ RunInv /\ OneChildPerSlice

\* The children that exist are finitely many.
LEMMA ExistingFinite == IsFiniteSet(Existing) /\ Cardinality(Existing) \in Nat
<1>1. IsFiniteSet(Slices)
  BY AlgoAssumption, FS_Interval DEF Slices
<1>2. Existing \subseteq Slices
  BY DEF Existing
<1> QED
  BY <1>1, <1>2, FS_Subset, FS_CardinalityType

LEMMA InitSubmitInv == Init => SubmitInv
<1> SUFFICES ASSUME Init PROVE SubmitInv
  OBVIOUS
<1>1. Shape
  BY DEF Init, Shape, ChildStates
<1> QED
  BY <1>1 DEF Init, SubmitInv, RowInv, Worked, StopInv, StartInv, RunInv, OneChildPerSlice

\* The runner's task keeps the invariant of the submits.
LEMMA RunSubmitInv ==
  ASSUME SubmitInv, Run \/ RunnerTimeout
  PROVE  SubmitInv'
<1> USE DEF SubmitInv, request, parent, children, runner, market, filling, cancelling
<1>1. CASE StarterReload \/ MarkWorking
  BY <1>1 DEF StarterReload, MarkWorking, Shape, StopInv, StartInv, RunInv, OneChildPerSlice,
           RowInv, Worked
<1>2. CASE StartAlgo
  BY <1>2 DEF StartAlgo, StartRunner, Shape, StopInv, StartInv, RunInv, OneChildPerSlice,
           RowInv, Worked
<1>3. CASE RunnerTop \/ RunnerTimeout
  BY <1>3 DEF RunnerTop, RunnerTimeout, EndRunner, Shape, StopInv, StartInv, RunInv, OneChildPerSlice,
           RowInv, Worked
<1>4. CASE RunnerWake \/ RunnerReload
  BY <1>4 DEF RunnerWake, RunnerReload, RunnerGoto, Shape, StopInv, StartInv, RunInv, OneChildPerSlice,
           RowInv, Worked
<1>5. CASE InsertChild \/ ApproveChild \/ SendChild
  <2>1. /\ rpc \in {"insert", "approve", "send"}
        /\ \/ rpc' \in {"approve", "send", "submit"} /\ idx' = idx
              /\ \E to \in {"DRAFT", "APPROVED", "SENT"} : cstate' = [cstate EXCEPT ![idx] = to]
           \/ rpc' = "top" /\ idx' = idx + 1 /\ cstate' = cstate
        /\ UNCHANGED <<cfilled, submitted, stopFlag, starter, cancels, faults, kpc, kset, fpc, fill>>
    <3>1. CASE InsertChild
      BY <3>1 DEF InsertChild, WriteChild, RunnerGoto
    <3>2. CASE ApproveChild
      BY <3>2 DEF ApproveChild, WriteChild, RunnerGoto
    <3>3. CASE SendChild
      BY <3>3 DEF SendChild, WriteChild, RunnerGoto, NextSlice
    <3> QED
      BY <1>5, <3>1, <3>2, <3>3
  <2>2. ~stopFlag /\ starter = "returned"
    BY <2>1 DEF StopInv, StartInv
  <2>3. cstate' \in [Slices -> ChildStates \cup {"none"}]
    BY <2>1 DEF Shape, ChildStates
  <2>4. Shape'
    BY <2>1, <2>3 DEF Shape
  <2>5. RowInv'
    BY <2>1 DEF Shape, RowInv, Worked
  <2>6. RunInv'
    <3>1. idx \in Nat /\ \A s \in Slices : s \in Nat
      BY AlgoAssumption DEF Shape, Slices
    <3> QED
      BY <2>1, <2>2, <3>1 DEF RunInv
  <2> QED
    BY <2>1, <2>2, <2>4, <2>5, <2>6 DEF StopInv, StartInv, OneChildPerSlice
<1>6. CASE SubmitAccepted \/ SubmitFilled \/ SubmitRejected \/ SubmitFails
  <2>1. /\ rpc = "submit" /\ submitted' = [submitted EXCEPT ![idx] = @ + 1]
        /\ \/ rpc' = "top" /\ idx' = idx + 1 /\ UNCHANGED <<fpc, fill>>
           \/ rpc' = "filling" /\ idx' = idx /\ fpc' = "child"
                /\ fill' = [child |-> idx, qty |-> SliceQty]
        /\ UNCHANGED <<cstate, cfilled, stopFlag, starter, cancels, faults, kpc, kset>>
    <3>1. CASE SubmitFilled
      BY <3>1 DEF SubmitFilled, Submitting, CountSubmit, RunnerGoto
    <3>2. CASE SubmitAccepted \/ SubmitRejected \/ SubmitFails
      BY <3>2 DEF SubmitAccepted, SubmitRejected, SubmitFails, Submitting, CountSubmit, NextSlice
    <3> QED
      BY <1>6, <3>1, <3>2
  <2>2. ~stopFlag /\ starter = "returned"
    BY <2>1 DEF StopInv, StartInv
  <2>3. \A s \in Slices : s = idx => submitted[s] = 0
    BY <2>1, <2>2 DEF RunInv
  <2>4. \A s \in Slices : submitted'[s] = IF s = idx THEN 1 ELSE submitted[s]
    BY <2>1, <2>3 DEF Shape
  <2>5. Shape'
    <3>1. submitted' \in [Slices -> Nat]
      <4>1. DOMAIN submitted' = Slices /\ submitted' = [s \in Slices |-> submitted'[s]]
        BY <2>1 DEF Shape
      <4>2. \A s \in Slices : submitted'[s] \in Nat
        BY <2>4 DEF Shape
      <4> QED
        BY ONLY <4>1, <4>2
    <3> QED
      BY <2>1, <3>1 DEF Shape
  <2>6. RowInv'
    BY <2>1 DEF RowInv, Worked
  <2>7. OneChildPerSlice'
    BY <2>4 DEF OneChildPerSlice
  <2>8. RunInv'
    <3>1. idx \in Nat /\ \A s \in Slices : s \in Nat
      BY AlgoAssumption DEF Shape, Slices
    <3> QED
      BY <2>1, <2>2, <2>4, <3>1 DEF RunInv
  <2> QED
    BY <2>1, <2>2, <2>5, <2>6, <2>7, <2>8 DEF StopInv, StartInv
<1> QED
  BY <1>1, <1>2, <1>3, <1>4, <1>5, <1>6 DEF Run

\* So does everything else.
LEMMA OtherSubmitInv ==
  ASSUME SubmitInv,
         \/ ProcessFill \/ CancelRead \/ Cancel \/ Crash \/ Recover
         \/ \E s \in Slices : ExchangeFill(s)
  PROVE  SubmitInv'
<1> USE DEF SubmitInv, request, parent, children, runner, market, filling, cancelling
<1>1. CASE FillLocate \/ FillReadParent \/ FillReadChildren \/ FillWriteParent
             \/ CancelRead \/ CancelReadChildren \/ CancelParent \/ \E s \in Slices : ExchangeFill(s)
  <2>1. UNCHANGED <<cstate, cfilled, submitted, idx, faults, stopFlag, rpc, starter>>
        /\ (fpc' # "child" \/ UNCHANGED <<fpc, fill>> \/ cstate[fill'.child] # "none")
        /\ (kset' = kset \/ \A s \in kset' : cstate[s] # "none")
        /\ (UNCHANGED <<cancels, kpc>> \/ cancels' = cancels + 1 \/ (kpc # "idle" /\ cancels' = cancels))
    BY <1>1 DEF FillLocate, FillReadParent, FillReadChildren, FillWriteParent, CancelRead,
                CancelReadChildren, CancelParent, ExchangeFill, Existing
  <2> QED
    BY <2>1 DEF Shape, StopInv, StartInv, RunInv, OneChildPerSlice,
           RowInv, Worked
<1>2. CASE FillChild \/ FillNotify
  <2>1. /\ UNCHANGED <<submitted, faults, stopFlag, starter, cancels, kpc, kset>>
        /\ UNCHANGED <<rpc, idx>> \/ (rpc = "filling" /\ rpc' = "top" /\ idx' = idx + 1)
        /\ fpc' # "child"
    BY <1>2 DEF FillChild, FillReturns, FillNotify, NextSlice
  <2>2. /\ UNCHANGED <<cstate, cfilled>>
           \/ (\E to \in {"FILLED", "PARTIALLY_FILLED"} : \E q :
                 /\ cstate' = [cstate EXCEPT ![fill.child] = to]
                 /\ cfilled' = [cfilled EXCEPT ![fill.child] = q])
    BY <1>2 DEF FillChild, FillReturns, FillNotify
  <2>3. /\ cstate' \in [Slices -> ChildStates \cup {"none"}] /\ DOMAIN cfilled' = Slices
        /\ \A s \in Slices : cstate[s] # "none" => cstate'[s] # "none"
    BY <2>2 DEF Shape, ChildStates
  <2>4. Shape'
    BY <2>1, <2>3 DEF Shape
  <2>5. RowInv' /\ StopInv' /\ StartInv' /\ OneChildPerSlice'
    BY <2>1, <2>3 DEF RowInv, Worked, StopInv, StartInv, OneChildPerSlice
  <2>6. RunInv'
    <3>1. idx \in Nat /\ \A s \in Slices : s \in Nat
      BY AlgoAssumption DEF Shape, Slices
    <3> QED
      BY <2>1, <3>1 DEF RunInv
  <2> QED
    BY <2>4, <2>5, <2>6
<1>3. CASE CancelStop
  BY <1>3 DEF CancelStop, FillsEnd, Shape, StopInv, StartInv, RunInv, OneChildPerSlice,
           RowInv, Worked
<1>4. ASSUME NEW s \in Slices, CancelChild(s) PROVE SubmitInv'
  <2>1. Shape'
    BY <1>4 DEF CancelChild, WriteChild, Shape, ChildStates
  <2> QED
    BY <1>4, <2>1 DEF CancelChild, WriteChild, Shape, RowInv, Worked, StopInv,
             StartInv, RunInv, OneChildPerSlice
<1>5. CASE Crash
  BY <1>5 DEF Crash, FillsEnd, Shape, StopInv, StartInv, RunInv, OneChildPerSlice,
           RowInv, Worked
<1>6. CASE Recover
  BY <1>6, ExistingFinite DEF Recover, StartRunner, Shape, StopInv, StartInv, RunInv, OneChildPerSlice,
           RowInv, Worked
<1> QED
  BY <1>1, <1>2, <1>3, <1>4, <1>5, <1>6 DEF ProcessFill, Cancel

LEMMA NextSubmitInv == SubmitInv /\ [Next]_vars => SubmitInv'
<1> SUFFICES ASSUME SubmitInv, [Next]_vars PROVE SubmitInv'
  OBVIOUS
<1>1. CASE Next
  BY <1>1, RunSubmitInv, OtherSubmitInv DEF Next
<1>2. CASE UNCHANGED vars
  BY <1>2 DEF vars, children, runner, cancelling, filling, SubmitInv, RowInv, Worked,
              Shape, StopInv, StartInv, RunInv,
              OneChildPerSlice
<1> QED
  BY <1>1, <1>2

\* No slice is submitted twice.
THEOREM SlicesGoOutOnce == Spec => []OneChildPerSlice
<1>1. SubmitInv => OneChildPerSlice
  BY DEF SubmitInv
<1> QED
  BY <1>1, InitSubmitInv, NextSubmitInv, PTL DEF Spec

\* A runner that was told to stop creates and submits nothing.
THEOREM StopIsFinal == Spec => NoSubmitAfterStop
<1>1. SubmitInv /\ [Next]_vars => [StopHonoured]_vars
  <2> SUFFICES ASSUME SubmitInv, Next, stopFlag, faults' = faults
               PROVE  /\ submitted' = submitted
                      /\ \A s \in Slices : cstate[s] = "none" => cstate'[s] = "none"
    BY DEF StopHonoured
  <2> USE DEF request, parent, children, runner, market, filling, cancelling
  <2>0. rpc \in {"none", "top"} /\ cstate \in [Slices -> ChildStates \cup {"none"}]
    BY DEF SubmitInv, StopInv, Shape
  <2>1. CASE Run
    BY <2>0, <2>1 DEF Run, StarterReload, MarkWorking, StartAlgo, RunnerTop, EndRunner,
             RunnerWake, InsertChild, ApproveChild, RunnerReload, SendChild, SubmitAccepted,
             SubmitFilled, SubmitRejected, SubmitFails, Submitting
  <2>2. CASE FillChild
    <3>1. \A s \in Slices : s = fill.child => cstate[s] # "none"
      BY <2>2 DEF SubmitInv, RowInv, Worked, FillChild
    <3>2. \/ cstate' = cstate
          \/ \E to : cstate' = [cstate EXCEPT ![fill.child] = to]
      BY <2>2 DEF FillChild
    <3>3. submitted' = submitted
      BY <2>2 DEF FillChild, FillReturns
    <3> QED
      BY <2>0, <3>1, <3>2, <3>3
  <2>3. ASSUME NEW c \in Slices, CancelChild(c)
        PROVE  /\ submitted' = submitted
               /\ \A s \in Slices : cstate[s] = "none" => cstate'[s] = "none"
    <3>1. cstate[c] # "none"
      BY <2>3 DEF CancelChild, SubmitInv, RowInv, Worked
    <3> QED
      BY <2>0, <2>3, <3>1 DEF CancelChild, WriteChild
  <2>4. CASE \/ RunnerTimeout \/ FillLocate \/ FillReadParent \/ FillReadChildren
             \/ FillWriteParent \/ FillNotify \/ CancelRead \/ CancelStop \/ CancelReadChildren
             \/ CancelParent \/ Crash \/ Recover \/ \E s \in Slices : ExchangeFill(s)
    BY <2>4 DEF RunnerTimeout, EndRunner, FillLocate, FillReadParent, FillReadChildren,
             FillWriteParent, FillNotify, CancelRead, CancelStop, CancelReadChildren,
             CancelParent, Crash, Recover, ExchangeFill
  <2> QED
    BY <2>1, <2>2, <2>3, <2>4 DEF Next, ProcessFill, Cancel
<1> QED
  BY <1>1, InitSubmitInv, NextSubmitInv, PTL DEF Spec, NoSubmitAfterStop

-----------------------------------------------------------------------------
\* The in-process broker, before any cancel or restart.
Undisturbed == InProcess /\ cancels = 0 /\ faults = 0

\* Nothing is at the exchange and the runner goes on.
Quiet == ~stopFlag /\ reports = <<>> /\ \A s \in Slices : live[s] = 0

ParentInv ==
  /\ starter \in {"gated", "approved"} => pstate = "APPROVED"
  /\ starter = "working" => pstate = "WORKING"
  /\ starter = "returned" => pstate \in {"WORKING", "FILLED"}

\* The slices before n are filled, the slice n is as said, no other exists.
RowsAre(n, at) ==
  \A s \in Slices : cstate[s] = IF s < n THEN "FILLED" ELSE IF s = n THEN at ELSE "none"

\* Which rows exist follows from where the runner is.
RunnerRows ==
  /\ starter # "returned" => RowsAre(1, "none")
  /\ rpc = "none" /\ starter = "returned" => \A s \in Slices : cstate[s] \in {"FILLED", "none"}
  /\ rpc \in {"top", "waiting", "insert"} => RowsAre(idx, "none")
  /\ rpc \in {"waiting", "insert", "approve", "send", "submit", "filling"} => idx \in Slices
  /\ rpc = "approve" => RowsAre(idx, "DRAFT")
  /\ rpc = "send" => RowsAre(idx, "APPROVED") /\ rrec \in {"none", "APPROVED"}
  /\ rpc = "submit" => RowsAre(idx, "SENT") /\ rrec \in {"none", "SENT"}

\* The fill is the one the runner's task processes.
FillRows ==
  /\ rpc = "filling" <=> fpc # "idle"
  /\ fpc = "child" =>
       /\ RowsAre(idx, "SENT")
       /\ fill = [child |-> idx, qty |-> SliceQty]
       /\ frec = [state |-> "SENT", filled |-> 0]
  /\ fpc \in {"readParent", "readChildren", "writeParent", "notify"} => RowsAre(idx, "FILLED")
  /\ fpc \in {"readChildren", "writeParent"} => fparent \in {"WORKING", "FILLED"}

\* Between a child's fill and the parent's write the parent is behind.
SumInv ==
  /\ cfilled \in [Slices -> Nat]
  /\ \A s \in Slices : cstate[s] = "none" => cfilled[s] = 0
  /\ fpc \in {"idle", "child", "notify"} => pfilled = SumFunctionOnSet(cfilled, Slices)
  /\ fpc = "writeParent" =>
       fderived = [state |-> "FILLED", filled |-> SumFunctionOnSet(cfilled, Slices)]

ChildInv ==
  Undisturbed => Quiet /\ ParentInv /\ RunnerRows /\ FillRows /\ SumInv

LEMMA InitChildInv == Init => ChildInv
<1> SUFFICES ASSUME Init PROVE ChildInv
  OBVIOUS
<1>1. IsFiniteSet(Slices)
  BY AlgoAssumption, FS_Interval DEF Slices
<1>2. SumFunctionOnSet(cfilled, Slices) = 0
  BY <1>1, SumZero DEF Init
<1>3. SumInv
  BY <1>2 DEF Init, SumInv
<1>4. RunnerRows
  BY AlgoAssumption DEF Init, RunnerRows, RowsAre, Slices
<1> QED
  BY <1>3, <1>4 DEF Init, ChildInv, Quiet, ParentInv, FillRows

\* What a step of an undisturbed order may be.
LEMMA UndisturbedStep ==
  ASSUME SubmitInv, ChildInv, Next, Undisturbed'
  PROVE  /\ Undisturbed /\ Quiet /\ ParentInv /\ RunnerRows /\ FillRows /\ SumInv
         /\ \/ StarterReload \/ MarkWorking \/ StartAlgo
            \/ RunnerTop \/ RunnerWake \/ RunnerTimeout \/ InsertChild \/ ApproveChild
            \/ RunnerReload \/ SendChild \/ SubmitFilled
            \/ FillChild \/ FillReadParent \/ FillReadChildren \/ FillWriteParent \/ FillNotify
<1> USE DEF request, cancelling
<1>1. ~Crash /\ ~Recover /\ ~CancelRead
  <2>1. cancels' = 0 /\ faults' = 0 /\ cancels \in Nat /\ faults \in Nat
    BY DEF Undisturbed, SubmitInv, Shape
  <2>2. ~Crash
    BY <2>1 DEF Crash
  <2>3. ~Recover
    <3>1. Recover => faults > 0 /\ faults' = faults
      BY DEF Recover
    <3> QED
      BY <2>1, <3>1
  <2>4. ~CancelRead
    BY <2>1 DEF CancelRead
  <2> QED
    BY <2>2, <2>3, <2>4
<1>2. broker' = broker /\ cancels' = cancels /\ faults' = faults
  <2>1. CASE Run \/ RunnerTimeout
    BY <2>1 DEF Run, RunnerTimeout, StarterReload, MarkWorking, StartAlgo, RunnerTop, RunnerWake,
             InsertChild, ApproveChild, RunnerReload, SendChild, SubmitAccepted, SubmitFilled,
             SubmitRejected, SubmitFails
  <2>2. CASE ProcessFill \/ \E s \in Slices : ExchangeFill(s)
    BY <2>2 DEF ProcessFill, FillLocate, FillChild, FillReadParent, FillReadChildren,
             FillWriteParent, FillNotify, ExchangeFill
  <2>3. CASE Cancel
    BY <2>3 DEF Cancel, CancelStop, CancelReadChildren, CancelParent, CancelChild
  <2> QED
    BY <1>1, <2>1, <2>2, <2>3 DEF Next
<1>3. Undisturbed /\ Quiet /\ ParentInv /\ RunnerRows /\ FillRows /\ SumInv
  BY <1>2 DEF Undisturbed, InProcess, ChildInv
<1>4. ~Cancel
  BY <1>3 DEF SubmitInv, Shape, Undisturbed, Cancel, CancelStop, CancelReadChildren, CancelParent,
           CancelChild
<1>5. ~FillLocate /\ ~ \E s \in Slices : ExchangeFill(s)
  BY <1>3 DEF Quiet, FillLocate, ExchangeFill
<1>6. ~SubmitAccepted /\ ~SubmitRejected /\ ~SubmitFails
  BY <1>3 DEF Undisturbed, SubmitAccepted, SubmitRejected, SubmitFails
<1> QED
  BY <1>1, <1>3, <1>4, <1>5, <1>6 DEF Next, Run, ProcessFill

\* Indices are numbers, and nothing is summed over infinitely many of them.
LEMMA SliceFacts == IsFiniteSet(Slices) /\ Slices \subseteq Nat
BY AlgoAssumption, FS_Interval DEF Slices

\* The request and the runner keep what an undisturbed order knows.
LEMMA RunChildInv ==
  ASSUME SubmitInv, Undisturbed, Quiet, ParentInv, RunnerRows, FillRows, SumInv,
         \/ StarterReload \/ MarkWorking \/ StartAlgo
         \/ RunnerTop \/ RunnerWake \/ RunnerTimeout \/ InsertChild \/ ApproveChild
         \/ RunnerReload \/ SendChild \/ SubmitFilled
  PROVE  Quiet' /\ ParentInv' /\ RunnerRows' /\ FillRows' /\ SumInv'
<1> USE DEF request, parent, children, runner, market, filling, cancelling
<1>0. starter # "returned" => rpc = "none"
  BY DEF SubmitInv, StartInv
<1>1. CASE StarterReload \/ MarkWorking
  <2>1. starter # "returned" /\ rpc = "none" /\ fpc = "idle"
    BY <1>0, <1>1 DEF StarterReload, MarkWorking, FillRows
  <2>2. ParentInv' /\ (starter' = "returned" => starter = "returned")
    BY <1>1 DEF StarterReload, MarkWorking, ParentInv, Valid, Transitions
  <2>3. UNCHANGED <<stopFlag, reports, live, cstate, cfilled, rpc, idx, rrec, fpc,
                    pfilled, fill, frec, fparent, fderived>>
    BY <1>1 DEF StarterReload, MarkWorking
  <2> QED
    BY <2>1, <2>2, <2>3 DEF Quiet, RunnerRows, RowsAre, FillRows, SumInv
<1>2. CASE StartAlgo
  <2>1. starter = "working" /\ rpc = "none" /\ fpc = "idle"
    BY <1>0, <1>2 DEF StartAlgo, FillRows
  <2>2. UNCHANGED <<reports, live, cstate, cfilled, fpc, pstate, pfilled, fill, frec, fparent, fderived>>
        /\ starter' = "returned" /\ rpc' = "top" /\ idx' = 1 /\ ~stopFlag'
    BY <1>2 DEF StartAlgo, StartRunner
  <2> QED
    BY <2>1, <2>2 DEF Quiet, ParentInv, RunnerRows, RowsAre, FillRows, SumInv
<1>3. CASE RunnerTop \/ RunnerTimeout \/ RunnerWake
  <2>1. rpc \in {"top", "waiting"} /\ fpc = "idle" /\ starter = "returned"
    BY <1>0, <1>3 DEF RunnerTop, RunnerTimeout, RunnerWake, FillRows
  <2>2. UNCHANGED <<stopFlag, reports, live, cstate, cfilled, idx, fpc, pstate, pfilled, fill, frec,
                    fparent, fderived, starter>>
        /\ (rpc' = "none" \/ (rpc' \in {"insert", "waiting"} /\ (rpc = "top" => ~(idx > NumSlices))))
    BY <1>3 DEF RunnerTop, RunnerTimeout, RunnerWake, EndRunner
  <2>3. rpc' \in {"insert", "waiting"} => idx \in Slices
    BY <2>1, <2>2, AlgoAssumption DEF SubmitInv, Shape, Slices, RunnerRows
  <2>4. RunnerRows'
    BY <2>1, <2>2, <2>3 DEF RunnerRows, RowsAre
  <2> QED
    BY <2>1, <2>2, <2>4 DEF Quiet, ParentInv, RowsAre, FillRows, SumInv
<1>4. CASE InsertChild \/ ApproveChild \/ SendChild
  <2>1. rpc \in {"insert", "approve", "send"} /\ fpc = "idle" /\ starter = "returned"
    BY <1>0, <1>4 DEF InsertChild, ApproveChild, SendChild, FillRows
  <2>2. UNCHANGED <<stopFlag, reports, live, cfilled, idx, fpc, pstate, pfilled, fill, frec,
                    fparent, fderived, starter>>
    <3>1. CASE InsertChild \/ ApproveChild
      BY <3>1 DEF InsertChild, ApproveChild, WriteChild, RunnerGoto
    <3>2. CASE SendChild
      <4>1. rrec = "APPROVED"
        BY <3>2 DEF SendChild, RunnerRows
      <4> QED
        BY <3>2, <4>1 DEF SendChild, WriteChild, RunnerGoto, Valid, Transitions
    <3> QED
      BY <1>4, <3>1, <3>2
  <2>3. \/ rpc = "insert" /\ rpc' = "approve" /\ cstate' = [cstate EXCEPT ![idx] = "DRAFT"]
        \/ rpc = "approve" /\ rpc' = "send" /\ rrec' = "none" /\ cstate' = [cstate EXCEPT ![idx] = "APPROVED"]
        \/ rpc = "send" /\ rpc' = "submit" /\ rrec' = "none" /\ cstate' = [cstate EXCEPT ![idx] = "SENT"]
    <3>1. CASE InsertChild
      BY <3>1 DEF InsertChild, WriteChild, RunnerGoto
    <3>2. CASE ApproveChild
      BY <3>2 DEF ApproveChild, WriteChild, RunnerGoto
    <3>3. CASE SendChild
      <4>1. rrec = "APPROVED"
        BY <3>3 DEF SendChild, RunnerRows
      <4> QED
        BY <3>3, <4>1 DEF SendChild, WriteChild, RunnerGoto, Valid, Transitions
    <3> QED
      BY <1>4, <3>1, <3>2, <3>3
  <2>4. idx \in Slices /\ cstate \in [Slices -> ChildStates \cup {"none"}]
    BY <2>1 DEF RunnerRows, SubmitInv, Shape
  <2>5. RunnerRows'
    BY <2>1, <2>2, <2>3, <2>4, SliceFacts DEF RunnerRows, RowsAre
  <2>6. SumInv'
    BY <2>1, <2>2, <2>3, <2>4 DEF SumInv
  <2> QED
    BY <2>1, <2>2, <2>3, <2>5, <2>6 DEF Quiet, ParentInv, FillRows
<1>5. CASE RunnerReload
  <2>1. rpc \in {"send", "submit"} /\ fpc = "idle" /\ starter = "returned" /\ idx \in Slices
    BY <1>0, <1>5 DEF RunnerReload, FillRows, RunnerRows
  <2>2. UNCHANGED <<stopFlag, reports, live, cstate, cfilled, rpc, idx, fpc, pstate, pfilled, fill, frec,
                    fparent, fderived, starter>> /\ rrec' = cstate[idx]
    BY <1>5 DEF RunnerReload, RunnerGoto
  <2>3. RunnerRows'
    BY <2>1, <2>2, SliceFacts DEF RunnerRows, RowsAre
  <2> QED
    BY <2>1, <2>2, <2>3 DEF Quiet, ParentInv, FillRows, RowsAre, SumInv
<1>6. CASE SubmitFilled
  <2>1. rpc = "submit" /\ rrec = "SENT" /\ fpc = "idle" /\ starter = "returned" /\ idx \in Slices
    BY <1>0, <1>6 DEF SubmitFilled, Submitting, FillRows, RunnerRows
  <2>2. UNCHANGED <<stopFlag, reports, live, cstate, cfilled, idx, pstate, pfilled, starter>>
        /\ rpc' = "filling" /\ fpc' = "child" /\ fill' = [child |-> idx, qty |-> SliceQty]
        /\ frec' = [state |-> "SENT", filled |-> 0]
    BY <1>6, <2>1 DEF SubmitFilled, RunnerGoto
  <2> QED
    BY <2>1, <2>2 DEF Quiet, ParentInv, RunnerRows, FillRows, RowsAre, SumInv
<1> QED
  BY <1>1, <1>2, <1>3, <1>4, <1>5, <1>6

\* The totals of the children are sums of the function of their fills.
LEMMA TotalIsSum == Total = SumFunctionOnSet(cfilled, Slices)
BY DEF Total, MapThenSumSet, SumFunctionOnSet, FoldFunctionOnSet, MapThenFoldSet

LEMMA TotalFilledIsSum == TotalFilled = SumFunctionOnSet(cfilled, Existing)
BY DEF TotalFilled, MapThenSumSet, SumFunctionOnSet, FoldFunctionOnSet, MapThenFoldSet

\* So does the processing of the fill.
LEMMA FillChildInv ==
  ASSUME SubmitInv, Undisturbed, Quiet, ParentInv, RunnerRows, FillRows, SumInv,
         FillChild \/ FillReadParent \/ FillReadChildren \/ FillWriteParent \/ FillNotify
  PROVE  Quiet' /\ ParentInv' /\ RunnerRows' /\ FillRows' /\ SumInv'
<1> USE DEF request, parent, children, runner, market, filling, cancelling
<1>1. rpc = "filling" /\ starter = "returned" /\ idx \in Slices /\ idx \in Nat /\ ~stopFlag
  <2>1. rpc = "filling"
    BY DEF FillRows, FillChild, FillReadParent, FillReadChildren, FillWriteParent, FillNotify
  <2> QED
    BY <2>1, SliceFacts DEF SubmitInv, StartInv, RunnerRows, Quiet
<1>2. CASE FillChild
  <2>1. fpc = "child" /\ fill = [child |-> idx, qty |-> SliceQty] /\ frec = [state |-> "SENT", filled |-> 0]
        /\ RowsAre(idx, "SENT")
    BY <1>2 DEF FillChild, FillRows
  <2>2. frec.filled + fill.qty = SliceQty /\ frec.state = "SENT" /\ fill.child = idx
    BY <2>1, AlgoAssumption
  <2>3. /\ cstate' = [cstate EXCEPT ![idx] = "FILLED"]
        /\ cfilled' = [cfilled EXCEPT ![idx] = SliceQty]
        /\ fpc' = "readParent"
        /\ UNCHANGED <<stopFlag, reports, live, idx, rpc, pstate, starter>>
    <3>1. WithinRemaining(SliceQty) /\ Valid("SENT", "FILLED") /\ SliceQty >= SliceQty
      BY AlgoAssumption DEF WithinRemaining, Valid, Transitions
    <3> QED
      BY <1>2, <2>2, <3>1 DEF FillChild
  <2>4. cstate \in [Slices -> ChildStates \cup {"none"}] /\ cfilled \in [Slices -> Nat]
    BY DEF SubmitInv, Shape, SumInv
  <2>5. RowsAre(idx, "FILLED")'
    BY <1>1, <2>1, <2>3, <2>4 DEF RowsAre
  <2>6. SumInv'
    <3>1. cfilled' \in [Slices -> Nat]
      BY <2>3, <2>4, AlgoAssumption
    <3>2. \A s \in Slices : cstate'[s] = "none" => cfilled'[s] = 0
      BY <2>3, <2>4, <1>1 DEF SumInv
    <3> QED
      BY <2>3, <3>1, <3>2 DEF SumInv
  <2> QED
    BY <1>1, <2>3, <2>5, <2>6 DEF Quiet, ParentInv, RunnerRows, FillRows
<1>3. CASE FillReadParent
  <2>1. fpc = "readParent" /\ fpc' = "readChildren" /\ fparent' = pstate
        /\ UNCHANGED <<stopFlag, reports, live, cstate, cfilled, idx, rpc, rrec, pstate,
                       pfilled, starter>>
    BY <1>3 DEF FillReadParent
  <2> QED
    BY <1>1, <2>1 DEF Quiet, ParentInv, RunnerRows, FillRows, RowsAre, SumInv
<1>4. CASE FillReadChildren
  <2>1. fpc = "readChildren" /\ fpc' = "writeParent"
        /\ UNCHANGED <<stopFlag, reports, live, cstate, cfilled, idx, rpc, rrec, pstate,
                       pfilled, starter, fparent>>
    BY <1>4 DEF FillReadChildren
  <2>2. RowsAre(idx, "FILLED")
    BY <2>1 DEF FillRows
  <2>3. {cstate[s] : s \in Existing} = {"FILLED"}
    <3>1. \A s \in Existing : cstate[s] = "FILLED"
      BY <2>2 DEF RowsAre, Existing
    <3>2. idx \in Existing
      BY <2>2, <1>1 DEF RowsAre, Existing
    <3> QED
      BY <3>1, <3>2
  <2>4. DeriveParentState({"FILLED"}) = "FILLED"
    BY DEF DeriveParentState
  <2>5. TotalFilled = SumFunctionOnSet(cfilled, Slices)
    <3>1. Existing \in SUBSET Slices /\ \A s \in Slices \ Existing : cfilled[s] = 0
      BY DEF Existing, SumInv
    <3>2. \A s \in Slices : cfilled[s] \in Int
      BY DEF SumInv
    <3> QED
      BY <3>1, <3>2, SliceFacts, SumDrop, TotalFilledIsSum
  <2>6. fderived' = [state |-> "FILLED", filled |-> SumFunctionOnSet(cfilled, Slices)]
    BY <1>4, <2>3, <2>4, <2>5 DEF FillReadChildren
  <2> QED
    BY <1>1, <2>1, <2>2, <2>6 DEF Quiet, ParentInv, RunnerRows, FillRows, RowsAre, SumInv
<1>5. CASE FillWriteParent
  <2>1. /\ fpc = "writeParent" /\ fparent \in {"WORKING", "FILLED"}
        /\ fderived.state = "FILLED" /\ fderived.filled = SumFunctionOnSet(cfilled, Slices)
    BY <1>5 DEF FillWriteParent, FillRows, SumInv
  <2>2. fderived.state = fparent \/ Valid(fparent, fderived.state)
    BY <2>1 DEF Valid, Transitions
  <2>3. fpc' = "notify" /\ pstate' = "FILLED" /\ pfilled' = SumFunctionOnSet(cfilled, Slices)
        /\ UNCHANGED <<stopFlag, reports, live, cstate, cfilled, idx, rpc, rrec, starter>>
    BY <1>5, <2>1, <2>2 DEF FillWriteParent
  <2> QED
    BY <1>1, <2>1, <2>3 DEF Quiet, ParentInv, RunnerRows, FillRows, RowsAre, SumInv
<1>6. CASE FillNotify
  <2>1. fpc = "notify" /\ fpc' = "idle" /\ rpc' = "top" /\ idx' = idx + 1
        /\ UNCHANGED <<stopFlag, reports, live, cstate, cfilled, pstate, pfilled, starter>>
    BY <1>1, <1>6 DEF FillNotify
  <2>2. RowsAre(idx, "none")'
    BY <1>1, <2>1, SliceFacts DEF FillRows, RowsAre
  <2> QED
    BY <1>1, <2>1, <2>2 DEF Quiet, ParentInv, RunnerRows, FillRows, SumInv
<1> QED
  BY <1>2, <1>3, <1>4, <1>5, <1>6

\* With the in-process broker and no cancel or restart, the parent's fills are
\* its children's whenever no fill is being processed.
THEOREM ParentIsSumOfChildren == Spec => []ParentMatchesChildren
<1>1. SubmitInv /\ ChildInv /\ [Next]_vars => ChildInv'
  <2> SUFFICES ASSUME SubmitInv, ChildInv, [Next]_vars, Undisturbed'
               PROVE  Quiet' /\ ParentInv' /\ RunnerRows' /\ FillRows' /\ SumInv'
    BY DEF ChildInv
  <2>1. CASE Next
    BY <2>1, UndisturbedStep, RunChildInv, FillChildInv
  <2>2. CASE UNCHANGED vars
    BY <2>2 DEF vars, request, parent, children, runner, market, filling, cancelling, ChildInv,
             Undisturbed, InProcess, Quiet, ParentInv, RunnerRows, FillRows, RowsAre, SumInv
  <2> QED
    BY <2>1, <2>2
<1>2. ChildInv => ParentMatchesChildren
  BY TotalIsSum DEF ChildInv, Undisturbed, SumInv, ParentMatchesChildren
<1> QED
  BY <1>1, <1>2, InitChildInv, InitSubmitInv, NextSubmitInv, PTL DEF Spec
=============================================================================
