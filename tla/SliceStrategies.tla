--------------------------- MODULE SliceStrategies ---------------------------
(***************************************************************************)
(* compute_slices of the three strategies of orders/core/algo_strategies.py*)
(* run as the loops they are: one step per slice.  Quantities are integers *)
(* in units of Decimal("0.00000001"), the quantum that the code rounds to. *)
(* Of the list of slices the module keeps the sum and the last element.    *)
(* The order's quantity is positive; volume_profile holds any numbers.     *)
(***************************************************************************)
EXTENDS Integers, Sequences, Functions

CONSTANTS
  Kinds,      \* strategies: a subset of twap, vwap, iceberg
  MaxTotal,   \* bound on the order's quantity
  MaxSlices,  \* bound on num_slices and on the length of volume_profile
  MaxWeight   \* bound on the size of a weight of volume_profile

ASSUME SliceAssumption ==
  /\ Kinds \subseteq {"twap", "vwap", "iceberg"}
  /\ MaxTotal \in Nat \ {0}
  /\ MaxSlices \in Nat
  /\ MaxWeight \in Nat

VARIABLES
  kind,       \* the strategy; vwap may fall back to twap
  total,      \* total_qty
  num,        \* params.num_slices
  profile,    \* params.volume_profile, <<>> when there is none
  shown,      \* params.visible_quantity, 0 when there is none
  i,          \* slices computed so far
  allocated,  \* allocated; total - remaining in the Iceberg loop
  placed,     \* sum of the quantities appended to slices
  last,       \* the last quantity appended
  done        \* compute_slices has returned

input == <<total, num, profile, shown>>
sliceVars == <<kind, input, i, allocated, placed, last, done>>

Profiles == UNION {[1..k -> -MaxWeight..MaxWeight] : k \in 0..MaxSlices}

SliceTypeOK ==
  /\ kind \in {"twap", "vwap", "iceberg"}
  /\ total \in 1..MaxTotal
  /\ num \in 0..MaxSlices
  /\ profile \in Profiles
  /\ shown \in 0..MaxTotal
  /\ i \in Nat
  /\ kind = "twap" => i <= num \/ i <= 1
  /\ kind = "vwap" => i <= Len(profile)
  /\ allocated \in Int /\ placed \in Int /\ last \in Int
  /\ done \in BOOLEAN

\* A request carries the parameters of its own strategy.
SliceInit ==
  /\ kind \in Kinds
  /\ total \in 1..MaxTotal
  /\ num \in IF kind = "iceberg" THEN {0} ELSE 0..MaxSlices
  /\ profile \in IF kind = "vwap" THEN Profiles ELSE {<<>>}
  /\ shown \in IF kind = "iceberg" THEN 0..MaxTotal ELSE {0}
  /\ i = 0 /\ allocated = 0 /\ placed = 0 /\ last = 0
  /\ done = FALSE

-----------------------------------------------------------------------------
\* quantize of a / b with the default rounding, ROUND_HALF_EVEN.
Quantize(a, b) ==
  LET q == a \div b
      r == a % b
  IN  IF 2 * r > b \/ (2 * r = b /\ q % 2 = 1) THEN q + 1 ELSE q

AddSlice(qty, appended) ==
  /\ i' = i + 1
  /\ allocated' = allocated + qty
  /\ placed' = IF appended THEN placed + qty ELSE placed
  /\ last' = IF appended THEN qty ELSE last
  /\ UNCHANGED <<kind, input>>

\* Not the remainder: the last slice is like the others.
SameShare(n, base) == base

\* TWAP: the last slice takes what is left.
TwapShare(n, base) == IF i = n - 1 THEN total - allocated ELSE base

\* n = max(1, params.num_slices)
TwapSlices == IF num > 1 THEN num ELSE 1

\* for i in range(n)
TwapEnds == i + 1 = TwapSlices

TwapSlice ==
  /\ kind = "twap"
  /\ ~done
  /\ AddSlice(TwapShare(TwapSlices, Quantize(total, TwapSlices)), TRUE)
  /\ done' = TwapEnds

Weight(p) == SumFunction(p)

\* No profile, or one without weight: VWAP falls back to TWAP.
VwapFallback ==
  /\ kind = "vwap"
  /\ profile = <<>> \/ Weight(profile) = 0
  /\ kind' = "twap"
  /\ UNCHANGED <<input, i, allocated, placed, last, done>>

\* total * (weight / total_weight) as a fraction with a positive denominator.
Numerator(w) == IF Weight(profile) > 0 THEN total * w ELSE -(total * w)
Denominator == IF Weight(profile) > 0 THEN Weight(profile) ELSE -Weight(profile)

\* The fraction, rounded.  The quotient is cut to 28 digits, so a tie goes either
\* way.
Proportions(w) ==
  LET a == Numerator(w)
      b == Denominator
  IN  IF 2 * (a % b) = b THEN {a \div b, a \div b + 1} ELSE {Quantize(a, b)}

\* Every profile share is rounded up.
VwapSharesUp(n) ==
  IF i = n - 1 THEN {total - allocated}
               ELSE {Numerator(profile[i + 1]) \div Denominator + 1}

VwapShares(n) == IF i = n - 1 THEN {total - allocated} ELSE Proportions(profile[i + 1])

\* VWAP: a slice without quantity is left out.
VwapSlice ==
  /\ kind = "vwap"
  /\ ~done
  /\ profile # <<>> /\ Weight(profile) # 0
  /\ \E qty \in VwapShares(Len(profile)) : AddSlice(qty, qty > 0)
  /\ done' = (i + 1 = Len(profile))

\* The default is cut off instead of rounded.
VisibleCut == IF shown > 0 THEN shown ELSE total \div 10

\* The visible quantity; a tenth of the order by default.
Visible == IF shown > 0 THEN shown ELSE Quantize(total, 10)

\* Iceberg: while remaining > ZERO.
IcebergSlice ==
  /\ kind = "iceberg"
  /\ ~done
  /\ LET remaining == total - allocated
         qty == IF Visible <= remaining THEN Visible ELSE remaining
     IN  /\ allocated' = allocated + qty
         /\ placed' = placed + qty
         /\ last' = qty
         /\ done' = (remaining = qty)
  /\ UNCHANGED <<kind, input, i>>

SliceNext == TwapSlice \/ VwapFallback \/ VwapSlice \/ IcebergSlice

SliceSpec == SliceInit /\ [][SliceNext]_sliceVars

FairSliceSpec == SliceSpec /\ WF_sliceVars(SliceNext)

-----------------------------------------------------------------------------
\* The slices add up to the order's quantity.
CoversOrder == done => placed = total

\* TWAP, also as VWAP's fallback, and Iceberg never place more or less than
\* was ordered, whatever quantize rounds away.
TwapIcebergCover == kind # "vwap" => CoversOrder

\* No weight of a profile is negative; nothing in AlgoParams says so.
NonNegative(p) == \A k \in DOMAIN p : p[k] >= 0

\* What rounding does stays small: TWAP's last slice, which absorbs every error,
\* differs from the others by at most half a quantum per slice.  VWAP places at
\* least what was ordered, whatever its profile, since only slices that are not
\* positive are left out; and if no weight is negative it places too much by at
\* most that.  (A negative weight takes its whole share from the last slice, so
\* that the placed slices may add up to a multiple of the order.)
RoundingBounded ==
  done =>
    /\ kind = "twap" =>
         LET diff == last - Quantize(total, TwapSlices)
         IN  2 * diff <= TwapSlices /\ -2 * diff <= TwapSlices
    /\ kind = "vwap" =>
         /\ placed >= total
         /\ NonNegative(profile) => 2 * (placed - total) <= Len(profile)

\* compute_slices returns.  The exception is an Iceberg order of at most five
\* quanta without visible_quantity: its default of a tenth rounds to zero and the
\* loop takes nothing off the remainder (l. 127).
SlicingEnds == <>(done \/ (kind = "iceberg" /\ shown = 0 /\ total <= 5))
=============================================================================
