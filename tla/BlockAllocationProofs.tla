----------------------- MODULE BlockAllocationProofs -----------------------
(***************************************************************************)
(* For any number of legs, percentages, cancel requests and failures: a    *)
(* block is executed only with the approval of every leg, is marked only   *)
(* after every leg got its share, and gives out no more than was executed, *)
(* but for the roundings, the tolerance and the negative percentages.      *)
(***************************************************************************)
EXTENDS BlockAllocation, SumTheorems, TLAPS

\* No leg from i on is rejected.
Clean(i) == \A j \in Legs : j >= i => leg[j].state # "rejected"

\* Only what the argument needs.
LegRows ==
  /\ leg = [j \in Legs |-> leg[j]]
  /\ \A j \in Legs : "state" \in DOMAIN leg[j]

Types ==
  /\ LegRows
  /\ order \in [placed : BOOLEAN, open : BOOLEAN, filled : 0..Total]
  /\ k \in Legs
  /\ approved \in BOOLEAN

\* What the legs say while create_block_allocation works on them: those that
\* the compliance loop has not reached are clean, and all_approved remembers
\* whether the others are.
GateInv ==
  /\ pc \in {"new", "legs", "enter"} => Clean(1)
  /\ pc \in {"new", "enter"} => k = 1
  /\ pc = "check" => Clean(k) /\ (approved => Clean(1))
  /\ pc = "decide" => (approved => Clean(1))
  /\ pc \in {"execute", "record", "read", "leg", "publish", "finish"} => Clean(1)
  /\ order.placed => Clean(1) /\ pc \notin {"new", "legs", "enter", "check", "decide", "execute"}

ApprovalInv == Types /\ GateInv

-----------------------------------------------------------------------------
\* Before the request the invariant holds.
LEMMA InitApproval == Init => ApprovalInv
<1> SUFFICES ASSUME Init PROVE ApprovalInv
  OBVIOUS
<1>1. LegRows /\ k \in Legs
  BY BlockAssumption DEF Init, Legs, LegRows
<1>2. order \in [placed : BOOLEAN, open : BOOLEAN, filled : 0..Total]
  BY BlockAssumption DEF Init
<1>3. approved \in BOOLEAN
  BY Zenon DEF Init
<1>4. Clean(1)
  BY DEF Init, Clean
<1>5. pc = "new" /\ k = 1 /\ ~order.placed
  BY DEF Init
<1> QED
  BY <1>1, <1>2, <1>3, <1>4, <1>5 DEF ApprovalInv, Types, GateInv

\* A step that rejects no leg keeps the legs that were clean.
LEMMA CleanKept ==
  ASSUME NEW i \in Int, Clean(i),
         \A j \in Legs : leg'[j].state = leg[j].state \/ leg'[j].state # "rejected"
  PROVE  \A j \in Legs : j >= i => leg'[j].state # "rejected"
BY DEF Clean

\* Writing the state of one leg.
LEMMA SetLegRows ==
  ASSUME LegRows, NEW i, NEW s, SetLeg(i, s)
  PROVE  /\ LegRows'
         /\ \A j \in Legs : leg'[j].state = IF j = i THEN s ELSE leg[j].state
<1>1. leg' = [leg EXCEPT ![i] = [leg[i] EXCEPT !.state = s]]
  BY DEF SetLeg
<1>2. leg' = [j \in Legs |-> IF j = i THEN [leg[i] EXCEPT !.state = s] ELSE leg[j]]
  BY <1>1 DEF LegRows
<1>3. ASSUME NEW j \in Legs
      PROVE  /\ "state" \in DOMAIN leg'[j]
             /\ leg'[j].state = IF j = i THEN s ELSE leg[j].state
  <2>1. CASE j = i
    BY <1>2, <2>1 DEF LegRows
  <2>2. CASE j # i
    BY <1>2, <2>2 DEF LegRows
  <2> QED
    BY <2>1, <2>2
<1> QED
  BY <1>2, <1>3 DEF LegRows

\* A step that leaves what the invariant speaks of alone, and its place as well
\* or leads from a place to one that asks for no more.
LEMMA SamePlace ==
  ASSUME ApprovalInv, UNCHANGED <<leg, order, k, approved>>,
         \/ pc' = pc
         \/ pc' = "done" /\ pc \notin {"legs", "enter", "check", "decide", "execute"}
         \/ pc' = "done" /\ ~order.placed
         \/ pc = "new" /\ pc' = "legs"
         \/ pc = "enter" /\ pc' = "check"
         \/ pc = "decide" /\ approved /\ pc' = "execute"
  PROVE  ApprovalInv'
<1>1. Types'
  <2>1. approved' \in BOOLEAN
    BY Zenon DEF ApprovalInv, Types
  <2> QED
    BY <2>1 DEF ApprovalInv, Types, LegRows
<1>2. \A i : Clean(i)' <=> Clean(i)
  BY DEF Clean
<1>3. GateInv'
  <2>1. Clean(1)' <=> Clean(1)
    BY <1>2
  <2>2. Clean(k)' <=> Clean(k)
    BY <1>2
  <2> QED
    BY <2>1, <2>2 DEF ApprovalInv, GateInv
<1> QED
  BY <1>1, <1>3 DEF ApprovalInv

-----------------------------------------------------------------------------
\* The compliance loop: the leg it is at gets its decision and all_approved
\* takes note of it.
LEMMA CheckLegStep ==
  ASSUME ApprovalInv, NEW ok \in BOOLEAN, CheckLeg(ok)
  PROVE  ApprovalInv'
<1> USE BlockAssumption DEF Legs
<1> DEFINE s == IF ok THEN "approved" ELSE "rejected"
<1>1. /\ pc = "check" /\ order' = order
      /\ SetLeg(k, s) /\ NextLeg("check", "decide")
  BY DEF CheckLeg
<1>2. approved' \in BOOLEAN /\ (approved' => approved /\ ok)
  BY Zenon DEF CheckLeg, AllApproved, ApprovalInv, Types
<1>3. LegRows' /\ \A j \in Legs : leg'[j].state = IF j = k THEN s ELSE leg[j].state
  BY <1>1, SetLegRows DEF ApprovalInv, Types
<1>4. /\ k \in Legs /\ k' \in Legs
      /\ \/ pc' = "check" /\ k' = k + 1
         \/ pc' = "decide"
  BY <1>1 DEF NextLeg, ApprovalInv, Types
<1>5. /\ \A j \in Legs : j >= k => leg[j].state # "rejected"
      /\ approved => \A j \in Legs : leg[j].state # "rejected"
      /\ ~order.placed
  BY <1>1 DEF ApprovalInv, GateInv, Clean
<1>6. pc' = "check" => \A j \in Legs : j >= k' => leg'[j].state # "rejected"
  BY <1>3, <1>4, <1>5
<1>7. ok => s # "rejected"
  OBVIOUS
<1>8. approved' => \A j \in Legs : leg'[j].state # "rejected"
  <2> SUFFICES ASSUME approved', NEW j \in Legs PROVE leg'[j].state # "rejected"
    OBVIOUS
  <2>1. ok /\ leg[j].state # "rejected"
    BY <1>2, <1>5
  <2> HIDE DEF s
  <2> QED
    BY <2>1, <1>3, <1>7
<1>9. Types'
  BY <1>1, <1>2, <1>3, <1>4 DEF ApprovalInv, Types
<1>10. GateInv'
  BY <1>1, <1>4, <1>5, <1>6, <1>8 DEF GateInv, Clean
<1> QED
  BY <1>9, <1>10 DEF ApprovalInv

\* A step that writes to a leg anything but a rejection, and after which nothing
\* more is asked of the legs than before.
LEMMA CleanStep ==
  ASSUME ApprovalInv, UNCHANGED <<order, approved>>, LegRows', k' \in Legs,
         \A j \in Legs : leg'[j].state = leg[j].state \/ leg'[j].state # "rejected",
         \/ pc' = pc /\ k' = k
         \/ pc = "legs" /\ pc' \in {"legs", "enter"} /\ (pc' = "enter" => k' = 1)
         \/ pc \in {"leg", "publish"} /\ pc' \in {"leg", "publish", "finish"}
  PROVE  ApprovalInv'
<1> USE BlockAssumption DEF Legs
<1>1. k \in Legs
  BY DEF ApprovalInv, Types
<1>2. Clean(1) => Clean(1)'
  BY DEF Clean
<1>3. Clean(k) /\ k' = k => Clean(k)'
  BY DEF Clean
<1>4. Types'
  <2>1. approved' \in BOOLEAN
    BY Zenon DEF ApprovalInv, Types
  <2> QED
    BY <2>1 DEF ApprovalInv, Types
<1>5. GateInv'
  BY <1>1, <1>2, <1>3 DEF ApprovalInv, GateInv
<1> QED
  BY <1>4, <1>5 DEF ApprovalInv

\* Every step of create_block_allocation keeps the invariant.
LEMMA CreateStep ==
  ASSUME ApprovalInv, Create
  PROVE  ApprovalInv'
<1> USE BlockAssumption DEF Legs
<1>0. k \in Legs /\ LegRows
  BY DEF ApprovalInv, Types
<1>1. CASE Refuse
  <2>1. UNCHANGED <<leg, order, k, approved>> /\ pc = "new" /\ pc' = "done"
    BY <1>1 DEF Refuse
  <2>2. ~order.placed
    BY <2>1 DEF ApprovalInv, GateInv
  <2> QED
    BY <2>1, <2>2, SamePlace
<1>2. CASE InsertAllocation
  BY <1>2, SamePlace DEF InsertAllocation
<1>3. CASE InsertLeg
  <2>1. /\ pc = "legs" /\ UNCHANGED <<order, approved>>
        /\ SetLeg(k, "pending_compliance") /\ NextLeg("legs", "enter")
    BY <1>3 DEF InsertLeg
  <2>2. /\ LegRows'
        /\ \A j \in Legs : leg'[j].state = leg[j].state \/ leg'[j].state # "rejected"
    BY <1>0, <2>1, SetLegRows
  <2>3. k' \in Legs /\ pc' \in {"legs", "enter"} /\ (pc' = "enter" => k' = 1)
    BY <1>0, <2>1 DEF NextLeg
  <2> QED
    BY <2>1, <2>2, <2>3, CleanStep
<1>4. CASE EnterCompliance
  BY <1>4, SamePlace DEF EnterCompliance
<1>5. ASSUME NEW ok \in BOOLEAN, CheckLeg(ok) PROVE ApprovalInv'
  BY <1>5, CheckLegStep
<1>6. CASE Decide
  <2>1. /\ UNCHANGED <<leg, order, k, approved>> /\ pc = "decide"
        /\ \/ approved /\ pc' = "execute"
           \/ pc' = "done"
    BY <1>6 DEF Decide
  <2>2. ~order.placed
    BY <2>1 DEF ApprovalInv, GateInv
  <2> QED
    BY <2>1, <2>2, SamePlace
<1>7. ASSUME NEW filled \in 0..Total, NEW open \in BOOLEAN, NEW cancelled \in BOOLEAN,
             Execute(filled, open, cancelled)
      PROVE  ApprovalInv'
  <2>1. /\ pc = "execute" /\ pc' = "record" /\ UNCHANGED <<leg, k, approved>>
        /\ order' = [placed |-> TRUE, open |-> open, filled |-> filled]
    BY <1>7 DEF Execute
  <2>2. Types'
    <3>1. approved' \in BOOLEAN
      BY <2>1, Zenon DEF ApprovalInv, Types
    <3>2. order' \in [placed : BOOLEAN, open : BOOLEAN, filled : 0..Total]
      BY <2>1
    <3> QED
      BY <2>1, <3>1, <3>2 DEF ApprovalInv, Types, LegRows
  <2>3. Clean(1)'
    BY <2>1 DEF ApprovalInv, GateInv, Clean
  <2> QED
    BY <2>1, <2>2, <2>3 DEF ApprovalInv, GateInv
<1>8. ASSUME pc \in {"record", "read", "leg", "publish", "finish"},
             pc' \in {"read", "leg", "publish", "finish", "done"},
             UNCHANGED <<leg, order, approved>>, k' \in Legs
      PROVE  ApprovalInv'
  <2>1. Types'
    <3>1. approved' \in BOOLEAN
      BY <1>8, Zenon DEF ApprovalInv, Types
    <3> QED
      BY <1>8, <3>1 DEF ApprovalInv, Types, LegRows
  <2>2. Clean(1)'
    BY <1>8 DEF ApprovalInv, GateInv, Clean
  <2> QED
    BY <1>8, <2>1, <2>2 DEF ApprovalInv, GateInv
<1>9. CASE RecordOrder
  BY <1>0, <1>8, <1>9 DEF RecordOrder
<1>10. CASE ReadFills
  BY <1>0, <1>8, <1>10 DEF ReadFills
<1>11. CASE SkipLeg
  BY <1>0, <1>8, <1>11 DEF SkipLeg, NextLeg
<1>12. CASE UpdateLeg
  <2> DEFINE row == [state |-> "allocated", filled |-> Share(got, k)]
  <2>1. /\ pc = "leg" /\ pc' = "publish" /\ UNCHANGED <<k, approved, order>>
        /\ leg' = [leg EXCEPT ![k] = row]
    BY <1>12 DEF UpdateLeg
  <2>2. row.state = "allocated" /\ "state" \in DOMAIN row
    OBVIOUS
  <2> HIDE DEF row
  <2>3. /\ leg' = [j \in Legs |-> IF j = k THEN row ELSE leg[j]]
        /\ LegRows'
    BY <1>0, <2>1, <2>2 DEF LegRows
  <2>4. \A j \in Legs : leg'[j].state = leg[j].state \/ leg'[j].state # "rejected"
    BY <2>2, <2>3
  <2> QED
    BY <1>0, <2>1, <2>3, <2>4, CleanStep
<1>13. CASE PublishLeg
  BY <1>0, <1>8, <1>13 DEF PublishLeg, NextLeg
<1>14. CASE Finish
  BY <1>0, <1>8, <1>14 DEF Finish
<1> QED
  BY <1>1, <1>2, <1>3, <1>4, <1>5, <1>6, <1>7, <1>9, <1>10, <1>11, <1>12, <1>13,
     <1>14 DEF Create

\* A cancel request writes only cancellations, and fills and failures no leg.
LEMMA OtherStep ==
  ASSUME ApprovalInv,
         \/ \E filled \in 0..Total : OrderFills(filled)
         \/ \E c \in Cancels : Cancel(c) \/ CancelFails(c)
         \/ CreateFails
  PROVE  ApprovalInv'
<1> USE BlockAssumption DEF Legs
<1>0. /\ k \in Legs /\ LegRows /\ approved \in BOOLEAN
      /\ order \in [placed : BOOLEAN, open : BOOLEAN, filled : 0..Total]
  BY Zenon DEF ApprovalInv, Types
<1>1. ASSUME UNCHANGED <<leg, creator>>, order'.placed = order.placed,
             order' \in [placed : BOOLEAN, open : BOOLEAN, filled : 0..Total]
      PROVE  ApprovalInv'
  <2>1. UNCHANGED <<leg, pc, k, approved>>
    BY <1>1 DEF creator
  <2>2. approved' \in BOOLEAN
    BY <1>0, <2>1, Zenon
  <2>3. Types'
    BY <1>0, <1>1, <2>1, <2>2 DEF Types, LegRows
  <2>4. Clean(1)' <=> Clean(1)
    BY <2>1 DEF Clean
  <2>5. Clean(k)' <=> Clean(k)
    BY <2>1 DEF Clean
  <2> QED
    BY <1>1, <2>1, <2>3, <2>4, <2>5 DEF ApprovalInv, GateInv
<1>2. ASSUME NEW filled \in 0..Total, OrderFills(filled) PROVE ApprovalInv'
  <2>1. /\ UNCHANGED <<leg, creator>>
        /\ order' = [order EXCEPT !.filled = filled, !.open = filled < Total]
    BY <1>2 DEF OrderFills
  <2>2. (filled < Total) \in BOOLEAN
    OBVIOUS
  <2> QED
    BY <1>0, <1>1, <2>1, <2>2
<1>3. ASSUME NEW c \in Cancels, Cancel(c) PROVE ApprovalInv'
  <2>1. CASE CancelRead(c) \/ CancelReadLegs(c) \/ CancelWrite(c)
    BY <1>0, <1>1, <2>1 DEF CancelRead, CancelReadLegs, CancelWrite
  <2>2. ASSUME NEW closes \in BOOLEAN, CancelOrder(c, closes) PROVE ApprovalInv'
    <3>1. /\ UNCHANGED <<leg, creator>>
          /\ order' = [order EXCEPT !.open = order.open /\ ~closes]
      BY <2>2 DEF CancelOrder
    <3>2. (order.open /\ ~closes) \in BOOLEAN
      OBVIOUS
    <3> QED
      BY <1>0, <1>1, <3>1, <3>2
  <2>3. CASE CancelLeg(c)
    <3>1. UNCHANGED <<order, creator>>
      BY <2>3 DEF CancelLeg
    <3>2. UNCHANGED <<order, approved, pc, k>>
      BY <3>1 DEF creator
    <3>3. /\ LegRows'
          /\ \A j \in Legs : leg'[j].state = leg[j].state \/ leg'[j].state # "rejected"
      <4>1. CASE UNCHANGED leg
        BY <1>0, <4>1 DEF LegRows
      <4>2. CASE SetLeg(kleg[c], "cancelled")
        BY <1>0, <4>2, SetLegRows
      <4> QED
        BY <2>3, <4>1, <4>2 DEF CancelLeg
    <3> QED
      BY <1>0, <3>2, <3>3, CleanStep
  <2> QED
    BY <1>3, <2>1, <2>2, <2>3 DEF Cancel
<1>4. ASSUME NEW c \in Cancels, CancelFails(c) PROVE ApprovalInv'
  BY <1>0, <1>1, <1>4 DEF CancelFails
<1>5. CASE CreateFails
  <2>1. UNCHANGED <<leg, order, k, approved>> /\ pc' = "done"
    BY <1>5 DEF CreateFails
  <2>2. Types'
    <3>1. approved' \in BOOLEAN
      BY <1>0, <2>1, Zenon
    <3> QED
      BY <1>0, <2>1, <3>1 DEF Types, LegRows
  <2>3. Clean(1)' <=> Clean(1)
    BY <2>1 DEF Clean
  <2> QED
    BY <2>1, <2>2, <2>3 DEF ApprovalInv, GateInv
<1> QED
  BY <1>2, <1>3, <1>4, <1>5

-----------------------------------------------------------------------------
(* Whatever order the requests take and wherever they fail, the execution  *)
(* order is placed only for a block none of whose legs was refused         *)
(* (all_approved in create_block_allocation).                              *)
THEOREM BlockIsApproved == Spec => []ExecutedIsApproved
<1>1. ApprovalInv /\ [Next]_vars => ApprovalInv'
  <2> SUFFICES ASSUME ApprovalInv, [Next]_vars PROVE ApprovalInv'
    OBVIOUS
  <2>1. CASE Create
    BY <2>1, CreateStep
  <2>2. CASE UNCHANGED vars
    BY <2>2, SamePlace DEF vars, creator
  <2>3. CASE Next /\ ~Create
    BY <2>3, OtherStep DEF Next
  <2> QED
    BY <2>1, <2>2, <2>3
<1>2. ApprovalInv => ExecutedIsApproved
  BY BlockAssumption DEF ApprovalInv, GateInv, Clean, ExecutedIsApproved, Legs
<1> QED
  BY InitApproval, <1>1, <1>2, PTL DEF Spec

-----------------------------------------------------------------------------
\* quantize is at most half a unit off.
LEMMA QuantizeBound ==
  ASSUME NEW a \in Int, NEW b \in Nat \ {0}
  PROVE  /\ Quantize(a, b) \in Int
         /\ 2 * b * Quantize(a, b) <= 2 * a + b
         /\ 2 * a - b <= 2 * b * Quantize(a, b)
<1> DEFINE q == a \div b
           r == a % b
<1>1. q \in Int /\ r \in 0..b-1 /\ a = b * q + r
  OBVIOUS
<1> HIDE DEF q, r
<1>2. Quantize(a, b) = IF 2 * r > b \/ (2 * r = b /\ q % 2 = 1) THEN q + 1 ELSE q
  BY DEF Quantize, q, r
<1>3. b * (q + 1) = b * q + b /\ b * q \in Int
  BY <1>1
<1>4. \A z \in Int : 2 * b * z = 2 * (b * z)
  OBVIOUS
<1> QED
  BY <1>1, <1>2, <1>3, <1>4

\* Per leg: its percentage, or 0 if it is negative.
Asked == [i \in Legs |-> IF pct[i] > 0 THEN pct[i] ELSE 0]

\* What a leg is asked for is above what is taken from it.
LEMMA AskedBelow ==
  ASSUME NEW i \in Legs, pct[i] \in Int
  PROVE  /\ Asked[i] \in Nat /\ Below[i] \in Nat /\ pct[i] = Asked[i] - Below[i]
         /\ Stored(pct[i]) \in Int
         /\ 2 * Stored(pct[i]) <= Asked[i] + 1
         /\ -(Below[i] + 1) <= 2 * Stored(pct[i])
<1>1. /\ Asked[i] = IF pct[i] > 0 THEN pct[i] ELSE 0
      /\ Below[i] = IF pct[i] < 0 THEN -pct[i] ELSE 0
  BY DEF Asked, Below
<1>2. CASE pct[i] >= 0
  BY <1>1, <1>2 DEF Stored
<1>3. CASE pct[i] < 0
  BY <1>1, <1>3 DEF Stored
<1> QED
  BY <1>2, <1>3

\* Of an executed quantity a leg but the last gets no more than it was asked for
\* and loses no more than its negative percentage, but for the roundings.
LEMMA LegBound ==
  ASSUME NEW F \in Nat, pct \in [Legs -> Int], NEW i \in 1..NumLegs - 1
  PROVE  /\ Rounded(F)[i] \in Int
         /\ 2 * Scale * Rounded(F)[i] <= F * Asked[i] + (F + Scale)
         /\ 2 * Scale * (0 - Rounded(F)[i]) <= F * Below[i] + (F + Scale)
<1> DEFINE p == Stored(pct[i])
           A == Asked[i]
           B == Below[i]
           R == Rounded(F)[i]
<1>1. i \in Legs /\ pct[i] \in Int
  BY BlockAssumption DEF Legs
<1>2. /\ A \in Nat /\ B \in Nat /\ p \in Int
      /\ 2 * p <= A + 1 /\ -(B + 1) <= 2 * p
  BY <1>1, AskedBelow
<1>3. R = Quantize(F * p, Scale)
  BY DEF Rounded
<1> HIDE DEF p, A, B, R
<1>4. F * p \in Int
  BY <1>2
<1>5. /\ R \in Int /\ 2 * Scale * R <= 2 * (F * p) + Scale
      /\ 2 * (F * p) - Scale <= 2 * Scale * R
  BY <1>3, <1>4, QuantizeBound, BlockAssumption
<1>6. 2 * (F * p) <= F * A + F /\ -(2 * (F * p)) <= F * B + F
  <2>1. ASSUME NEW f \in Nat, NEW u \in Int, NEW v \in Nat, u <= v + 1 PROVE f * u <= f * v + f
    <3>1. f * u <= f * (v + 1)
      BY <2>1
    <3>2. f * (v + 1) = f * v + f
      OBVIOUS
    <3> QED
      BY <3>1, <3>2
  <2>2. F * (2 * p) <= F * A + F
    BY <1>2, <2>1
  <2>3. -(2 * p) \in Int /\ -(2 * p) <= B + 1
    BY <1>2
  <2>4. F * (-(2 * p)) <= F * B + F
    BY <1>2, <2>1, <2>3
  <2>5. F * (2 * p) = 2 * (F * p) /\ F * (-(2 * p)) = -(2 * (F * p))
    BY <1>2
  <2> QED
    BY <2>2, <2>4, <2>5
<1>7. 2 * Scale * (0 - R) = -(2 * Scale * R)
  BY <1>5, BlockAssumption
<1>8. /\ F * A \in Int /\ F * B \in Int /\ 2 * Scale * R \in Int /\ Scale \in Int
      /\ 2 * (F * p) \in Int
  BY <1>2, <1>4, <1>5, BlockAssumption
<1>9. R \in Int
  BY <1>5
<1>10. 2 * Scale * R <= F * A + (F + Scale)
  BY <1>5, <1>6, <1>8
<1>11. 2 * Scale * (0 - R) <= F * B + (F + Scale)
  BY <1>5, <1>6, <1>7, <1>8
<1> QED
  BY <1>9, <1>10, <1>11 DEF R, A, B

\* The shares of an executed quantity are integers.
LEMMA SharesInt ==
  ASSUME NEW F \in Nat, pct \in [Legs -> Int]
  PROVE  /\ \A i \in Legs : Share(F, i) \in Int
         /\ SumFunction(Rounded(F)) = SumFunctionOnSet(Rounded(F), 1..NumLegs - 1)
         /\ SumFunctionOnSet(Rounded(F), 1..NumLegs - 1) \in Int
<1> DEFINE N == 1..NumLegs - 1
<1>1. IsFiniteSet(N)
  BY FS_Interval, BlockAssumption
<1>2. \A i \in N : Rounded(F)[i] \in Int
  BY LegBound
<1>3. SumFunction(Rounded(F)) = SumFunctionOnSet(Rounded(F), N)
  <2>1. DOMAIN Rounded(F) = N
    BY DEF Rounded
  <2> QED
    BY <2>1 DEF SumFunction
<1>4. SumFunctionOnSet(Rounded(F), N) \in Int
  BY <1>1, <1>2, SumInt
<1>5. \A i \in Legs : Share(F, i) \in Int
  <2> TAKE i \in Legs
  <2>1. CASE i = NumLegs
    BY <1>3, <1>4, <2>1 DEF Share
  <2>2. CASE i # NumLegs
    <3>1. i \in N
      BY <2>2, BlockAssumption DEF Legs
    <3> QED
      BY <1>2, <2>2, <3>1 DEF Share
  <2> QED
    BY <2>1, <2>2
<1> QED
  BY <1>3, <1>4, <1>5

-----------------------------------------------------------------------------
\* Leg i has been worked off, or not at all, with the quantity got.
WorkedOff(i) ==
  IF Share(got, i) > 0
    THEN leg[i].filled = Share(got, i) /\ trades[i] = Share(got, i)
    ELSE trades[i] = 0

Before == {"new", "legs", "enter", "check", "decide", "execute", "record", "read"}
Loop == {"leg", "publish", "finish"}

FillTypes ==
  /\ pct \in [Legs -> Int]
  /\ leg = [j \in Legs |-> leg[j]]
  /\ \A j \in Legs : DOMAIN leg[j] = {"state", "filled"}
  /\ DOMAIN alloc = {"state", "filled"}
  /\ order \in [placed : BOOLEAN, open : BOOLEAN, filled : 0..Total]
  /\ trades \in [Legs -> Int]
  /\ k \in Legs
  /\ pc \in Before \cup Loop \cup {"done"}
  /\ got \in Nat /\ got <= order.filled

\* The loop over the legs has published the shares of the legs behind it and
\* nothing else, and an allocation is marked after its last leg.
LoopInv ==
  /\ pc \in Before => \A i \in Legs : trades[i] = 0
  /\ pc \in Before \ {"record", "read"} => got = 0
  /\ pc \in Before \ {"legs", "check"} => k = 1
  /\ pc = "leg" => \A i \in Legs : IF i < k THEN WorkedOff(i) ELSE trades[i] = 0
  /\ pc = "publish" =>
       /\ Share(got, k) > 0 /\ leg[k].filled = Share(got, k)
       /\ \A i \in Legs : IF i < k THEN WorkedOff(i) ELSE trades[i] = 0
  /\ pc = "finish" => \A i \in Legs : WorkedOff(i)
  /\ alloc.state = "allocated" =>
       pc = "done" /\ alloc.filled = got /\ \A i \in Legs : WorkedOff(i)

\* Whatever failed, a leg got its share or nothing, of percentages that were let
\* through.
DrawInv ==
  /\ \A i \in Legs : trades[i] = 0 \/ (trades[i] = Share(got, i) /\ Share(got, i) > 0)
  /\ pc \notin {"new", "done"} => SumsToAll
  /\ (\E i \in Legs : trades[i] # 0) => SumsToAll

FillInv == FillTypes /\ LoopInv /\ DrawInv

\* Nothing is distributed before the request.
LEMMA InitFill == Init => FillInv
<1> SUFFICES ASSUME Init PROVE FillInv
  OBVIOUS
<1>1. FillTypes
  BY BlockAssumption DEF Init, FillTypes, Before, Legs
<1>2. LoopInv
  BY DEF Init, LoopInv, Before
<1>3. DrawInv
  BY DEF Init, DrawInv
<1> QED
  BY <1>1, <1>2, <1>3 DEF FillInv

\* The percentages of the request do not change.
LEMMA SharesKept ==
  ASSUME pct' = pct
  PROVE  /\ \A F, i : Share(F, i)' = Share(F, i)
         /\ SumsToAll' <=> SumsToAll
<1>1. \A F : Rounded(F)' = Rounded(F)
  BY DEF Rounded
<1>2. \A F, i : Share(F, i)' = Share(F, i)
  BY <1>1 DEF Share
<1>3. SumsToAll' <=> SumsToAll
  BY DEF SumsToAll, PctSum
<1> QED
  BY <1>2, <1>3

\* Rows that keep their form when the state of a leg is written.
LEMMA SetLegFill ==
  ASSUME FillTypes, NEW i, NEW s, SetLeg(i, s)
  PROVE  /\ leg' = [j \in Legs |-> leg'[j]]
         /\ \A j \in Legs : DOMAIN leg'[j] = {"state", "filled"}
         /\ \A j \in Legs : leg'[j].filled = leg[j].filled
<1>1. leg' = [j \in Legs |-> IF j = i THEN [leg[i] EXCEPT !.state = s] ELSE leg[j]]
  BY DEF SetLeg, FillTypes
<1>2. ASSUME NEW j \in Legs
      PROVE  DOMAIN leg'[j] = {"state", "filled"} /\ leg'[j].filled = leg[j].filled
  <2>1. CASE j = i
    BY <1>1, <2>1 DEF FillTypes
  <2>2. CASE j # i
    BY <1>1, <2>2 DEF FillTypes
  <2> QED
    BY <2>1, <2>2
<1> QED
  BY <1>1, <1>2

\* Steps before the loop over the legs.
LEMMA BeforeStep ==
  ASSUME FillInv, pc \in Before, UNCHANGED <<pct, trades, got>>,
         leg' = [j \in Legs |-> leg'[j]],
         \A j \in Legs : DOMAIN leg'[j] = {"state", "filled"},
         DOMAIN alloc' = {"state", "filled"}, alloc'.state # "allocated",
         order' \in [placed : BOOLEAN, open : BOOLEAN, filled : 0..Total],
         got <= order'.filled, k' \in Legs,
         pc' \in Before \cup {"done"},
         pc' \in Before \ {"legs", "check"} => k' = 1,
         pc' \in Before \ {"record", "read"} => pc \notin {"record", "read"},
         pc' \notin {"new", "done"} => SumsToAll
  PROVE  FillInv'
<1>1. FillTypes'
  BY DEF FillInv, FillTypes
<1>2. \A i \in Legs : trades'[i] = 0
  BY DEF FillInv, LoopInv
<1>3. LoopInv'
  BY <1>2 DEF FillInv, LoopInv, Before
<1>4. DrawInv'
  <2>1. SumsToAll' <=> SumsToAll
    BY SharesKept
  <2> QED
    BY <1>2, <2>1 DEF DrawInv
<1> QED
  BY <1>1, <1>3, <1>4 DEF FillInv

\* create_block_allocation up to the loop over the legs.
LEMMA PrepareFill ==
  ASSUME FillInv,
         \/ Refuse \/ InsertAllocation \/ InsertLeg \/ EnterCompliance
         \/ \E ok \in BOOLEAN : CheckLeg(ok)
         \/ Decide
         \/ \E filled \in 0..Total, open, cancelled \in BOOLEAN :
              Execute(filled, open, cancelled)
         \/ RecordOrder
  PROVE  FillInv'
<1> USE BlockAssumption
<1>1. /\ pc \in {"new", "legs", "enter", "check", "decide", "execute", "record"}
      /\ pc \in Before /\ UNCHANGED <<pct, trades, got>>
      /\ pc # "new" => SumsToAll
  <2>1. /\ pc \in {"new", "legs", "enter", "check", "decide", "execute", "record"}
        /\ UNCHANGED <<pct, trades, got>>
    BY DEF Refuse, InsertAllocation, InsertLeg, EnterCompliance, CheckLeg, Decide, Execute,
           RecordOrder
  <2> QED
    BY <2>1 DEF Before, FillInv, DrawInv
<1>2. FillTypes /\ k \in Legs
  BY DEF FillInv, FillTypes
<1>3. /\ leg' = [j \in Legs |-> leg'[j]]
      /\ \A j \in Legs : DOMAIN leg'[j] = {"state", "filled"}
  <2>1. leg' = leg \/ \E i, s : SetLeg(i, s)
    BY DEF Refuse, InsertAllocation, InsertLeg, EnterCompliance, CheckLeg, Decide, Execute,
           RecordOrder
  <2>2. CASE leg' = leg
    BY <1>2, <2>2 DEF FillTypes
  <2>3. ASSUME NEW i, NEW s, SetLeg(i, s)
        PROVE  /\ leg' = [j \in Legs |-> leg'[j]]
               /\ \A j \in Legs : DOMAIN leg'[j] = {"state", "filled"}
    BY <1>2, <2>3, SetLegFill
  <2> QED
    BY <2>1, <2>2, <2>3
<1>4. DOMAIN alloc' = {"state", "filled"} /\ alloc'.state # "allocated"
  <2>1. \/ alloc' = alloc
        \/ \E s \in {"draft", "pending_compliance", "approved", "rejected", "executing"} :
             alloc' = [alloc EXCEPT !.state = s]
    BY DEF Refuse, InsertAllocation, InsertLeg, EnterCompliance, CheckLeg, Decide, Execute,
           RecordOrder, SetState
  <2>2. DOMAIN alloc = {"state", "filled"} /\ alloc.state # "allocated"
    BY <1>1 DEF FillInv, FillTypes, LoopInv
  <2> QED
    BY <2>1, <2>2
<1>5. /\ order' \in [placed : BOOLEAN, open : BOOLEAN, filled : 0..Total]
      /\ got <= order'.filled
  <2>1. CASE order' = order
    BY <1>2, <2>1 DEF FillTypes
  <2>2. ASSUME NEW filled \in 0..Total, NEW open \in BOOLEAN, NEW cancelled \in BOOLEAN,
               Execute(filled, open, cancelled)
        PROVE  /\ order' \in [placed : BOOLEAN, open : BOOLEAN, filled : 0..Total]
               /\ got <= order'.filled
    <3>1. order' = [placed |-> TRUE, open |-> open, filled |-> filled] /\ pc = "execute"
      BY <2>2 DEF Execute
    <3>2. got = 0
      BY <3>1 DEF FillInv, LoopInv, Before
    <3> QED
      BY <3>1, <3>2
  <2> QED
    BY <2>1, <2>2 DEF Refuse, InsertAllocation, InsertLeg, EnterCompliance, CheckLeg, Decide,
                      RecordOrder
<1>6. /\ k' \in Legs /\ pc' \in Before \cup {"done"}
      /\ pc' \in Before \ {"legs", "check"} => k' = 1
      /\ pc' \in Before \ {"record", "read"} => pc \notin {"record", "read"}
  <2>1. pc \in {"new", "enter", "decide", "execute", "record"} => k = 1
    BY DEF FillInv, LoopInv, Before
  <2>2. CASE Refuse \/ InsertAllocation \/ EnterCompliance \/ Decide \/ RecordOrder
    BY <1>2, <2>1, <2>2 DEF Refuse, InsertAllocation, EnterCompliance, Decide, RecordOrder, Before
  <2>3. CASE InsertLeg
    BY <1>2, <2>3 DEF InsertLeg, NextLeg, Legs, Before
  <2>4. ASSUME NEW ok \in BOOLEAN, CheckLeg(ok)
        PROVE  /\ k' \in Legs /\ pc' \in {"check", "decide"}
               /\ pc' = "decide" => k' = 1
               /\ pc = "check"
    BY <1>2, <2>4 DEF CheckLeg, NextLeg, Legs
  <2>5. ASSUME NEW filled \in 0..Total, NEW open \in BOOLEAN, NEW cancelled \in BOOLEAN,
               Execute(filled, open, cancelled)
        PROVE  k' = k /\ pc = "execute" /\ pc' = "record"
    BY <2>5 DEF Execute
  <2>6. CASE \E ok \in BOOLEAN : CheckLeg(ok)
    BY <2>4, <2>6 DEF Before
  <2>7. CASE \E filled \in 0..Total, open, cancelled \in BOOLEAN :
               Execute(filled, open, cancelled)
    BY <1>2, <2>1, <2>5, <2>7 DEF Before
  <2> QED
    BY <2>2, <2>3, <2>6, <2>7
<1>7. pc' \notin {"new", "done"} => SumsToAll
  <2>1. CASE pc = "new"
    BY <2>1 DEF Refuse, InsertAllocation, InsertLeg, EnterCompliance, CheckLeg, Decide, Execute,
                RecordOrder
  <2> QED
    BY <1>1, <2>1
<1> QED
  BY <1>1, <1>3, <1>4, <1>5, <1>6, <1>7, BeforeStep

\* Steps that leave the legs' quantities alone, after the loop or within it.
LEMMA SettledFill ==
  ASSUME FillInv, UNCHANGED <<pct, trades, got>>,
         leg' = [j \in Legs |-> leg'[j]],
         \A j \in Legs : DOMAIN leg'[j] = {"state", "filled"} /\ leg'[j].filled = leg[j].filled,
         DOMAIN alloc' = {"state", "filled"},
         alloc' = alloc \/ alloc'.state # "allocated",
         order' \in [placed : BOOLEAN, open : BOOLEAN, filled : 0..Total],
         got <= order'.filled, k' = k, pc' = pc \/ pc' = "done"
  PROVE  FillInv'
<1>1. FillTypes'
  BY DEF FillInv, FillTypes
<1>2. \A F, i : Share(F, i)' = Share(F, i)
  BY SharesKept
<1>3. \A i \in Legs : Share(got, i)' = Share(got, i)
  BY <1>2
<1>4. \A i \in Legs : WorkedOff(i)' <=> WorkedOff(i)
  BY <1>3 DEF WorkedOff
<1>5. k \in Legs
  BY DEF FillInv, FillTypes
<1>6. Share(got, k)' = Share(got, k) /\ leg'[k'].filled = leg[k].filled
  BY <1>3, <1>5
<1>7. LoopInv'
  BY <1>4, <1>5, <1>6 DEF FillInv, LoopInv, Before
<1>8. DrawInv'
  <2>1. SumsToAll' <=> SumsToAll
    BY SharesKept
  <2> QED
    BY <1>3, <2>1 DEF FillInv, DrawInv
<1> QED
  BY <1>1, <1>7, <1>8 DEF FillInv

\* allocate_fills reads the quantity that it distributes.
LEMMA ReadFillsFill ==
  ASSUME FillInv, ReadFills
  PROVE  FillInv'
<1>1. /\ pc = "read" /\ pc' = "leg" /\ got' = order.filled
      /\ UNCHANGED <<pct, alloc, leg, order, trades, k>>
  BY DEF ReadFills
<1>2. /\ \A i \in Legs : trades[i] = 0
      /\ k = 1 /\ alloc.state # "allocated" /\ SumsToAll
  BY <1>1 DEF FillInv, LoopInv, DrawInv, Before
<1>3. order.filled \in Nat
  BY BlockAssumption DEF FillInv, FillTypes
<1>4. FillTypes'
  BY <1>1, <1>3 DEF FillInv, FillTypes, Loop
<1>5. LoopInv'
  BY <1>1, <1>2, BlockAssumption DEF LoopInv, Before, Legs
<1>6. DrawInv'
  <2>1. SumsToAll'
    BY <1>1, <1>2, SharesKept
  <2> QED
    BY <1>1, <1>2, <2>1 DEF DrawInv
<1> QED
  BY <1>4, <1>5, <1>6 DEF FillInv

\* A leg is worked off, and the loop goes on with the next.
LEMMA NextLegFill ==
  ASSUME FillInv, pc \in {"leg", "publish"}, UNCHANGED <<pct, alloc, leg, order, got>>,
         NextLeg("leg", "finish"),
         trades' \in [Legs -> Int],
         \A i \in Legs \ {k} : trades'[i] = trades[i],
         IF Share(got, k) > 0
           THEN leg[k].filled = Share(got, k) /\ trades'[k] = Share(got, k)
           ELSE trades'[k] = 0
  PROVE  FillInv'
<1> USE BlockAssumption DEF Legs
<1>1. /\ FillTypes /\ k \in Legs /\ alloc.state # "allocated" /\ SumsToAll
      /\ \A i \in Legs : IF i < k THEN WorkedOff(i) ELSE trades[i] = 0
  BY DEF FillInv, FillTypes, LoopInv, DrawInv
<1>2. /\ k' \in Legs /\ pc' \in {"leg", "finish"}
      /\ pc' = "leg" => k' = k + 1
      /\ pc' = "finish" => k = NumLegs
  BY <1>1 DEF NextLeg
<1>3. FillTypes'
  BY <1>1, <1>2 DEF FillTypes, Loop
<1>4. \A F, i : Share(F, i)' = Share(F, i)
  BY SharesKept
<1>5. \A i \in Legs : Share(got, i)' = Share(got, i)
  BY <1>4
<1>6. ASSUME NEW i \in Legs, i <= k PROVE WorkedOff(i)'
  <2>1. CASE i = k
    BY <1>5, <2>1 DEF WorkedOff
  <2>2. CASE i # k
    <3>1. WorkedOff(i) /\ trades'[i] = trades[i]
      BY <1>1, <1>6, <2>2
    <3> QED
      BY <1>5, <3>1 DEF WorkedOff
  <2> QED
    BY <2>1, <2>2
<1>7. \A i \in Legs : i > k => trades'[i] = 0
  BY <1>1
<1>8. LoopInv'
  <2>1. pc' = "leg" => \A i \in Legs : IF i < k' THEN WorkedOff(i)' ELSE trades'[i] = 0
    BY <1>1, <1>2, <1>6, <1>7
  <2>2. pc' = "finish" => \A i \in Legs : WorkedOff(i)'
    BY <1>2, <1>6
  <2> QED
    BY <1>1, <1>2, <2>1, <2>2 DEF LoopInv, Before
<1>9. DrawInv'
  <2>1. SumsToAll'
    BY <1>1, SharesKept
  <2>2. \A i \in Legs : trades'[i] = 0 \/ (trades'[i] = Share(got, i)' /\ Share(got, i)' > 0)
    <3> TAKE i \in Legs
    <3>1. CASE i = k
      BY <1>5, <3>1
    <3>2. CASE i # k
      BY <1>5, <3>2 DEF FillInv, DrawInv
    <3> QED
      BY <3>1, <3>2
  <2> QED
    BY <2>1, <2>2 DEF DrawInv
<1> QED
  BY <1>3, <1>8, <1>9 DEF FillInv

\* The row of a leg gets its share, which is published next.
LEMMA UpdateLegFill ==
  ASSUME FillInv, UpdateLeg
  PROVE  FillInv'
<1> DEFINE new == [state |-> "allocated", filled |-> Share(got, k)]
<1>1. /\ pc = "leg" /\ pc' = "publish" /\ Share(got, k) > 0
      /\ leg' = [leg EXCEPT ![k] = new]
      /\ UNCHANGED <<pct, alloc, order, trades, k, got>>
  BY DEF UpdateLeg
<1>2. DOMAIN new = {"state", "filled"} /\ new.filled = Share(got, k)
  OBVIOUS
<1> HIDE DEF new
<1>3. /\ FillTypes /\ k \in Legs /\ alloc.state # "allocated" /\ SumsToAll
      /\ \A i \in Legs : IF i < k THEN WorkedOff(i) ELSE trades[i] = 0
      /\ \A i \in Legs : i \in Int
  BY <1>1 DEF FillInv, FillTypes, LoopInv, DrawInv, Legs
<1>4. leg' = [j \in Legs |-> IF j = k THEN new ELSE leg[j]]
  BY <1>1, <1>3 DEF FillTypes
<1>5. FillTypes'
  BY <1>1, <1>2, <1>3, <1>4 DEF FillTypes, Loop
<1>6. \A F, i : Share(F, i)' = Share(F, i)
  BY <1>1, SharesKept
<1>7. \A i \in Legs : Share(got, i)' = Share(got, i)
  BY <1>1, <1>6
<1>8. ASSUME NEW i \in Legs, i < k PROVE WorkedOff(i)'
  <2>1. WorkedOff(i) /\ leg'[i] = leg[i]
    BY <1>3, <1>4, <1>8
  <2> QED
    BY <1>1, <1>7, <2>1 DEF WorkedOff
<1>9. LoopInv'
  <2>1. Share(got, k)' > 0 /\ leg'[k'].filled = Share(got, k)'
    BY <1>1, <1>2, <1>3, <1>4, <1>7
  <2>2. \A i \in Legs : IF i < k' THEN WorkedOff(i)' ELSE trades'[i] = 0
    BY <1>1, <1>3, <1>8
  <2> QED
    BY <1>1, <1>3, <2>1, <2>2 DEF LoopInv, Before
<1>10. DrawInv'
  <2>1. SumsToAll' <=> SumsToAll
    BY <1>1, SharesKept
  <2> QED
    BY <1>1, <1>3, <1>7, <2>1 DEF FillInv, DrawInv
<1> QED
  BY <1>5, <1>9, <1>10 DEF FillInv

\* The loop, and the mark that ends it.
LEMMA LoopFill ==
  ASSUME FillInv, SkipLeg \/ UpdateLeg \/ PublishLeg \/ Finish
  PROVE  FillInv'
<1>1. /\ trades \in [Legs -> Int] /\ k \in Legs /\ got \in Nat
      /\ pct \in [Legs -> Int]
      /\ \A i \in Legs : i \in Int
  BY DEF FillInv, FillTypes, Legs
<1>2. \A i \in Legs : Share(got, i) \in Int
  BY <1>1, SharesInt
<1>3. CASE SkipLeg
  <2>1. /\ pc = "leg" /\ Share(got, k) <= 0 /\ NextLeg("leg", "finish")
        /\ UNCHANGED <<pct, alloc, leg, order, trades, got>>
    BY <1>3 DEF SkipLeg
  <2>2. ~(Share(got, k) > 0)
    BY <1>1, <1>2, <2>1
  <2>3. trades[k] = 0
    BY <1>1, <2>1 DEF FillInv, LoopInv
  <2> QED
    BY <1>1, <2>1, <2>2, <2>3, NextLegFill
<1>4. CASE UpdateLeg
  BY <1>4, UpdateLegFill
<1>5. CASE PublishLeg
  <2>1. /\ pc = "publish" /\ NextLeg("leg", "finish")
        /\ trades' = [trades EXCEPT ![k] = @ + Share(got, k)]
        /\ UNCHANGED <<pct, alloc, leg, order, got>>
    BY <1>5 DEF PublishLeg
  <2>2. /\ trades[k] = 0 /\ Share(got, k) > 0 /\ leg[k].filled = Share(got, k)
    BY <1>1, <2>1 DEF FillInv, LoopInv
  <2>3. /\ trades' \in [Legs -> Int] /\ trades'[k] = Share(got, k)
        /\ \A i \in Legs \ {k} : trades'[i] = trades[i]
    BY <1>1, <1>2, <2>1, <2>2
  <2> QED
    BY <2>1, <2>2, <2>3, NextLegFill
<1>6. CASE Finish
  <2>1. /\ pc = "finish" /\ pc' = "done"
        /\ alloc' = [state |-> "allocated", filled |-> got]
        /\ UNCHANGED <<pct, leg, order, trades, k, got>>
    BY <1>6 DEF Finish
  <2>2. FillTypes'
    BY <2>1 DEF FillInv, FillTypes
  <2>3. \A F, i : Share(F, i)' = Share(F, i)
    BY <2>1, SharesKept
  <2>4. \A i \in Legs : Share(got, i)' = Share(got, i)
    BY <2>1, <2>3
  <2>5. \A i \in Legs : WorkedOff(i)'
    BY <2>1, <2>4 DEF FillInv, LoopInv, WorkedOff
  <2>6. LoopInv'
    BY <2>1, <2>5 DEF LoopInv, Before
  <2>7. DrawInv'
    <3>1. SumsToAll' <=> SumsToAll
      BY <2>1, SharesKept
    <3> QED
      BY <2>1, <2>4, <3>1 DEF FillInv, DrawInv
  <2> QED
    BY <2>2, <2>6, <2>7 DEF FillInv
<1> QED
  BY <1>3, <1>4, <1>5, <1>6

\* Fills, cancel requests and failures take no share away.
LEMMA OtherFill ==
  ASSUME FillInv,
         \/ \E filled \in 0..Total : OrderFills(filled)
         \/ \E c \in Cancels : Cancel(c) \/ CancelFails(c)
         \/ CreateFails
  PROVE  FillInv'
<1>1. FillTypes
  BY DEF FillInv
<1>2. UNCHANGED <<pct, trades, got, k>> /\ (pc' = pc \/ pc' = "done")
  BY DEF OrderFills, Cancel, CancelRead, CancelOrder, CancelReadLegs, CancelLeg, CancelWrite,
         CancelFails, CreateFails, creator
<1>3. /\ leg' = [j \in Legs |-> leg'[j]]
      /\ \A j \in Legs : DOMAIN leg'[j] = {"state", "filled"} /\ leg'[j].filled = leg[j].filled
  <2>1. leg' = leg \/ \E i, s : SetLeg(i, s)
    BY DEF OrderFills, Cancel, CancelRead, CancelOrder, CancelReadLegs, CancelLeg, CancelWrite,
           CancelFails, CreateFails
  <2>2. CASE leg' = leg
    BY <1>1, <2>2 DEF FillTypes
  <2>3. ASSUME NEW i, NEW s, SetLeg(i, s)
        PROVE  /\ leg' = [j \in Legs |-> leg'[j]]
               /\ \A j \in Legs : DOMAIN leg'[j] = {"state", "filled"} /\ leg'[j].filled = leg[j].filled
    BY <1>1, <2>3, SetLegFill
  <2> QED
    BY <2>1, <2>2, <2>3
<1>4. /\ DOMAIN alloc' = {"state", "filled"}
      /\ alloc' = alloc \/ alloc'.state # "allocated"
  <2>1. alloc' = alloc \/ alloc' = [alloc EXCEPT !.state = "cancelled"]
    BY DEF OrderFills, Cancel, CancelRead, CancelOrder, CancelReadLegs, CancelLeg, CancelWrite,
           CancelFails, CreateFails, SetState
  <2> QED
    BY <1>1, <2>1 DEF FillTypes
<1>5. /\ order' \in [placed : BOOLEAN, open : BOOLEAN, filled : 0..Total]
      /\ got <= order'.filled
  <2>0. order \in [placed : BOOLEAN, open : BOOLEAN, filled : 0..Total] /\ got <= order.filled /\ got \in Nat
    BY <1>1 DEF FillTypes
  <2>1. CASE order' = order
    BY <2>0, <2>1
  <2>2. ASSUME NEW filled \in 0..Total, OrderFills(filled)
        PROVE  /\ order' \in [placed : BOOLEAN, open : BOOLEAN, filled : 0..Total]
               /\ got <= order'.filled
    <3>1. /\ filled > order.filled
          /\ order' = [order EXCEPT !.filled = filled, !.open = filled < Total]
      BY <2>2 DEF OrderFills
    <3>2. (filled < Total) \in BOOLEAN
      OBVIOUS
    <3>3. order' \in [placed : BOOLEAN, open : BOOLEAN, filled : 0..Total] /\ order'.filled = filled
      BY <2>0, <3>1, <3>2
    <3>4. order.filled \in Int /\ filled \in Int
      BY <2>0, BlockAssumption
    <3> QED
      BY <2>0, <3>1, <3>3, <3>4
  <2>3. ASSUME NEW c \in Cancels, NEW closes \in BOOLEAN, CancelOrder(c, closes)
        PROVE  /\ order' \in [placed : BOOLEAN, open : BOOLEAN, filled : 0..Total]
               /\ got <= order'.filled
    <3>1. order' = [order EXCEPT !.open = order.open /\ ~closes]
      BY <2>3 DEF CancelOrder
    <3>2. (order.open /\ ~closes) \in BOOLEAN
      OBVIOUS
    <3> QED
      BY <2>0, <3>1, <3>2
  <2> QED
    BY <2>1, <2>2, <2>3 DEF Cancel, CancelRead, CancelReadLegs, CancelLeg, CancelWrite,
                            CancelFails, CreateFails
<1> QED
  BY <1>2, <1>3, <1>4, <1>5, SettledFill

\* The invariant holds in every reachable state.
LEMMA FillAlways == Spec => []FillInv
<1>1. FillInv /\ [Next]_vars => FillInv'
  <2> SUFFICES ASSUME FillInv, [Next]_vars PROVE FillInv'
    OBVIOUS
  <2>1. CASE Create
    BY <2>1, PrepareFill, ReadFillsFill, LoopFill DEF Create
  <2>2. CASE UNCHANGED vars
    <3>1. UNCHANGED <<pct, trades, got, leg, alloc, order, k, pc>>
      BY <2>2 DEF vars, creator
    <3> QED
      BY <3>1, SettledFill DEF FillInv, FillTypes
  <2>3. CASE Next /\ ~Create
    BY <2>3, OtherFill DEF Next
  <2> QED
    BY <2>1, <2>2, <2>3
<1> QED
  BY InitFill, <1>1, PTL DEF Spec

(* allocate_fills marks the allocation after its last leg: whatever failed *)
(* or was cancelled meanwhile, an allocation that says ALLOCATED has given *)
(* every leg its share of the quantity in its row and published just that. *)
THEOREM MarkedIsComplete == Spec => []AllocatedIsComplete
<1>1. FillInv => AllocatedIsComplete
  BY DEF FillInv, FillTypes, LoopInv, WorkedOff, AllocatedIsComplete
<1> QED
  BY <1>1, FillAlways, PTL

\* With natural numbers, what holds for the distributed quantity holds for more.
LEMMA BoundGrows ==
  ASSUME NEW A \in Nat, NEW B \in Nat, NEW C \in Nat, NEW S \in Int, NEW F \in Nat, NEW G \in Nat,
         F <= G, A * (S - F) <= F * B + C
  PROVE  A * (S - G) <= G * B + C
<1> DEFINE d == G - F
<1>1. d \in Nat /\ G = F + d
  OBVIOUS
<1> HIDE DEF d
<1>2. A * (S - G) = A * (S - F) - A * d
  <2>1. S - G = (S - F) - d
    BY <1>1
  <2>2. A * ((S - F) - d) = A * (S - F) - A * d
    BY <1>1
  <2> QED
    BY <2>1, <2>2
<1>3. G * B = F * B + d * B
  BY <1>1
<1>4. A * d \in Nat /\ d * B \in Nat /\ A * (S - F) \in Int /\ F * B \in Nat
  BY <1>1
<1> QED
  BY <1>2, <1>3, <1>4

\* The negative percentages count as much as the legs are asked for beyond their
\* sum.
LEMMA SumAsked ==
  ASSUME pct \in [Legs -> Int], NEW N, N \subseteq Legs
  PROVE  /\ SumFunction(Below) \in Nat
         /\ SumFunctionOnSet(Below, N) \in Nat /\ SumFunctionOnSet(Below, N) <= SumFunction(Below)
         /\ SumFunctionOnSet(Asked, N) \in Nat
         /\ SumFunctionOnSet(Asked, N) <= PctSum + SumFunction(Below)
<1>1. IsFiniteSet(Legs)
  BY FS_Interval, BlockAssumption DEF Legs
<1>2. IsFiniteSet(N)
  BY <1>1, FS_Subset
<1>3. \A i \in Legs : Asked[i] \in Nat /\ Below[i] \in Nat /\ pct[i] = Asked[i] - Below[i]
  BY AskedBelow
<1>4. /\ SumFunction(Below) = SumFunctionOnSet(Below, Legs)
      /\ PctSum = SumFunctionOnSet(pct, Legs)
  BY DEF SumFunction, PctSum, Below
<1>5. SumFunctionOnSet(pct, Legs) = SumFunctionOnSet(Asked, Legs) - SumFunctionOnSet(Below, Legs)
  <2>1. \A i \in Legs : Asked[i] \in Int /\ Below[i] \in Int /\ pct[i] = Asked[i] - Below[i]
    BY <1>3
  <2> QED
    BY <1>1, <2>1, SumMinus
<1>6. SumFunctionOnSet(Asked, Legs) \in Nat /\ SumFunctionOnSet(Below, Legs) \in Nat
  BY <1>1, <1>3, SumNat
<1>7. SumFunctionOnSet(Asked, N) \in Nat /\ SumFunctionOnSet(Below, N) \in Nat
  BY <1>2, <1>3, SumNat
<1>8. /\ SumFunctionOnSet(Asked, N) <= SumFunctionOnSet(Asked, Legs)
      /\ SumFunctionOnSet(Below, N) <= SumFunctionOnSet(Below, Legs)
  BY <1>1, <1>3, SumSubset
<1> QED
  BY <1>4, <1>5, <1>6, <1>7, <1>8

\* The terms of a difference add up to it.
LEMMA SumGap ==
  ASSUME NEW f, NEW g, NEW S, IsFiniteSet(S), \A x \in S : f[x] \in Int /\ g[x] \in Int
  PROVE  SumFunctionOnSet([x \in S |-> f[x] - g[x]], S)
           = SumFunctionOnSet(f, S) - SumFunctionOnSet(g, S)
<1> DEFINE h == [x \in S |-> f[x] - g[x]]
<1>1. \A x \in S : f[x] \in Int /\ g[x] \in Int /\ h[x] = f[x] - g[x]
  OBVIOUS
<1> HIDE DEF h
<1>2. SumFunctionOnSet(h, S) = SumFunctionOnSet(f, S) - SumFunctionOnSet(g, S)
  BY <1>1, SumMinus
<1> QED
  BY <1>2 DEF h

\* A bound with the right factors.
LEMMA BoundOf ==
  ASSUME NEW F \in Nat, NEW n \in Nat, NEW X \in Nat, NEW Y \in Nat, NEW b \in Nat, X <= Y
  PROVE  F * X + (F + b) * n <= F * (Y + n) + b * n
<1>1. F * X <= F * Y
  <2>1. ASSUME NEW a \in Nat, NEW y \in Nat, NEW z \in Nat, y <= z PROVE a * y <= a * z
    BY <2>1
  <2> QED
    BY <2>1
<1>2. (F + b) * n = F * n + b * n /\ F * (Y + n) = F * Y + F * n
  OBVIOUS
<1>3. F * X \in Int /\ F * Y \in Int /\ F * n \in Int /\ b * n \in Int
  OBVIOUS
<1> QED
  BY <1>1, <1>2, <1>3

\* What was published of the quantity got.
LEMMA Published ==
  ASSUME FillInv
  PROVE  DistributionBounded
<1> USE BlockAssumption
<1> DEFINE N == 1..NumLegs - 1
           n == NumLegs - 1
           R == SumFunctionOnSet(Rounded(got), N)
           T == SumFunctionOnSet(trades, N)
           A == SumFunctionOnSet(Asked, N)
           B == SumFunctionOnSet(Below, N)
           W == SumFunction(Below)
           G == order.filled
           S == SumFunction(trades)
<1>1. /\ pct \in [Legs -> Int] /\ trades \in [Legs -> Int]
      /\ got \in Nat /\ G \in Nat /\ got <= G
  BY DEF FillInv, FillTypes
<1>2. /\ n \in Nat /\ Legs = N \cup {NumLegs} /\ NumLegs \notin N /\ NumLegs \in Legs
      /\ IsFiniteSet(N) /\ Cardinality(N) = n
  <2>1. n \in Nat /\ Legs = N \cup {NumLegs} /\ NumLegs \notin N /\ NumLegs \in Legs
    BY DEF Legs
  <2>2. IsFiniteSet(N)
    BY FS_Interval
  <2>3. Cardinality(N) = n
    BY FS_Interval
  <2> QED
    BY <2>1, <2>2, <2>3
<1>3. S = trades[NumLegs] + T /\ T \in Int
  <2>1. S = SumFunctionOnSet(trades, Legs)
    BY <1>1 DEF SumFunction
  <2>2. \A i \in N \cup {NumLegs} : trades[i] \in Int
    BY <1>1, <1>2
  <2> HIDE DEF N
  <2>3. SumFunctionOnSet(trades, N \cup {NumLegs}) = trades[NumLegs] + T
    BY <1>2, <2>2, SumAdd
  <2>4. T \in Int
    BY <1>2, <2>2, SumInt
  <2> QED
    BY <1>2, <2>1, <2>3, <2>4
<1>4. S \in Int
  BY <1>1, <1>2, <1>3
<1>5. R \in Int /\ Share(got, NumLegs) = got - R
  <2>1. SumFunction(Rounded(got)) = R /\ R \in Int
    BY <1>1, SharesInt
  <2> HIDE DEF R, N
  <2> QED
    BY <2>1 DEF Share
<1>6. /\ W \in Nat /\ A \in Nat /\ B \in Nat /\ B <= W
      /\ A <= PctSum + W
  <2>1. N \subseteq Legs
    BY <1>2
  <2> HIDE DEF N
  <2> QED
    BY <1>1, <2>1, SumAsked
<1>7. ASSUME NEW i \in N
      PROVE  /\ trades[i] \in Int /\ Rounded(got)[i] \in Int
             /\ Asked[i] \in Nat /\ Below[i] \in Nat
             /\ trades[i] = 0 \/ trades[i] = Rounded(got)[i]
             /\ 2 * Scale * Rounded(got)[i] <= got * Asked[i] + (got + Scale)
             /\ 2 * Scale * (0 - Rounded(got)[i]) <= got * Below[i] + (got + Scale)
  <2>1. i \in Legs /\ i # NumLegs
    BY <1>2
  <2>2. Share(got, i) = Rounded(got)[i]
    BY <2>1 DEF Share
  <2>3. trades[i] = 0 \/ trades[i] = Share(got, i)
    BY <2>1 DEF FillInv, DrawInv
  <2>4. Asked[i] \in Nat /\ Below[i] \in Nat
    BY <1>1, <2>1, AskedBelow
  <2> QED
    BY <1>1, <2>1, <2>2, <2>3, <2>4, LegBound
<1>8. /\ 2 * Scale \in Nat /\ got + Scale \in Nat /\ Scale * n \in Nat
      /\ Tolerance + n + W \in Nat
  BY <1>1, <1>2, <1>6
<1>9. \A i \in N : got * Asked[i] + (got + Scale) \in Nat /\ got * Below[i] + (got + Scale) \in Nat
  BY <1>1, <1>7, <1>8
<1>10. \A z \in Int : 2 * Scale * z \in Int
  BY <1>8
<1>11. 2 * Scale * T <= got * A + (got + Scale) * n
  <2>1. \A i \in N : /\ trades[i] \in Int /\ Asked[i] \in Int
                     /\ (2 * Scale) * trades[i] <= got * Asked[i] + (got + Scale)
    <3> TAKE i \in N
    <3>1. CASE trades[i] = 0
      <4>1. 2 * Scale * 0 = 0
        BY <1>8
      <4> QED
        BY <1>7, <1>9, <3>1, <4>1
    <3>2. CASE trades[i] = Rounded(got)[i]
      BY <1>7, <3>2
    <3> QED
      BY <1>7, <3>1, <3>2
  <2> HIDE DEF N, n
  <2> QED
    BY <1>1, <1>2, <1>8, <2>1, SumLinear
<1>12. 2 * Scale * (T - R) <= got * B + (got + Scale) * n
  <2> DEFINE h == [i \in N |-> trades[i] - Rounded(got)[i]]
  <2>1. \A i \in N : h[i] = trades[i] - Rounded(got)[i]
    OBVIOUS
  <2> HIDE DEF h
  <2>2. \A i \in N : /\ h[i] \in Int /\ Below[i] \in Int
                     /\ (2 * Scale) * h[i] <= got * Below[i] + (got + Scale)
    <3> TAKE i \in N
    <3>1. CASE trades[i] = 0
      <4>1. h[i] = 0 - Rounded(got)[i]
        BY <2>1, <3>1
      <4> QED
        BY <1>7, <4>1
    <3>2. CASE trades[i] = Rounded(got)[i]
      <4>1. h[i] = 0
        BY <1>7, <2>1, <3>2
      <4>2. 2 * Scale * 0 = 0
        BY <1>8
      <4> QED
        BY <1>7, <1>9, <4>1, <4>2
    <3> QED
      BY <1>7, <3>1, <3>2
  <2> HIDE DEF N, n
  <2>3. \A i \in N : trades[i] \in Int /\ Rounded(got)[i] \in Int
    BY <1>7
  <2>4. SumFunctionOnSet(h, N) = T - R
    <3>1. IsFiniteSet(N)
      BY <1>2
    <3>2. ASSUME NEW f, NEW g, \A i \in N : f[i] \in Int /\ g[i] \in Int
          PROVE  SumFunctionOnSet([i \in N |-> f[i] - g[i]], N)
                   = SumFunctionOnSet(f, N) - SumFunctionOnSet(g, N)
      BY <3>1, <3>2, SumGap
    <3>3. SumFunctionOnSet([i \in N |-> trades[i] - Rounded(got)[i]], N)
            = SumFunctionOnSet(trades, N) - SumFunctionOnSet(Rounded(got), N)
      BY <2>3, <3>2, Zenon
    <3> QED
      BY <3>3 DEF h
  <2>5. 2 * Scale * SumFunctionOnSet(h, N) <= got * B + (got + Scale) * n
    BY <1>1, <1>2, <1>8, <2>2, SumLinear
  <2> QED
    BY <2>4, <2>5
<1>13. trades[NumLegs] = 0 \/ trades[NumLegs] = got - R
  BY <1>2, <1>5 DEF FillInv, DrawInv
<1>14. (\A i \in Legs : trades[i] = 0) => S = 0
  <2>1. (\A i \in Legs : trades[i] = 0) => \A i \in N : trades[i] = 0
    BY <1>2
  <2> HIDE DEF N
  <2>2. (\A i \in N : trades[i] = 0) => T = 0
    BY <1>2, SumZero
  <2> HIDE DEF S, T
  <2> QED
    BY <1>2, <1>3, <2>1, <2>2
<1>15. (\E i \in Legs : trades[i] # 0) => PctSum - 2 * Scale <= Tolerance
  BY DEF FillInv, DrawInv, SumsToAll
<1>16. PctSum \in Int
  <2>1. IsFiniteSet(Legs)
    BY FS_Interval DEF Legs
  <2>2. PctSum = SumFunctionOnSet(pct, Legs)
    BY <1>1 DEF PctSum, SumFunction
  <2> QED
    BY <1>1, <2>1, <2>2, SumInt
<1> HIDE DEF S, R, T, A, B, W, N, n, G
<1>17. 2 * Scale * (S - got) <= got * (Tolerance + n + W) + Scale * n
  <2>1. got * (Tolerance + n + W) + Scale * n \in Nat
    BY <1>1, <1>8
  <2>2. CASE \A i \in Legs : trades[i] = 0
    <3>1. S - got <= 0 /\ S - got \in Int
      BY <1>1, <1>14, <2>2
    <3>2. ASSUME NEW a \in Nat, NEW z \in Int, z <= 0 PROVE a * z <= 0
      BY <3>2
    <3>3. 2 * Scale * (S - got) <= 0
      BY <1>8, <3>1, <3>2
    <3> QED
      BY <1>10, <2>1, <3>1, <3>3
  <2>3. CASE (\E i \in Legs : trades[i] # 0) /\ trades[NumLegs] = 0
    <3>1. S = T
      BY <1>3, <1>4, <2>3
    <3> DEFINE Y == 2 * Scale + Tolerance + W
    <3>2. Y \in Nat /\ A <= Y
      BY <1>6, <1>8, <1>15, <1>16, <2>3
    <3> HIDE DEF Y
    <3>3. got * A + (got + Scale) * n <= got * (Y + n) + Scale * n
      BY <1>1, <1>2, <1>6, <3>2, BoundOf
    <3>4. Y + n = 2 * Scale + (Tolerance + n + W)
      BY <1>2, <1>6 DEF Y
    <3>5. got * (Y + n) = 2 * Scale * got + got * (Tolerance + n + W)
      <4>1. ASSUME NEW u \in Nat, NEW v \in Nat, NEW w \in Nat PROVE u * (v + w) = v * u + u * w
        OBVIOUS
      <4> QED
        BY <1>1, <1>8, <3>4, <4>1
    <3>6. 2 * Scale * (S - got) = 2 * Scale * S - 2 * Scale * got
      BY <1>1, <1>4
    <3>7. /\ got * A + (got + Scale) * n \in Int /\ Scale * n \in Int
          /\ got * (Tolerance + n + W) \in Int /\ 2 * Scale * S \in Int /\ 2 * Scale * got \in Int
      BY <1>1, <1>2, <1>4, <1>6, <1>8
    <3>8. 2 * Scale * S <= got * A + (got + Scale) * n
      BY <1>11, <3>1
    <3> QED
      BY <3>3, <3>5, <3>6, <3>7, <3>8
  <2>4. CASE trades[NumLegs] = got - R
    <3>1. S - got = T - R
      BY <1>1, <1>3, <1>5, <2>4
    <3>2. Tolerance + W \in Nat /\ B <= Tolerance + W
      BY <1>6
    <3>3. got * B + (got + Scale) * n <= got * ((Tolerance + W) + n) + Scale * n
      BY <1>1, <1>2, <1>6, <3>2, BoundOf
    <3>4. (Tolerance + W) + n = Tolerance + n + W
      BY <1>2, <1>6
    <3>5. 2 * Scale * (S - got) <= got * B + (got + Scale) * n
      BY <1>12, <3>1
    <3>6. got * B + (got + Scale) * n \in Int /\ 2 * Scale * (S - got) \in Int
      BY <1>1, <1>2, <1>4, <1>6
    <3> QED
      BY <2>1, <3>3, <3>4, <3>5, <3>6
  <2> QED
    BY <1>13, <2>2, <2>3, <2>4
<1>18. 2 * Scale * (S - G) <= G * (Tolerance + n + W) + Scale * n
  BY <1>1, <1>4, <1>8, <1>17, BoundGrows
<1> QED
  BY <1>18 DEF DistributionBounded, S, G, W, n

(* The funds of a block get no more than was executed, but for rounding by *)
(* quantize and the column of target_pct, the tolerance on the sum of the  *)
(* percentages and what legs with a negative percentage would have to give *)
(* up, for any number of legs and any percentages.                         *)
THEOREM DistributionIsBounded == Spec => []DistributionBounded
<1> QED
  BY Published, FillAlways, PTL
=============================================================================
