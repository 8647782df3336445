--------------------------- MODULE EndOfDayProofs ---------------------------
(***************************************************************************)
(* End-of-day runs, for any number of requests, portfolios, corporate      *)
(* actions and faults: a run that is marked successful is the last one,    *)
(* unless another began while it was at work; it left behind what its      *)
(* steps are for; and every published adjustment is accounted for.         *)
(***************************************************************************)
EXTENDS EndOfDay, SumTheorems, TLAPS

Loops == {"lookup", "publish", "record"}

Places == Ended \cup {"new", "insert", "step", "complete"} \cup Loops

Rows == [stored : BOOLEAN, ok : BOOLEAN, start : Nat, end : Nat]

Types ==
  /\ run \in [Requests -> Rows]
  /\ pc \in [Requests -> Places]
  /\ clock \in Nat

\* What the row of a request says at a place: before it begins nothing, and a run
\* that works through its steps has a stored row.
RowFits(r, at_) ==
  /\ at_ = "new" => run[r].start = 0 /\ ~run[r].ok
  /\ at_ \in {"step", "complete"} => run[r].stored
  /\ at_ \in Loops /\ IsRun(r) => run[r].stored

RowInv ==
  \A r \in Requests : /\ run[r].start <= clock
                      /\ run[r].ok => run[r].stored
                      /\ RowFits(r, pc[r])

\* A request began while the successful run r was at work.
Overlapped(r) ==
  \E q \in Requests : run[q].start \in run[r].start + 1..run[r].end

\* SuccessIsFinal, also for requests whose row is not inserted yet.
FinalInv ==
  \A r, s \in Requests :
    run[r].ok /\ run[s].start > run[r].end => Overlapped(r)

RunInv == Types /\ RowInv /\ FinalInv

-----------------------------------------------------------------------------
\* No run has begun at first.
LEMMA InitRuns == Init => RunInv
<1> SUFFICES ASSUME Init PROVE RunInv
  OBVIOUS
<1>1. /\ run = [r \in Requests |->
                  [stored |-> FALSE, ok |-> FALSE, start |-> 0, end |-> 0]]
      /\ pc = [r \in Requests |-> "new"]
      /\ clock = 0
  BY DEF Init
<1> QED
  BY <1>1 DEF RunInv, Types, Rows, Places, RowInv, RowFits, FinalInv, IsRun, Loops

\* A step that leaves the rows of the runs alone and takes one request on to a
\* place that fits its row.
LEMMA Onward ==
  ASSUME RunInv, NEW r \in Requests, NEW to \in Places,
         UNCHANGED <<run, clock>>, Goto(r, to), RowFits(r, to)
  PROVE  RunInv'
<1>1. Types'
  BY DEF RunInv, Types, Goto
<1>2. RowInv'
  <2> SUFFICES ASSUME NEW q \in Requests
               PROVE  /\ run[q].start <= clock
                      /\ run[q].ok => run[q].stored
                      /\ RowFits(q, pc'[q])
    BY DEF RowInv, RowFits, IsRun
  <2>1. pc'[q] = IF q = r THEN to ELSE pc[q]
    BY DEF RunInv, Types, Goto
  <2> QED
    BY <2>1 DEF RunInv, RowInv
<1>3. FinalInv'
  BY DEF RunInv, FinalInv, Overlapped
<1> QED
  BY <1>1, <1>2, <1>3 DEF RunInv

\* The places where a step, a loop or a failure takes a request.
LEMMA AfterStep ==
  ASSUME RunInv, NEW r \in Requests, UNCHANGED <<run, clock>>, run[r].stored,
         Completed(r) \/ Failed(r)
  PROVE  RunInv'
<1> DEFINE to == IF Len(steps[r]) + 1 = Len(STEP_ORDER) THEN "complete" ELSE "step"
<1>1. to \in {"step", "complete"}
  OBVIOUS
<1>2. Goto(r, to) \/ Goto(r, "complete")
  BY DEF Completed, Failed
<1> HIDE DEF to
<1>3. ASSUME NEW x \in {"step", "complete"}, Goto(r, x) PROVE RunInv'
  <2>1. x \in Places /\ RowFits(r, x)
    BY <1>3 DEF Places, Loops, RowFits
  <2> QED
    BY <1>3, <2>1, Onward
<1> QED
  BY <1>1, <1>2, <1>3

\* A request enters the loops or stays in them.
LEMMA ToLoop ==
  ASSUME RunInv, NEW r \in Requests, UNCHANGED <<run, clock>>,
         NEW to \in Loops, Goto(r, to),
         pc[r] \in Loops \cup {"new", "step"}
  PROVE  RunInv'
<1>1. to \in Places
  BY DEF Places
<1>2. IsRun(r) => run[r].stored
  BY DEF RunInv, Types, Rows, RowInv, RowFits, IsRun, Loops
<1>3. RowFits(r, to)
  BY <1>2 DEF RowFits, Loops
<1> QED
  BY <1>1, <1>3, Onward

\* A request ends.
LEMMA ToEnd ==
  ASSUME RunInv, NEW r \in Requests, UNCHANGED <<run, clock>>,
         NEW to \in Ended, Goto(r, to)
  PROVE  RunInv'
<1>1. to \in Places /\ RowFits(r, to)
  BY DEF Places, Ended, RowFits, Loops
<1> QED
  BY <1>1, Onward

\* The end of one round of the loops, and an exception in it.
LEMMA LoopStep ==
  ASSUME RunInv, NEW r \in Requests, UNCHANGED <<run, clock>>,
         pc[r] \in Loops, Advance(r) \/ Raise(r)
  PROVE  RunInv'
<1>1. IsRun(r) => run[r].stored
  BY DEF RunInv, RowInv, RowFits, Loops
<1>2. CASE IsRun(r) /\ (Completed(r) \/ Failed(r))
  BY <1>1, <1>2, AfterStep
<1>3. CASE Goto(r, "lookup")
  BY <1>3, ToLoop DEF Loops
<1>4. CASE Goto(r, "done") \/ Goto(r, "failed")
  BY <1>4, ToEnd DEF Ended
<1> QED
  BY <1>2, <1>3, <1>4 DEF Advance, Raise

-----------------------------------------------------------------------------
\* A run begins: the latest one is not successful, so for every successful one
\* there is another that started after it.
LEMMA CheckDuplicateStep ==
  ASSUME RunInv, NEW r \in Requests, CheckDuplicate(r)
  PROVE  RunInv'
<1>1. /\ pc[r] = "new" /\ ~LatestOk
      /\ clock' = clock + 1
      /\ run' = [run EXCEPT ![r] = [run[r] EXCEPT !.start = clock + 1]]
      /\ pc' = [pc EXCEPT ![r] = "insert"]
  BY DEF CheckDuplicate, Starts, Goto
<1>2. Types'
  BY <1>1 DEF RunInv, Types, Rows, Places
<1>3. \A q \in Requests :
        run'[q] = IF q = r THEN [run[r] EXCEPT !.start = clock + 1] ELSE run[q]
  BY <1>1 DEF RunInv, Types
<1>4. /\ run[r].start = 0
      /\ \A q \in Requests : run[q] \in Rows /\ run[q].start <= clock
  BY <1>1 DEF RunInv, Types, RowInv, RowFits
<1>5. clock \in Nat
  BY DEF RunInv, Types
<1>6. \A q \in Requests : /\ run'[q].ok = run[q].ok /\ run'[q].stored = run[q].stored
                          /\ run'[q].end = run[q].end
                          /\ run'[q].start = IF q = r THEN clock + 1 ELSE run[q].start
  BY <1>3, <1>4 DEF Rows
<1>7. RowInv'
  <2> SUFFICES ASSUME NEW q \in Requests
               PROVE  /\ run'[q].start <= clock'
                      /\ run'[q].ok => run'[q].stored
                      /\ RowFits(q, pc[q])'
    BY DEF RowInv
  <2>1. CASE q = r
    <3>1. pc'[q] = "insert"
      BY <1>1, <2>1 DEF RunInv, Types
    <3> QED
      BY <1>1, <1>5, <1>6, <2>1, <3>1 DEF RunInv, RowInv, RowFits, Loops
  <2>2. CASE q # r
    <3>1. pc'[q] = pc[q]
      BY <1>1, <2>2 DEF RunInv, Types
    <3>2. RowFits(q, pc[q])
      BY DEF RunInv, RowInv
    <3>3. run[q].start <= clock + 1
      BY <1>4, <1>5 DEF Rows
    <3> QED
      BY <1>1, <1>6, <2>2, <3>1, <3>2, <3>3 DEF RunInv, RowInv, RowFits, IsRun
  <2> QED
    BY <2>1, <2>2
<1>8. ASSUME NEW q \in Requests, run[q].ok PROVE Overlapped(q)
  <2>1. q \in Stored
    BY <1>8 DEF RunInv, RowInv, Stored
  <2>2. PICK s \in Stored : ~(run[s].start <= run[q].start)
    BY <1>1, <1>8, <2>1 DEF LatestOk
  <2>3. s \in Requests
    BY DEF Stored
  <2>4. /\ run[s].start \in Nat /\ run[q].start \in Nat /\ run[q].end \in Nat
        /\ run[s].start > run[q].start
    BY <1>4, <2>2, <2>3 DEF Rows
  <2>5. CASE run[s].start > run[q].end
    BY <1>8, <2>3, <2>5 DEF RunInv, FinalInv
  <2>6. CASE run[s].start <= run[q].end
    BY <2>3, <2>4, <2>6 DEF Overlapped
  <2> QED
    BY <2>4, <2>5, <2>6
<1>9. FinalInv'
  <2> SUFFICES ASSUME NEW q \in Requests, run'[q].ok PROVE Overlapped(q)'
    BY DEF FinalInv
  <2>1. PICK s \in Requests : run[s].start \in run[q].start + 1..run[q].end
    BY <1>6, <1>8 DEF Overlapped
  <2>2. s # r
    BY <1>4, <2>1 DEF Rows
  <2>3. q # r
    <3>1. ~run[r].ok
      BY <1>1 DEF RunInv, RowInv, RowFits
    <3> QED
      BY <3>1, <1>6
  <2> QED
    BY <1>6, <2>1, <2>2, <2>3 DEF Overlapped
<1> QED
  BY <1>2, <1>7, <1>9 DEF RunInv

\* The row of a run is inserted.
LEMMA InsertRunStep ==
  ASSUME RunInv, NEW r \in Requests, InsertRun(r)
  PROVE  RunInv'
<1>1. /\ UNCHANGED clock
      /\ run' = [run EXCEPT ![r] = [run[r] EXCEPT !.stored = TRUE]]
      /\ pc' = [pc EXCEPT ![r] = "step"]
  BY DEF InsertRun, Goto
<1>2. Types'
  BY <1>1 DEF RunInv, Types, Rows, Places
<1>3. \A q \in Requests : /\ run'[q].ok = run[q].ok
                          /\ run'[q].end = run[q].end
                          /\ run'[q].start = run[q].start
                          /\ run'[q].stored = IF q = r THEN TRUE ELSE run[q].stored
  BY <1>1 DEF RunInv, Types, Rows
<1>4. RowInv'
  <2> SUFFICES ASSUME NEW q \in Requests
               PROVE  /\ run'[q].start <= clock'
                      /\ run'[q].ok => run'[q].stored
                      /\ RowFits(q, pc[q])'
    BY DEF RowInv
  <2>1. pc'[q] = IF q = r THEN "step" ELSE pc[q]
    BY <1>1 DEF RunInv, Types
  <2>2. run[q].start <= clock /\ (run[q].ok => run[q].stored) /\ RowFits(q, pc[q])
    BY DEF RunInv, RowInv
  <2>3. CASE q = r
    <3>1. pc'[q] = "step" /\ run'[q].stored
      BY <1>3, <2>1, <2>3
    <3>2. run'[q].start <= clock'
      BY <1>1, <1>3, <2>2
    <3> QED
      BY <3>1, <3>2 DEF RowFits, Loops
  <2>4. CASE q # r
    <3>1. pc'[q] = pc[q] /\ run'[q].stored = run[q].stored
      BY <1>3, <2>1, <2>4
    <3> QED
      BY <1>1, <1>3, <2>2, <3>1 DEF RowFits, IsRun
  <2> QED
    BY <2>3, <2>4
<1>5. FinalInv'
  BY <1>3 DEF RunInv, FinalInv, Overlapped
<1> QED
  BY <1>2, <1>4, <1>5 DEF RunInv

\* A run ends: nothing has started after it yet.
LEMMA CompleteRunStep ==
  ASSUME RunInv, NEW r \in Requests, CompleteRun(r)
  PROVE  RunInv'
<1>0. PICK good \in BOOLEAN : good <=> AllOk(r)
  BY DEF AllOk
<1>1. /\ pc[r] = "complete" /\ clock' = clock + 1
      /\ run' = [run EXCEPT ![r] = [run[r] EXCEPT !.ok = good, !.end = clock + 1]]
      /\ pc' = [pc EXCEPT ![r] = IF good THEN "done" ELSE "failed"]
  <2>1. good = AllOk(r)
    BY <1>0 DEF AllOk
  <2> QED
    BY <2>1 DEF CompleteRun, Goto
<1>2. clock \in Nat /\ \A q \in Requests : run[q] \in Rows /\ run[q].start <= clock
  BY DEF RunInv, Types, RowInv
<1>3. \A q \in Requests :
        run'[q] = IF q = r THEN [run[r] EXCEPT !.ok = good, !.end = clock + 1]
                           ELSE run[q]
  BY <1>1 DEF RunInv, Types
<1>4. \A q \in Requests : /\ run'[q].stored = run[q].stored
                          /\ run'[q].start = run[q].start
                          /\ q # r => run'[q] = run[q]
  <2> SUFFICES ASSUME NEW q \in Requests
               PROVE  /\ run'[q].stored = run[q].stored
                      /\ run'[q].start = run[q].start
                      /\ q # r => run'[q] = run[q]
    OBVIOUS
  <2>1. CASE q = r
    BY <1>2, <1>3, <2>1 DEF Rows
  <2>2. CASE q # r
    BY <1>3, <2>2
  <2> QED
    BY <2>1, <2>2
<1>5. run'[r].end = clock + 1
  BY <1>2, <1>3 DEF Rows
<1>6. Types'
  <2>1. [run[r] EXCEPT !.ok = good, !.end = clock + 1] \in Rows
    <3>1. run[r] \in Rows /\ clock + 1 \in Nat
      BY <1>2
    <3> DEFINE ended == [run[r] EXCEPT !.end = clock + 1]
    <3>2. ended \in Rows
      BY <3>1 DEF Rows
    <3>3. [run[r] EXCEPT !.ok = good, !.end = clock + 1] = [ended EXCEPT !.ok = good]
      BY <3>1 DEF Rows
    <3> HIDE DEF ended
    <3> QED
      BY <3>2, <3>3 DEF Rows
  <2>2. run' \in [Requests -> Rows]
    BY <1>1, <2>1 DEF RunInv, Types
  <2>3. (IF good THEN "done" ELSE "failed") \in Places
    BY DEF Places, Ended
  <2>4. pc' \in [Requests -> Places]
    BY <1>1, <2>3 DEF RunInv, Types
  <2> QED
    BY <1>1, <1>2, <2>2, <2>4 DEF Types
<1>7. RowInv'
  <2> SUFFICES ASSUME NEW q \in Requests
               PROVE  /\ run'[q].start <= clock'
                      /\ run'[q].ok => run'[q].stored
                      /\ RowFits(q, pc[q])'
    BY DEF RowInv
  <2>1. run'[q].start <= clock'
    BY <1>1, <1>2, <1>4 DEF Rows
  <2>2. CASE q = r
    <3>1. pc'[q] \in {"done", "failed"} /\ run[q].stored
      BY <1>1, <2>2 DEF RunInv, Types, RowInv, RowFits
    <3> QED
      BY <1>4, <2>1, <3>1 DEF RowFits, Loops
  <2>3. CASE q # r
    <3>1. pc'[q] = pc[q] /\ run'[q] = run[q]
      BY <1>1, <1>4, <2>3 DEF RunInv, Types
    <3> QED
      BY <2>1, <3>1 DEF RunInv, RowInv, RowFits, IsRun
  <2> QED
    BY <2>2, <2>3
<1>8. FinalInv'
  <2> SUFFICES ASSUME NEW q \in Requests, NEW s \in Requests,
                      run'[q].ok, run'[s].start > run'[q].end
               PROVE  Overlapped(q)'
    BY DEF FinalInv
  <2>1. q # r
    BY <1>2, <1>4, <1>5 DEF Rows
  <2>2. run'[q] = run[q] /\ run'[s].start = run[s].start
    BY <1>4, <2>1
  <2>3. Overlapped(q)
    BY <2>2 DEF RunInv, FinalInv
  <2> QED
    BY <1>4, <2>2, <2>3 DEF Overlapped
<1> QED
  BY <1>6, <1>7, <1>8 DEF RunInv

\* Every other step moves one request on and leaves the rows of the runs alone.
LEMMA RequestStep ==
  ASSUME RunInv, NEW r \in Requests, Request(r)
  PROVE  RunInv'
<1>1. CASE AlreadyComplete(r)
  BY <1>1, ToEnd DEF AlreadyComplete, Ended
<1>2. CASE CheckDuplicate(r)
  BY <1>2, CheckDuplicateStep
<1>3. ASSUME NEW first, NEW last, Post(r, first, last) PROVE RunInv'
  BY <1>3, ToLoop DEF Post, Starts, EnterLoop, Loops
<1> QED
  BY <1>1, <1>2, <1>3 DEF Request

\* The steps of a request at work.
LEMMA WorkStep ==
  ASSUME RunInv, NEW r \in Requests, Work(r)
  PROVE  RunInv'
<1>1. CASE InsertRun(r)
  BY <1>1, InsertRunStep
<1>2. CASE CompleteRun(r)
  BY <1>2, CompleteRunStep
<1>3. CASE RunStep(r)
  <2>1. UNCHANGED <<run, clock>> /\ pc[r] = "step" /\ Completed(r)
    BY <1>3 DEF RunStep, AtStep
  <2>2. run[r].stored
    BY <2>1 DEF RunInv, RowInv, RowFits
  <2> QED
    BY <2>1, <2>2, AfterStep
<1>4. CASE Fetch(r)
  BY <1>4, ToLoop DEF Fetch, EnterLoop, Loops
<1>5. CASE Found(r)
  BY <1>5, LoopStep DEF Found, Loops
<1>6. CASE Lookup(r)
  BY <1>6, ToLoop DEF Lookup, Loops
<1>7. CASE Publish(r)
  BY <1>7, ToLoop DEF Publish, Loops
<1>8. CASE InsertRecord(r)
  BY <1>8, LoopStep DEF InsertRecord, Loops
<1> QED
  BY <1>1, <1>2, <1>3, <1>4, <1>5, <1>6, <1>7, <1>8 DEF Work

\* Failing calls, dying requests and accruals that are passed over.
LEMMA FaultStep ==
  ASSUME RunInv, NEW r \in Requests, Fault(r)
  PROVE  RunInv'
<1>1. ASSUME NEW n, StepFails(r, n) PROVE RunInv'
  <2>1. UNCHANGED <<run, clock>> /\ Raise(r) /\ pc[r] \in {"step"} \cup Loops
    BY <1>1 DEF StepFails, AtStep, Loops
  <2>2. CASE pc[r] \in Loops
    BY <2>1, <2>2, LoopStep
  <2>3. CASE pc[r] = "step"
    <3>1. run[r].stored
      BY <2>3 DEF RunInv, RowInv, RowFits
    <3>2. CASE Failed(r)
      BY <2>1, <3>1, <3>2, AfterStep
    <3>3. CASE Goto(r, "failed")
      BY <2>1, <3>3, ToEnd DEF Ended
    <3> QED
      BY <2>1, <3>2, <3>3 DEF Raise
  <2> QED
    BY <2>1, <2>2, <2>3
<1>2. ASSUME NEW n, Dies(r, n) PROVE RunInv'
  BY <1>2, ToEnd DEF Dies, Ended
<1>3. ASSUME NEW ps, FeeSkipped(r, ps) PROVE RunInv'
  <2>1. UNCHANGED <<run, clock>> /\ pc[r] = "step" /\ Completed(r)
    BY <1>3 DEF FeeSkipped, AtStep
  <2>2. run[r].stored
    BY <2>1 DEF RunInv, RowInv, RowFits
  <2> QED
    BY <2>1, <2>2, AfterStep
<1> QED
  BY <1>1, <1>2, <1>3 DEF Fault

-----------------------------------------------------------------------------
\* RunInv holds in every reachable state.
LEMMA RunAlways == Spec => []RunInv
<1>1. RunInv /\ [Next]_vars => RunInv'
  <2> SUFFICES ASSUME RunInv, [Next]_vars PROVE RunInv'
    OBVIOUS
  <2>1. ASSUME NEW r \in Requests, Request(r) \/ Work(r) \/ Fault(r) PROVE RunInv'
    BY <2>1, RequestStep, WorkStep, FaultStep
  <2>2. CASE UNCHANGED vars
    BY <2>2 DEF vars, RunInv, Types, RowInv, RowFits, FinalInv, Overlapped, IsRun
  <2> QED
    BY <2>1, <2>2 DEF Next
<1> QED
  BY InitRuns, <1>1, PTL DEF Spec

(* After a successful run of a date no later request starts the sequence   *)
(* again, unless some run began while the successful one was at work: the  *)
(* latest run is all that run_eod looks at.                                *)
THEOREM RunsAreFinal == Spec => []SuccessIsFinal
<1>1. RunInv => SuccessIsFinal
  BY DEF RunInv, FinalInv, Overlapped, SuccessIsFinal, Stored
<1> QED
  BY RunAlways, <1>1, PTL

-----------------------------------------------------------------------------
\* What the first n steps of a run leave behind.
Left(n) ==
  /\ n >= 3 => \A a \in Actions : record[a] # "none" /\ ~unknown[a]
  /\ n >= 5 => \A p \in Portfolios : nav[p]
  /\ n >= 6 => \A p \in Portfolios : accrued[p] = 0 => faults > 0
  /\ n >= 7 => \A p \in Portfolios : pnl[p]

LoopTypes ==
  /\ steps \in [Requests -> Seq({"completed", "failed"})]
  /\ at \in [Requests -> Nat] /\ upto \in [Requests -> Nat]
  /\ record \in [Actions -> {"none", "processed", "skipped", "failed"}]
  /\ accrued \in [Portfolios -> Nat]
  /\ faults \in Nat

\* Where a request is in its steps and, within the third of them, in the loops
\* over portfolios and actions, which have recorded the actions behind it.
StepsAt(r) ==
  /\ AllOk(r) => Left(Len(steps[r]))
  /\ pc[r] \in {"new", "insert"} => steps[r] = << >>
  /\ pc[r] \in {"insert", "step", "complete"} => IsRun(r)
  /\ pc[r] = "step" => AllOk(r) /\ Len(steps[r]) < 12
  /\ pc[r] \in Loops =>
       /\ AllOk(r)
       /\ at[r] \in 1..upto[r] /\ upto[r] <= NumPortfolios * NumActions
       /\ IsRun(r) => /\ Len(steps[r]) = 2 /\ upto[r] >= NumActions
                      /\ \A a \in Actions : a < at[r] => record[a] # "none" /\ ~unknown[a]
  /\ pc[r] = "complete" => (AllOk(r) => Len(steps[r]) = 12)
  /\ run[r].ok => Left(12)

StepsInv == LoopTypes /\ \A r \in Requests : StepsAt(r)

\* No step takes back what another left behind.
Grows ==
  /\ unknown' = unknown
  /\ \A a \in Actions : record[a] # "none" => record'[a] # "none"
  /\ \A p \in Portfolios : /\ nav[p] => nav'[p]
                           /\ pnl[p] => pnl'[p]
                           /\ accrued'[p] = 0 => accrued[p] = 0
  /\ faults > 0 => faults' > 0

\* A step of one request leaves the others where they are.
Alone(r) ==
  \A q \in Requests \ {r} :
    /\ run'[q] = run[q] /\ steps'[q] = steps[q] /\ pc'[q] = pc[q]
    /\ at'[q] = at[q] /\ upto'[q] = upto[q]

\* What is left behind stays.
LEMMA LeftGrows == ASSUME Grows, NEW n, Left(n) PROVE Left(n)'
BY DEF Grows, Left

\* No request has begun at first.
LEMMA InitSteps == Init => StepsInv
<1> SUFFICES ASSUME Init PROVE StepsInv
  OBVIOUS
<1>1. LoopTypes
  BY DEF Init, LoopTypes
<1>2. ASSUME NEW r \in Requests PROVE StepsAt(r)
  <2>1. steps[r] = << >> /\ pc[r] = "new" /\ ~run[r].ok
    BY DEF Init
  <2>2. Len(steps[r]) = 0
    BY <2>1
  <2> QED
    BY <2>1, <2>2 DEF StepsAt, Left, Loops
<1> QED
  BY <1>1, <1>2 DEF StepsInv

\* A step of one request that keeps StepsAt for that request keeps it for all.
LEMMA StepsKept ==
  ASSUME StepsInv, NEW r \in Requests, LoopTypes', Grows, Alone(r), StepsAt(r)'
  PROVE  StepsInv'
<1> SUFFICES ASSUME NEW q \in Requests, q # r PROVE StepsAt(q)'
  BY DEF StepsInv
<1>1. /\ run'[q] = run[q] /\ steps'[q] = steps[q] /\ pc'[q] = pc[q]
      /\ at'[q] = at[q] /\ upto'[q] = upto[q] /\ StepsAt(q)
  BY DEF Alone, StepsInv
<1>2. AllOk(q)' <=> AllOk(q)
  BY <1>1 DEF AllOk
<1>3. IsRun(q)' <=> IsRun(q)
  BY <1>1 DEF IsRun
<1>4. AllOk(q)' => Left(Len(steps[q]))'
  BY <1>1, <1>2, LeftGrows DEF StepsAt
<1>5. run'[q].ok => Left(12)'
  BY <1>1, LeftGrows DEF StepsAt
<1>6. ASSUME pc[q] \in Loops, IsRun(q)
      PROVE  \A a \in Actions : a < at[q] => record'[a] # "none" /\ ~unknown'[a]
  BY <1>1, <1>6 DEF StepsAt, Grows
<1> QED
  BY <1>1, <1>2, <1>3, <1>4, <1>5, <1>6 DEF StepsAt

\* The rows of a run's steps after one more.
LEMMA OneMoreStep ==
  ASSUME NEW s \in Seq({"completed", "failed"}), NEW e \in {"completed", "failed"}
  PROVE  /\ Append(s, e) \in Seq({"completed", "failed"})
         /\ Len(Append(s, e)) = Len(s) + 1
         /\ Range(Append(s, e)) = Range(s) \cup {e}
<1>1. Append(s, e) \in Seq({"completed", "failed"}) /\ Len(Append(s, e)) = Len(s) + 1
  OBVIOUS
<1>2. /\ DOMAIN s = 1..Len(s) /\ DOMAIN Append(s, e) = 1..(Len(s) + 1)
      /\ \A i \in 1..Len(s) : Append(s, e)[i] = s[i]
      /\ Append(s, e)[Len(s) + 1] = e
      /\ Len(s) \in Nat
  OBVIOUS
<1> DEFINE t == Append(s, e)
<1> HIDE DEF t
<1>3. Range(t) = Range(s) \cup {e}
  <2>1. ASSUME NEW x \in Range(t) PROVE x \in Range(s) \cup {e}
    <3>1. PICK i \in 1..(Len(s) + 1) : x = t[i]
      BY <1>2 DEF Range, t
    <3>2. i \in 1..Len(s) \/ i = Len(s) + 1
      BY <1>2
    <3> QED
      BY <1>2, <3>1, <3>2 DEF Range, t
  <2>2. ASSUME NEW x \in Range(s) PROVE x \in Range(t)
    <3>1. PICK i \in 1..Len(s) : x = s[i]
      BY <1>2 DEF Range
    <3>2. i \in 1..(Len(s) + 1)
      BY <1>2
    <3> QED
      BY <1>2, <3>1, <3>2 DEF Range, t
  <2>3. e \in Range(t)
    <3>1. Len(s) + 1 \in 1..(Len(s) + 1)
      BY <1>2
    <3> QED
      BY <1>2, <3>1 DEF Range, t
  <2> QED
    BY <2>1, <2>2, <2>3
<1> QED
  BY <1>1, <1>3 DEF t

\* A run has completed a step that left behind what it is for.
LEMMA AfterCompleted ==
  ASSUME StepsInv, NEW r \in Requests, pc \in [Requests -> Places], UNCHANGED <<run, upto>>,
         record' \in [Actions -> {"none", "processed", "skipped", "failed"}],
         accrued' \in [Portfolios -> Nat], faults' \in Nat, at' = at,
         Completed(r), Grows, IsRun(r), AllOk(r),
         Len(steps[r]) < 12, NEW n, n = Len(steps[r]) + 1, Left(n)'
  PROVE  StepsInv'
<1>1. /\ steps \in [Requests -> Seq({"completed", "failed"})]
      /\ at \in [Requests -> Nat] /\ upto \in [Requests -> Nat]
  BY DEF StepsInv, LoopTypes
<1>2. /\ steps' = [steps EXCEPT ![r] = Append(steps[r], "completed")]
      /\ pc' = [pc EXCEPT ![r] = IF Len(steps[r]) + 1 = 12 THEN "complete" ELSE "step"]
  BY DEF Completed, Goto, STEP_ORDER
<1>3. /\ steps'[r] \in Seq({"completed", "failed"}) /\ Len(steps'[r]) = Len(steps[r]) + 1
      /\ Range(steps'[r]) = Range(steps[r]) \cup {"completed"}
      /\ Len(steps[r]) \in Nat
  BY <1>1, <1>2, OneMoreStep
<1>4. AllOk(r)'
  BY <1>3 DEF AllOk
<1>5. LoopTypes'
  BY <1>1, <1>2, <1>3 DEF LoopTypes
<1>6. Alone(r)
  BY <1>1, <1>2 DEF Alone
<1>7. \/ pc'[r] = "complete" /\ Len(steps'[r]) = 12
      \/ pc'[r] = "step" /\ Len(steps'[r]) < 12
  BY <1>2, <1>3
<1>8. IsRun(r)'
  BY DEF IsRun
<1>9. Left(Len(steps[r]))'
  <2>1. n = Len(steps'[r])
    BY <1>3
  <2> QED
    BY <2>1 DEF Left
<1>10. run'[r].ok => Left(12)'
  BY LeftGrows DEF StepsInv, StepsAt
<1>11. StepsAt(r)'
  BY <1>4, <1>7, <1>8, <1>9, <1>10 DEF StepsAt, Loops
<1> QED
  BY <1>5, <1>6, <1>11, StepsKept

\* A run has failed in a step.
LEMMA AfterFailed ==
  ASSUME StepsInv, NEW r \in Requests, pc \in [Requests -> Places], UNCHANGED <<run, upto>>,
         record' \in [Actions -> {"none", "processed", "skipped", "failed"}],
         accrued' \in [Portfolios -> Nat], faults' \in Nat, at' = at,
         Failed(r), Grows, IsRun(r)
  PROVE  StepsInv'
<1>1. /\ steps \in [Requests -> Seq({"completed", "failed"})]
      /\ at \in [Requests -> Nat] /\ upto \in [Requests -> Nat]
  BY DEF StepsInv, LoopTypes
<1>2. /\ steps' = [steps EXCEPT ![r] = Append(steps[r], "failed")]
      /\ pc' = [pc EXCEPT ![r] = "complete"]
  BY DEF Failed, Goto
<1>3. /\ steps'[r] \in Seq({"completed", "failed"})
      /\ Range(steps'[r]) = Range(steps[r]) \cup {"failed"}
  BY <1>1, <1>2, OneMoreStep
<1>4. ~AllOk(r)' /\ pc'[r] = "complete"
  BY <1>2, <1>3 DEF AllOk
<1>5. LoopTypes'
  BY <1>1, <1>2, <1>3 DEF LoopTypes
<1>6. Alone(r)
  BY <1>1, <1>2 DEF Alone
<1>7. IsRun(r)'
  BY DEF IsRun
<1>8. run'[r].ok => Left(12)'
  BY LeftGrows DEF StepsInv, StepsAt
<1>9. StepsAt(r)'
  BY <1>4, <1>7, <1>8 DEF StepsAt, Loops
<1> QED
  BY <1>5, <1>6, <1>9, StepsKept

\* A request has ended.
LEMMA AfterEnd ==
  ASSUME StepsInv, NEW r \in Requests, pc \in [Requests -> Places],
         UNCHANGED <<run, steps, at, upto>>,
         record' \in [Actions -> {"none", "processed", "skipped", "failed"}],
         accrued' \in [Portfolios -> Nat], faults' \in Nat, Grows,
         NEW to \in Ended, Goto(r, to)
  PROVE  StepsInv'
<1>1. pc' = [pc EXCEPT ![r] = to]
  BY DEF Goto
<1>2. LoopTypes' /\ Alone(r) /\ pc'[r] = to
  BY <1>1 DEF StepsInv, LoopTypes, Alone
<1>3. AllOk(r)' <=> AllOk(r)
  BY DEF AllOk
<1>4. AllOk(r)' => Left(Len(steps[r]))'
  BY <1>3, LeftGrows DEF StepsInv, StepsAt
<1>5. run'[r].ok => Left(12)'
  BY LeftGrows DEF StepsInv, StepsAt
<1>6. StepsAt(r)'
  BY <1>2, <1>4, <1>5 DEF StepsAt, Loops, Ended
<1> QED
  BY <1>2, <1>6, StepsKept

\* The pairs of a portfolio and an action are numbered from 1.
LEMMA PairNumber ==
  ASSUME NEW x \in Nat, NEW n \in Nat \ {0}, NEW P \in Nat, x < P * n
  PROVE  x \div n \in 0..P - 1 /\ x % n \in 0..n - 1 /\ (x < n => x % n = x)
<1> DEFINE q == x \div n
           r == x % n
<1>1. q \in Nat /\ r \in 0..n-1 /\ x = n * q + r
  OBVIOUS
<1> HIDE DEF q, r
<1>2. q < P
  <2> SUFFICES ASSUME q >= P PROVE FALSE
    BY <1>1
  <2>1. n * q >= n * P
    BY <1>1
  <2>2. n * P = P * n /\ n * P \in Nat /\ n * q \in Nat
    BY <1>1
  <2> QED
    BY <1>1, <2>1, <2>2
<1>3. x < n => r = x
  <2> SUFFICES ASSUME x < n PROVE r = x
    OBVIOUS
  <2>1. q = 0
    <3> SUFFICES ASSUME q >= 1 PROVE FALSE
      BY <1>1
    <3>1. n * q >= n
      BY <1>1
    <3> QED
      BY <1>1, <3>1
  <2>2. n * 0 = 0
    OBVIOUS
  <2> QED
    BY <1>1, <2>1, <2>2
<1> QED
  BY <1>1, <1>2, <1>3 DEF q, r

\* In the loops a request is at an action and a portfolio; at first the number
\* of the pair is that of the action.
LEMMA LoopPlace ==
  ASSUME StepsInv, NEW r \in Requests, pc[r] \in Loops
  PROVE  /\ Action(r) \in Actions /\ Portfolio(r) \in Portfolios
         /\ at[r] <= NumActions => Action(r) = at[r]
<1> DEFINE x == at[r] - 1
<1>1. /\ at[r] \in Nat /\ upto[r] \in Nat /\ at[r] \in 1..upto[r]
      /\ upto[r] <= NumPortfolios * NumActions
  BY DEF StepsInv, StepsAt, LoopTypes
<1>2. NumPortfolios * NumActions \in Nat /\ NumActions \in Nat \ {0} /\ NumPortfolios \in Nat
  BY EodAssumption
<1>3. x \in Nat /\ x < NumPortfolios * NumActions
  BY <1>1, <1>2
<1> HIDE DEF x
<1>4. /\ x \div NumActions \in 0..NumPortfolios - 1 /\ x % NumActions \in 0..NumActions - 1
      /\ x < NumActions => x % NumActions = x
  BY <1>2, <1>3, PairNumber
<1>5. Portfolio(r) = (x \div NumActions) + 1 /\ Action(r) = (x % NumActions) + 1 /\ at[r] = x + 1
  BY <1>1 DEF Portfolio, Action, x
<1> QED
  BY <1>2, <1>3, <1>4, <1>5 DEF Actions, Portfolios

\* An exception ends the step, or the posted request.
LEMMA AfterRaise ==
  ASSUME StepsInv, NEW r \in Requests, pc \in [Requests -> Places], UNCHANGED <<run, upto>>,
         record' \in [Actions -> {"none", "processed", "skipped", "failed"}],
         accrued' \in [Portfolios -> Nat], faults' \in Nat, Grows, Raise(r)
  PROVE  StepsInv'
<1>1. at' = at
  BY DEF Raise
<1>2. CASE IsRun(r)
  BY <1>1, <1>2, AfterFailed DEF Raise
<1>3. CASE ~IsRun(r)
  BY <1>1, <1>3, AfterEnd DEF Raise, Ended
<1> QED
  BY <1>2, <1>3

\* The loops go on to the next pair, or the step is completed.
LEMMA AfterAdvance ==
  ASSUME StepsInv, NEW r \in Requests, pc \in [Requests -> Places], UNCHANGED <<run, upto>>,
         record' \in [Actions -> {"none", "processed", "skipped", "failed"}],
         accrued' \in [Portfolios -> Nat], faults' \in Nat, Grows,
         pc[r] \in Loops, record'[Action(r)] # "none", ~unknown[Action(r)], Advance(r)
  PROVE  StepsInv'
<1>1. /\ AllOk(r) /\ at[r] \in 1..upto[r] /\ upto[r] <= NumPortfolios * NumActions
      /\ IsRun(r) => /\ Len(steps[r]) = 2 /\ upto[r] >= NumActions
                     /\ \A a \in Actions : a < at[r] => record[a] # "none" /\ ~unknown[a]
      /\ at \in [Requests -> Nat] /\ upto \in [Requests -> Nat]
      /\ steps \in [Requests -> Seq({"completed", "failed"})]
  BY DEF StepsInv, StepsAt, LoopTypes
<1>2. IsRun(r) => \A a \in Actions : a <= at[r] => record'[a] # "none" /\ ~unknown'[a]
  <2> SUFFICES ASSUME IsRun(r), NEW a \in Actions, a <= at[r]
               PROVE  record'[a] # "none" /\ ~unknown'[a]
    OBVIOUS
  <2>1. CASE a < at[r]
    BY <1>1, <2>1 DEF Grows
  <2>2. CASE a = at[r]
    <3>1. Action(r) = a
      BY <2>2, LoopPlace, EodAssumption DEF Actions
    <3> QED
      BY <3>1 DEF Grows
  <2> QED
    BY <1>1, <2>1, <2>2 DEF Actions
<1>3. CASE at[r] < upto[r]
  <2>1. /\ at' = [at EXCEPT ![r] = at[r] + 1] /\ pc' = [pc EXCEPT ![r] = "lookup"]
        /\ steps' = steps
    BY <1>3 DEF Advance, Goto
  <2>2. LoopTypes' /\ Alone(r) /\ pc'[r] = "lookup" /\ at'[r] = at[r] + 1
    BY <1>1, <2>1 DEF LoopTypes, Alone
  <2>3. (AllOk(r)' <=> AllOk(r)) /\ (IsRun(r)' <=> IsRun(r))
    BY <2>1 DEF AllOk, IsRun
  <2>4. AllOk(r)' => Left(Len(steps[r]))'
    BY <2>1, <2>3, LeftGrows DEF StepsInv, StepsAt
  <2>5. run'[r].ok => Left(12)'
    BY LeftGrows DEF StepsInv, StepsAt
  <2>6. at'[r] \in 1..upto'[r] /\ upto'[r] <= NumPortfolios * NumActions
    BY <1>1, <1>3, <2>2
  <2>7. IsRun(r) => \A a \in Actions : a < at'[r] => record'[a] # "none" /\ ~unknown'[a]
    BY <1>1, <1>2, <2>2 DEF Actions
  <2>8. StepsAt(r)'
    BY <1>1, <2>1, <2>2, <2>3, <2>4, <2>5, <2>6, <2>7 DEF StepsAt, Loops
  <2> QED
    BY <2>2, <2>8, StepsKept
<1>4. CASE ~(at[r] < upto[r]) /\ IsRun(r)
  <2>1. at' = at /\ Completed(r)
    BY <1>4 DEF Advance
  <2>2. Left(3)'
    <3>1. \A a \in Actions : a <= at[r]
      BY <1>1, <1>4, EodAssumption DEF Actions
    <3> QED
      BY <1>2, <1>4, <3>1 DEF Left
  <2>3. Len(steps[r]) < 12 /\ Len(steps[r]) + 1 = 3
    <3>1. Len(steps[r]) = 2
      BY <1>1, <1>4, Zenon
    <3> QED
      BY ONLY <3>1
  <2> QED
    BY <1>1, <1>4, <2>1, <2>2, <2>3, AfterCompleted
<1>5. CASE ~(at[r] < upto[r]) /\ ~IsRun(r)
  BY <1>5, AfterEnd DEF Advance, Ended
<1> QED
  BY <1>3, <1>4, <1>5

\* What a step writes for some of the portfolios.
LEMMA EffectGrows ==
  ASSUME StepsInv, NEW r \in Requests, NEW ps, Effect(r, ps),
         UNCHANGED <<unknown, record>>, faults > 0 => faults' > 0
  PROVE  Grows /\ accrued' \in [Portfolios -> Nat]
<1>1. accrued \in [Portfolios -> Nat]
  BY DEF StepsInv, LoopTypes
<1> DEFINE s == Current(r)
<1>2. /\ nav' = [p \in Portfolios |-> nav[p] \/ (s = "nav_calculation" /\ p \in ps)]
      /\ pnl' = [p \in Portfolios |-> pnl[p] \/ (s = "pnl_snapshot" /\ p \in ps)]
      /\ accrued' = [p \in Portfolios |->
                       IF s = "fee_accrual" /\ p \in ps THEN accrued[p] + 1 ELSE accrued[p]]
  BY Zenon DEF Effect
<1> HIDE DEF s
<1>3. /\ accrued' \in [Portfolios -> Nat]
      /\ \A p \in Portfolios : accrued'[p] = 0 => accrued[p] = 0
  BY <1>1, <1>2
<1>4. \A p \in Portfolios : (nav[p] => nav'[p]) /\ (pnl[p] => pnl'[p])
  BY <1>2
<1> QED
  BY <1>3, <1>4 DEF Grows

\* A completed step of all portfolios, or of the accruals of some.
LEMMA EffectLeft ==
  ASSUME StepsInv, NEW r \in Requests, NEW ps, Effect(r, ps),
         UNCHANGED <<unknown, record>>, faults > 0 => faults' > 0,
         AtStep(r), ps = Portfolios \/ (Current(r) = "fee_accrual" /\ faults' > 0),
         NEW n, n = Len(steps[r]) + 1
  PROVE  Left(n)'
<1>1. /\ Len(steps[r]) \in Nat /\ Len(steps[r]) < 12 /\ Left(Len(steps[r]))
      /\ accrued \in [Portfolios -> Nat]
  BY DEF StepsInv, StepsAt, AtStep, LoopTypes
<1>2. n \in 1..12 /\ Current(r) = STEP_ORDER[n] /\ n # 3
  <2>0. \A m \in Nat : m < 12 => m + 1 \in 1..12
    OBVIOUS
  <2>1. n \in 1..12 /\ Current(r) = STEP_ORDER[n]
    <3>1. n \in 1..12
      BY <1>1, <2>0
    <3> QED
      BY <3>1 DEF Current
  <2>2. STEP_ORDER[3] = "corporate_action_processing"
    BY DEF STEP_ORDER
  <2>3. STEP_ORDER[n] # "corporate_action_processing"
    BY <2>1 DEF AtStep
  <2> QED
    BY <2>1, <2>2, <2>3
<1>3. /\ n = 5 => Current(r) = "nav_calculation"
      /\ n = 6 => Current(r) = "fee_accrual"
      /\ n = 7 => Current(r) = "pnl_snapshot"
  BY <1>2 DEF STEP_ORDER
<1>4. Grows
  BY EffectGrows
<1>5. /\ nav' = [p \in Portfolios |-> nav[p] \/ (Current(r) = "nav_calculation" /\ p \in ps)]
      /\ pnl' = [p \in Portfolios |-> pnl[p] \/ (Current(r) = "pnl_snapshot" /\ p \in ps)]
      /\ accrued' = [p \in Portfolios |->
                       IF Current(r) = "fee_accrual" /\ p \in ps THEN accrued[p] + 1
                                                                 ELSE accrued[p]]
  BY Zenon DEF Effect
<1>6. n = 5 => \A p \in Portfolios : nav'[p]
  BY <1>3, <1>5
<1>7. n = 7 => \A p \in Portfolios : pnl'[p]
  BY <1>3, <1>5
<1>8. n = 6 => \A p \in Portfolios : accrued'[p] = 0 => faults' > 0
  BY <1>1, <1>3, <1>5
<1>9. \A m \in {3, 5, 6, 7} : n >= m /\ n # m => Len(steps[r]) >= m
  BY <1>1, <1>2
<1>10. n >= 3 => \A a \in Actions : record'[a] # "none" /\ ~unknown'[a]
  BY <1>1, <1>2, <1>9 DEF Left
<1>11. n >= 5 => \A p \in Portfolios : nav'[p]
  BY <1>1, <1>4, <1>6, <1>9 DEF Left, Grows
<1>12. n >= 6 => \A p \in Portfolios : accrued'[p] = 0 => faults' > 0
  BY <1>1, <1>4, <1>8, <1>9 DEF Left, Grows
<1>13. n >= 7 => \A p \in Portfolios : pnl'[p]
  BY <1>1, <1>4, <1>7, <1>9 DEF Left, Grows
<1> QED
  BY <1>10, <1>11, <1>12, <1>13 DEF Left

\* Nothing but the request's place changes.
LEMMA Unchanging ==
  ASSUME UNCHANGED <<unknown, rows, faults>>
  PROVE  Grows
BY DEF Grows, rows

\* A request begins, as a run or posted.
LEMMA RequestSteps ==
  ASSUME RunInv, StepsInv, NEW r \in Requests, Request(r)
  PROVE  StepsInv'
<1>0. pc \in [Requests -> Places] /\ run \in [Requests -> Rows] /\ clock \in Nat
  BY DEF RunInv, Types
<1>1. CASE AlreadyComplete(r)
  <2>1. UNCHANGED <<unknown, run, steps, rows, loop, faults>> /\ Goto(r, "done")
    BY <1>1 DEF AlreadyComplete
  <2>2. Grows
    BY <2>1, Unchanging
  <2>3. UNCHANGED <<at, upto, record, accrued>>
    BY <2>1 DEF loop, rows
  <2> QED
    BY <1>0, <2>1, <2>2, <2>3, AfterEnd DEF Ended, StepsInv, LoopTypes
<1>2. CASE CheckDuplicate(r)
  <2>1. /\ pc[r] = "new" /\ pc' = [pc EXCEPT ![r] = "insert"]
        /\ run' = [run EXCEPT ![r] = [run[r] EXCEPT !.start = clock + 1]]
        /\ UNCHANGED <<unknown, steps, rows, loop, faults>>
    BY <1>2 DEF CheckDuplicate, Starts, Goto
  <2>2. Grows
    BY <2>1, Unchanging
  <2>3. UNCHANGED <<at, upto, record, accrued>>
    BY <2>1 DEF loop, rows
  <2>4. LoopTypes' /\ Alone(r) /\ pc'[r] = "insert"
    BY <1>0, <2>1, <2>3 DEF StepsInv, LoopTypes, Alone
  <2>5. run'[r].start = clock + 1 /\ run'[r].ok = run[r].ok
    BY <1>0, <2>1 DEF Rows
  <2>6. IsRun(r)'
    BY <1>0, <2>5 DEF IsRun
  <2>7. run'[r].ok => Left(12)'
    BY <2>2, <2>5, LeftGrows DEF StepsInv, StepsAt
  <2>8. steps'[r] = << >> /\ Len(steps'[r]) = 0
    BY <2>1 DEF StepsInv, StepsAt
  <2>9. StepsAt(r)'
    BY <2>4, <2>6, <2>7, <2>8 DEF StepsAt, Left, Loops
  <2> QED
    BY <2>2, <2>4, <2>9, StepsKept
<1>3. ASSUME NEW first \in Portfolios, NEW last \in Portfolios, first <= last,
             Post(r, first, last)
      PROVE  StepsInv'
  <2>1. /\ pc[r] = "new" /\ pc' = [pc EXCEPT ![r] = "lookup"]
        /\ at' = [at EXCEPT ![r] = (first - 1) * NumActions + 1]
        /\ upto' = [upto EXCEPT ![r] = last * NumActions]
        /\ UNCHANGED <<unknown, run, steps, rows, faults>>
    BY <1>3 DEF Post, Starts, EnterLoop, Goto
  <2>2. Grows
    BY <2>1, Unchanging
  <2>3. UNCHANGED <<record, accrued>>
    BY <2>1 DEF rows
  <2>4. /\ (first - 1) * NumActions + 1 \in 1..last * NumActions
        /\ last * NumActions \in Nat /\ last * NumActions <= NumPortfolios * NumActions
    <3>1. NumActions \in Nat \ {0} /\ first \in 1..NumPortfolios /\ last \in 1..NumPortfolios
          /\ NumPortfolios \in Nat
      BY EodAssumption DEF Portfolios
    <3>2. ASSUME NEW n \in Nat \ {0}, NEW f \in Nat \ {0}, NEW l \in Nat, f <= l
          PROVE  (f - 1) * n + 1 \in 1..l * n
      <4>1. f * n <= l * n
        BY <3>2
      <4>2. (f - 1) * n = f * n - n /\ f * n \in Nat /\ l * n \in Nat /\ (f - 1) * n \in Nat
        OBVIOUS
      <4> QED
        BY <4>1, <4>2
    <3>3. ASSUME NEW n \in Nat, NEW f \in Nat, NEW l \in Nat, f <= l
          PROVE  f * n <= l * n /\ f * n \in Nat
      BY <3>3
    <3> QED
      BY <1>3, <3>1, <3>2, <3>3
  <2>5. /\ pc'[r] = "lookup" /\ at'[r] \in 1..upto'[r] /\ upto'[r] <= NumPortfolios * NumActions
        /\ at' \in [Requests -> Nat] /\ upto' \in [Requests -> Nat]
    <3>1. at \in [Requests -> Nat] /\ upto \in [Requests -> Nat]
      BY DEF StepsInv, LoopTypes
    <3> DEFINE x == (first - 1) * NumActions + 1
               y == last * NumActions
    <3>2. x \in 1..y /\ x \in Nat /\ y \in Nat /\ y <= NumPortfolios * NumActions
      BY <2>4
    <3> HIDE DEF x, y
    <3>3. at' = [at EXCEPT ![r] = x] /\ upto' = [upto EXCEPT ![r] = y]
      BY <2>1 DEF x, y
    <3> QED
      BY <1>0, <2>1, <3>1, <3>2, <3>3
  <2>6. LoopTypes' /\ Alone(r)
    BY <1>0, <2>1, <2>3, <2>5 DEF StepsInv, LoopTypes, Alone
  <2>7. ~IsRun(r)'
    BY <2>1 DEF RunInv, RowInv, RowFits, IsRun
  <2>8. run'[r].ok => Left(12)'
    BY <2>1, <2>2, LeftGrows DEF StepsInv, StepsAt
  <2>9. steps'[r] = << >> /\ Len(steps'[r]) = 0 /\ AllOk(r)'
    <3>1. steps'[r] = << >> 
      BY <2>1 DEF StepsInv, StepsAt
    <3> QED
      BY <3>1 DEF AllOk, Range
  <2>10. StepsAt(r)'
    BY <2>5, <2>7, <2>8, <2>9 DEF StepsAt, Left, Loops
  <2> QED
    BY <2>2, <2>6, <2>10, StepsKept
<1>4. CASE Post(r, 1, NumPortfolios)
  BY <1>3, <1>4, EodAssumption DEF Portfolios
<1>5. ASSUME NEW p \in Portfolios, Post(r, p, p) PROVE StepsInv'
  BY <1>3, <1>5 DEF Portfolios
<1> QED
  BY <1>1, <1>2, <1>4, <1>5 DEF Request

\* The steps of a run outside the loops.
LEMMA RunSteps ==
  ASSUME RunInv, StepsInv, NEW r \in Requests, InsertRun(r) \/ RunStep(r) \/ CompleteRun(r)
  PROVE  StepsInv'
<1>0. /\ pc \in [Requests -> Places] /\ run \in [Requests -> Rows] /\ clock \in Nat
      /\ LoopTypes /\ StepsAt(r)
  BY DEF RunInv, Types, StepsInv
<1>1. CASE InsertRun(r)
  <2>1. /\ pc[r] = "insert" /\ pc' = [pc EXCEPT ![r] = "step"]
        /\ run' = [run EXCEPT ![r] = [run[r] EXCEPT !.stored = TRUE]]
        /\ UNCHANGED <<unknown, steps, rows, loop, faults>>
    BY <1>1 DEF InsertRun, Goto
  <2>2. Grows
    BY <2>1, Unchanging
  <2>3. UNCHANGED <<at, upto, record, accrued>>
    BY <2>1 DEF loop, rows
  <2>4. LoopTypes' /\ Alone(r) /\ pc'[r] = "step"
    BY <1>0, <2>1, <2>3 DEF LoopTypes, Alone
  <2>5. run'[r].start = run[r].start /\ run'[r].ok = run[r].ok
    BY <1>0, <2>1 DEF Rows
  <2>6. IsRun(r)'
    BY <1>0, <2>1, <2>5 DEF StepsAt, IsRun
  <2>7. run'[r].ok => Left(12)'
    BY <1>0, <2>2, <2>5, LeftGrows DEF StepsAt
  <2>8. steps'[r] = << >> /\ Len(steps'[r]) = 0 /\ AllOk(r)'
    <3>1. steps'[r] = << >>
      BY <1>0, <2>1 DEF StepsAt
    <3> QED
      BY <3>1 DEF AllOk, Range
  <2>9. StepsAt(r)'
    BY <2>4, <2>6, <2>7, <2>8 DEF StepsAt, Left, Loops
  <2> QED
    BY <2>2, <2>4, <2>9, StepsKept
<1>2. CASE RunStep(r)
  <2>1. /\ AtStep(r) /\ Effect(r, Portfolios) /\ Completed(r)
        /\ UNCHANGED <<unknown, run, record, at, upto, faults>>
    BY <1>2 DEF RunStep, loop
  <2>2. Grows /\ accrued' \in [Portfolios -> Nat]
    BY <2>1, EffectGrows
  <2>3. PICK n : n = Len(steps[r]) + 1
    OBVIOUS
  <2>4. Left(n)'
    BY <2>1, <2>3, EffectLeft
  <2>5. IsRun(r) /\ AllOk(r) /\ Len(steps[r]) < 12
    BY <1>0, <2>1 DEF StepsAt, AtStep
  <2>6. /\ record' \in [Actions -> {"none", "processed", "skipped", "failed"}]
        /\ faults' \in Nat
    BY <1>0, <2>1 DEF LoopTypes
  <2> QED
    BY <1>0, <2>1, <2>2, <2>3, <2>4, <2>5, <2>6, AfterCompleted
<1>3. CASE CompleteRun(r)
  <2>0. PICK good \in BOOLEAN : good <=> AllOk(r)
    BY DEF AllOk
  <2>1. /\ pc[r] = "complete"
        /\ run' = [run EXCEPT ![r] = [run[r] EXCEPT !.ok = good, !.end = clock + 1]]
        /\ pc' = [pc EXCEPT ![r] = IF good THEN "done" ELSE "failed"]
        /\ UNCHANGED <<unknown, steps, rows, loop, faults>>
    <3>1. good = AllOk(r)
      BY <2>0 DEF AllOk
    <3> QED
      BY <1>3, <3>1 DEF CompleteRun, Goto
  <2>2. Grows
    BY <2>1, Unchanging
  <2>3. UNCHANGED <<at, upto, record, accrued>>
    BY <2>1 DEF loop, rows
  <2>4. LoopTypes' /\ Alone(r) /\ pc'[r] \in {"done", "failed"}
    BY <1>0, <2>1, <2>3 DEF LoopTypes, Alone
  <2>5. run'[r].ok => AllOk(r)
    BY <1>0, <2>0, <2>1 DEF Rows
  <2>6. AllOk(r)' => AllOk(r)
    BY <2>1 DEF AllOk
  <2>7. AllOk(r)' => Left(Len(steps[r]))'
    BY <1>0, <2>1, <2>2, <2>6, LeftGrows DEF StepsAt
  <2>8. run'[r].ok => Left(12)'
    BY <1>0, <2>1, <2>2, <2>5, LeftGrows DEF StepsAt
  <2>9. StepsAt(r)'
    BY <2>4, <2>7, <2>8 DEF StepsAt, Loops
  <2> QED
    BY <2>2, <2>4, <2>9, StepsKept
<1> QED
  BY <1>1, <1>2, <1>3

\* A request stays in the loops, or enters them.
LEMMA AfterLoop ==
  ASSUME RunInv, StepsInv, NEW r \in Requests, pc[r] \in Loops, NEW to \in Loops,
         pc' = [pc EXCEPT ![r] = to], UNCHANGED <<run, steps, at, upto, record, accrued, faults>>,
         Grows
  PROVE  StepsInv'
<1>0. pc \in [Requests -> Places] /\ LoopTypes /\ StepsAt(r)
  BY DEF RunInv, Types, StepsInv
<1>1. LoopTypes' /\ Alone(r) /\ pc'[r] = to
  BY <1>0 DEF LoopTypes, Alone
<1>2. (AllOk(r)' <=> AllOk(r)) /\ (IsRun(r)' <=> IsRun(r))
  BY DEF AllOk, IsRun
<1>3. AllOk(r)' => Left(Len(steps[r]))'
  BY <1>0, <1>2, LeftGrows DEF StepsAt
<1>4. run'[r].ok => Left(12)'
  BY <1>0, LeftGrows DEF StepsAt
<1>5. unknown' = unknown
  BY DEF Grows
<1>6. StepsAt(r)'
  BY <1>0, <1>1, <1>2, <1>3, <1>4, <1>5 DEF StepsAt, Loops
<1> QED
  BY <1>1, <1>6, StepsKept

\* The third step of a run begins with the first pair.
LEMMA FetchSteps ==
  ASSUME RunInv, StepsInv, NEW r \in Requests, Fetch(r)
  PROVE  StepsInv'
<1>0. pc \in [Requests -> Places] /\ LoopTypes /\ StepsAt(r)
  BY DEF RunInv, Types, StepsInv
<1>1. /\ pc[r] = "step" /\ Current(r) = "corporate_action_processing"
      /\ pc' = [pc EXCEPT ![r] = "lookup"]
      /\ at' = [at EXCEPT ![r] = (1 - 1) * NumActions + 1]
      /\ upto' = [upto EXCEPT ![r] = NumPortfolios * NumActions]
      /\ UNCHANGED <<unknown, run, steps, rows, faults>>
  BY DEF Fetch, EnterLoop, Goto
<1>2. Grows
  BY <1>1, Unchanging
<1>3. UNCHANGED <<record, accrued>>
  BY <1>1 DEF rows
<1>4. NumPortfolios * NumActions \in Nat /\ NumActions <= NumPortfolios * NumActions
      /\ (1 - 1) * NumActions + 1 = 1 /\ NumActions \in Nat \ {0}
  <2>1. ASSUME NEW p \in Nat \ {0}, NEW n \in Nat \ {0} PROVE p * n \in Nat /\ n <= p * n
    OBVIOUS
  <2>2. ASSUME NEW n \in Nat PROVE (1 - 1) * n + 1 = 1
    OBVIOUS
  <2> QED
    BY <2>1, <2>2, EodAssumption
<1> DEFINE y == NumPortfolios * NumActions
<1>5. at' = [at EXCEPT ![r] = 1] /\ upto' = [upto EXCEPT ![r] = y]
  BY <1>1, <1>4
<1>6. y \in Nat /\ NumActions <= y /\ 1 <= y
  BY <1>4
<1> HIDE DEF y
<1>7. /\ at' \in [Requests -> Nat] /\ upto' \in [Requests -> Nat]
      /\ at'[r] = 1 /\ upto'[r] = y /\ pc'[r] = "lookup"
  BY <1>0, <1>1, <1>5, <1>6 DEF LoopTypes
<1>8. LoopTypes' /\ Alone(r)
  BY <1>0, <1>1, <1>3, <1>5, <1>7 DEF LoopTypes, Alone
<1>9. IsRun(r) /\ AllOk(r) /\ Len(steps[r]) < 12 /\ Len(steps[r]) \in Nat
  BY <1>0, <1>1 DEF StepsAt, LoopTypes
<1>10. Len(steps[r]) = 2
  <2>1. STEP_ORDER[Len(steps[r]) + 1] = "corporate_action_processing"
        /\ Len(steps[r]) + 1 \in 1..12
    BY <1>1, <1>9 DEF Current
  <2>2. ASSUME NEW i \in 1..12, STEP_ORDER[i] = "corporate_action_processing" PROVE i = 3
    <3>1. i \in {1, 2, 3, 4, 5, 6, 7, 8, 9, 10, 11, 12}
      OBVIOUS
    <3> QED
      BY <2>2, <3>1 DEF STEP_ORDER
  <2>3. Len(steps[r]) + 1 = 3
    BY <2>1, <2>2
  <2>4. Len(steps[r]) \in Nat
    BY <1>9
  <2>5. \A n \in Nat : n + 1 = 3 => n = 2
    OBVIOUS
  <2> QED
    BY ONLY <2>3, <2>4, <2>5
<1>11. AllOk(r)' /\ IsRun(r)' /\ Len(steps'[r]) = 2
  BY <1>1, <1>9, <1>10 DEF AllOk, IsRun
<1>12. AllOk(r)' => Left(Len(steps[r]))'
  BY <1>11 DEF Left
<1>13. run'[r].ok => Left(12)'
  BY <1>0, <1>1, <1>2, LeftGrows DEF StepsAt
<1>14. at'[r] \in 1..upto'[r] /\ upto'[r] >= NumActions /\ upto'[r] <= NumPortfolios * NumActions
  BY <1>6, <1>7, EodAssumption DEF y
<1>15. \A a \in Actions : ~(a < at'[r])
  BY <1>7 DEF Actions
<1>16. StepsAt(r)'
  BY <1>7, <1>11, <1>12, <1>13, <1>14, <1>15 DEF StepsAt, Loops
<1> QED
  BY <1>2, <1>8, <1>16, StepsKept

\* The steps of _process_single.
LEMMA LoopSteps ==
  ASSUME RunInv, StepsInv, NEW r \in Requests,
         Found(r) \/ Lookup(r) \/ Publish(r) \/ InsertRecord(r)
  PROVE  StepsInv'
<1>0. pc \in [Requests -> Places] /\ LoopTypes /\ StepsAt(r)
  BY DEF RunInv, Types, StepsInv
<1>1. CASE Found(r)
  <2>1. /\ pc[r] = "lookup" /\ Existing(Action(r))
        /\ UNCHANGED <<unknown, run, rows, upto, faults>>
        /\ IF unknown[Action(r)] THEN Raise(r) ELSE Advance(r)
    BY <1>1 DEF Found
  <2>2. Grows
    BY <2>1, Unchanging
  <2>3. UNCHANGED <<record, accrued, run, upto, faults>>
    BY <2>1 DEF rows
  <2>4. /\ record' \in [Actions -> {"none", "processed", "skipped", "failed"}]
        /\ accrued' \in [Portfolios -> Nat] /\ faults' \in Nat
    BY <1>0, <2>3 DEF LoopTypes
  <2>5. CASE unknown[Action(r)]
    BY <1>0, <2>1, <2>2, <2>3, <2>4, <2>5, AfterRaise
  <2>6. CASE ~unknown[Action(r)]
    <3>1. pc[r] \in Loops /\ record'[Action(r)] # "none" /\ Advance(r)
      BY <2>1, <2>3, <2>6 DEF Loops, Existing
    <3> QED
      BY <1>0, <2>2, <2>3, <2>4, <2>6, <3>1, AfterAdvance
  <2> QED
    BY <2>5, <2>6
<1>2. CASE Lookup(r)
  <2>1. /\ pc[r] = "lookup"
        /\ pc' = [pc EXCEPT ![r] = IF Adjusts(r) THEN "publish" ELSE "record"]
        /\ UNCHANGED <<unknown, run, steps, rows, loop, faults>>
    BY <1>2 DEF Lookup, Goto
  <2>2. Grows
    BY <2>1, Unchanging
  <2>3. PICK to \in Loops : pc' = [pc EXCEPT ![r] = to]
    BY <2>1 DEF Loops
  <2>4. pc[r] \in Loops /\ UNCHANGED <<run, steps, at, upto, record, accrued, faults>>
    BY <2>1 DEF loop, rows, Loops
  <2> QED
    BY <2>2, <2>3, <2>4, AfterLoop
<1>3. CASE Publish(r)
  <2>1. /\ pc[r] \in Loops /\ pc' = [pc EXCEPT ![r] = "record"]
        /\ UNCHANGED <<run, steps, at, upto, record, accrued, faults>>
    BY <1>3 DEF Publish, Goto, loop, Loops
  <2>2. Grows
    BY <1>3 DEF Publish, Grows
  <2>3. "record" \in Loops
    BY DEF Loops
  <2> QED
    BY <2>1, <2>2, <2>3, AfterLoop
<1>4. CASE InsertRecord(r)
  <2>0. Action(r) \in Actions /\ pc[r] \in Loops
    BY <1>4, LoopPlace DEF InsertRecord, Loops
  <2>1. /\ pc[r] = "record"
        /\ \/ /\ record[Action(r)] = "none" /\ ~unknown[Action(r)] /\ Advance(r)
              /\ record' = [record EXCEPT ![Action(r)] = Status(r)]
           \/ /\ record' = record \/ record' = [record EXCEPT ![Action(r)] = Status(r)]
              /\ Raise(r)
        /\ UNCHANGED <<unknown, run, nav, pnl, accrued, upto, faults>>
    BY <1>4, Zenon DEF InsertRecord
  <2>2. Status(r) \in {"processed", "skipped", "failed"}
    BY DEF Status
  <2>3. /\ record' \in [Actions -> {"none", "processed", "skipped", "failed"}]
        /\ \A a \in Actions : record[a] # "none" => record'[a] # "none"
        /\ record' = [record EXCEPT ![Action(r)] = Status(r)] => record'[Action(r)] # "none"
    <3>1. PICK s \in {"processed", "skipped", "failed"} : s = Status(r)
      BY <2>2
    <3>2. record' = record \/ record' = [record EXCEPT ![Action(r)] = s]
      BY <2>1, <3>1
    <3> QED
      BY <1>0, <2>0, <3>1, <3>2 DEF LoopTypes
  <2>4. Grows /\ accrued' \in [Portfolios -> Nat] /\ faults' \in Nat
    BY <1>0, <2>1, <2>3 DEF Grows, LoopTypes
  <2>5. CASE Raise(r)
    BY <1>0, <2>1, <2>3, <2>4, <2>5, AfterRaise
  <2>6. CASE Advance(r) /\ ~unknown[Action(r)] /\ record'[Action(r)] # "none"
    BY <1>0, <2>0, <2>1, <2>3, <2>4, <2>6, AfterAdvance
  <2> QED
    BY <2>1, <2>3, <2>5, <2>6
<1> QED
  BY <1>1, <1>2, <1>3, <1>4

\* Failing calls, dying requests and accruals that are passed over.
LEMMA FaultSteps ==
  ASSUME RunInv, StepsInv, NEW r \in Requests, Fault(r)
  PROVE  StepsInv'
<1>0. pc \in [Requests -> Places] /\ LoopTypes /\ StepsAt(r)
  BY DEF RunInv, Types, StepsInv
<1>1. ASSUME NEW n, Interrupted(r, n), UNCHANGED <<unknown, record>>
      PROVE  /\ Grows /\ accrued' \in [Portfolios -> Nat] /\ faults' \in Nat
             /\ record' \in [Actions -> {"none", "processed", "skipped", "failed"}]
  <2>1. /\ faults' = faults + 1
        /\ \/ Effect(r, 1..n)
           \/ UNCHANGED <<nav, pnl, accrued>>
    BY <1>1, Zenon DEF Interrupted
  <2>2. faults' \in Nat /\ faults' > 0
    BY <1>0, <2>1 DEF LoopTypes
  <2>3. record' \in [Actions -> {"none", "processed", "skipped", "failed"}]
    BY <1>0, <1>1 DEF LoopTypes
  <2>4. CASE Effect(r, 1..n)
    BY <1>1, <2>2, <2>3, <2>4, EffectGrows
  <2>5. CASE UNCHANGED <<nav, pnl, accrued>>
    BY <1>0, <1>1, <2>2, <2>3, <2>5 DEF Grows, LoopTypes
  <2> QED
    BY <2>1, <2>4, <2>5
<1>2. ASSUME NEW n, StepFails(r, n) PROVE StepsInv'
  <2>1. Interrupted(r, n) /\ Raise(r) /\ UNCHANGED <<unknown, run, record, upto>>
    BY <1>2 DEF StepFails
  <2> QED
    BY <1>0, <1>1, <2>1, AfterRaise
<1>3. ASSUME NEW n, Dies(r, n) PROVE StepsInv'
  <2>1. Interrupted(r, n) /\ Goto(r, "dead") /\ UNCHANGED <<unknown, run, steps, record, at, upto>>
    BY <1>3 DEF Dies, loop
  <2> QED
    BY <1>0, <1>1, <2>1, AfterEnd DEF Ended
<1>4. ASSUME NEW ps, FeeSkipped(r, ps) PROVE StepsInv'
  <2>1. /\ AtStep(r) /\ Current(r) = "fee_accrual" /\ Effect(r, ps) /\ Completed(r)
        /\ faults' = faults + 1 /\ UNCHANGED <<unknown, run, record, at, upto>>
    BY <1>4 DEF FeeSkipped, loop
  <2>2. faults' \in Nat /\ faults' > 0
        /\ record' \in [Actions -> {"none", "processed", "skipped", "failed"}]
    BY <1>0, <2>1 DEF LoopTypes
  <2>3. Grows /\ accrued' \in [Portfolios -> Nat]
    BY <2>1, <2>2, EffectGrows
  <2>4. PICK n : n = Len(steps[r]) + 1
    OBVIOUS
  <2>5. Left(n)'
    BY <2>1, <2>2, <2>4, EffectLeft
  <2>6. IsRun(r) /\ AllOk(r) /\ Len(steps[r]) < 12
    BY <1>0, <2>1 DEF StepsAt, AtStep
  <2> QED
    BY <1>0, <2>1, <2>2, <2>3, <2>4, <2>5, <2>6, AfterCompleted
<1> QED
  BY <1>2, <1>3, <1>4 DEF Fault

\* StepsInv holds in every reachable state.
LEMMA StepsAlways == Spec => [](RunInv /\ StepsInv)
<1>1. RunInv /\ StepsInv /\ [Next]_vars => StepsInv'
  <2> SUFFICES ASSUME RunInv, StepsInv, [Next]_vars PROVE StepsInv'
    OBVIOUS
  <2>1. ASSUME NEW r \in Requests, Request(r) \/ Work(r) \/ Fault(r) PROVE StepsInv'
    BY <2>1, RequestSteps, RunSteps, FetchSteps, LoopSteps, FaultSteps DEF Work
  <2>2. CASE UNCHANGED vars
    BY <2>2 DEF vars, rows, loop, StepsInv, LoopTypes, StepsAt, AllOk, IsRun, Left
  <2> QED
    BY <2>1, <2>2 DEF Next
<1> QED
  BY InitSteps, RunAlways, <1>1, PTL DEF Spec

(* A successful end-of-day run left behind snapshots and accruals of every *)
(* portfolio and a record of every corporate action, whatever other runs,  *)
(* posted requests and faults it met: a completed step did all its work,   *)
(* a failed one cannot be passed over, and nothing is taken back.          *)
THEOREM SuccessfulRunsAreComplete == Spec => []RunIsComplete
<1>1. StepsInv => RunIsComplete
  BY DEF StepsInv, StepsAt, Left, RunIsComplete
<1> QED
  BY StepsAlways, <1>1, PTL

-----------------------------------------------------------------------------
\* The requests about to record an action, and those that failed or died.
Waiting(a) == {r \in Requests : pc[r] = "record" /\ Action(r) = a}
IsSpoilt(r) == pc[r] \in {"failed", "dead"} \/ ~AllOk(r)
Spoilt == {r \in Requests : IsSpoilt(r)}
Recorded(a) == IF Existing(a) THEN 1 ELSE 0

\* Every publication of an action is accounted for.
Accounted(a) ==
  Publications(a) <= Recorded(a) + Cardinality(Waiting(a)) + Cardinality(Spoilt)

\* What a request is about to publish, or has, before it writes the record.
AdjustsAt(r) ==
  /\ pc[r] = "publish" => Adjusts(r)
  /\ pc[r] = "record" /\ Adjusts(r) => published[Action(r)][Portfolio(r)] > 0

AdjustInv ==
  /\ published \in [Actions -> [Portfolios -> Nat]]
  /\ \A r \in Requests : AdjustsAt(r)
  /\ \A a \in Actions : /\ record[a] = "processed" => Publications(a) > 0
                        /\ Accounted(a)

\* A step of r that publishes nothing: if r stops waiting to record, it has
\* recorded or spoilt.
Settles(r) ==
  /\ published' = published
  /\ \A a \in Actions : Existing(a) => Existing(a)'
  /\ Alone(r)
  /\ IsSpoilt(r) => IsSpoilt(r)'
  /\ pc[r] = "record" => \/ IsSpoilt(r)'
                         \/ ~Existing(Action(r)) /\ record'[Action(r)] # "none"

\* The two parts of the property in the terms of AdjustInv.
LEMMA AdjustInvImplies == AdjustInv => AdjustedOnce
<1> SUFFICES ASSUME AdjustInv, NEW a \in Actions
             PROVE  /\ record[a] = "processed" => Publications(a) > 0
                    /\ Publications(a) <=
                         (IF Existing(a) THEN 1 ELSE 0)
                           + Cardinality({r \in Active : pc[r] = "record" /\ Action(r) = a})
                           + Cardinality({r \in Requests : \/ pc[r] \in {"failed", "dead"}
                                                           \/ "failed" \in Range(steps[r])})
  BY DEF AdjustedOnce
<1>1. {r \in Active : pc[r] = "record" /\ Action(r) = a} = Waiting(a)
  BY DEF Active, Ended, Waiting
<1>2. {r \in Requests : \/ pc[r] \in {"failed", "dead"}
                        \/ "failed" \in Range(steps[r])} = Spoilt
  BY Zenon DEF Spoilt, IsSpoilt, AllOk
<1> QED
  BY <1>1, <1>2 DEF AdjustInv, Accounted, Recorded

\* What the counted sets are.
LEMMA Countable ==
  ASSUME NEW S \in SUBSET Requests
  PROVE  IsFiniteSet(S) /\ Cardinality(S) \in Nat
<1>1. IsFiniteSet(1..NumRequests)
  <2>1. 1 \in Int /\ NumRequests \in Int
    BY EodAssumption
  <2> QED
    BY ONLY <2>1, FS_Interval
<1>2. IsFiniteSet(S)
  BY <1>1, FS_Subset DEF Requests
<1> QED
  BY <1>2, FS_CardinalityType

\* A set that loses at most one request.
LEMMA LosesOne ==
  ASSUME NEW S \in SUBSET Requests, NEW T \in SUBSET Requests, NEW r, S \ {r} \subseteq T
  PROVE  /\ Cardinality(S) <= Cardinality(T) + 1
         /\ r \notin S \/ r \in T => Cardinality(S) <= Cardinality(T)
<1>1. /\ IsFiniteSet(S) /\ Cardinality(S) \in Nat
      /\ IsFiniteSet(T) /\ Cardinality(T) \in Nat
  BY Countable
<1>2. Cardinality(S \ {r}) = IF r \in S THEN Cardinality(S) - 1 ELSE Cardinality(S)
  BY <1>1, FS_RemoveElement
<1>3. Cardinality(S \ {r}) <= Cardinality(T)
  BY <1>1, FS_Subset
<1>4. ASSUME r \notin S \/ r \in T PROVE Cardinality(S) <= Cardinality(T)
  <2>1. S \in SUBSET T
    BY <1>4
  <2> QED
    BY <1>1, <2>1, FS_Subset
<1> QED
  BY <1>1, <1>2, <1>3, <1>4

\* A set that gains a request.
LEMMA GainsOne ==
  ASSUME NEW S \in SUBSET Requests, NEW T \in SUBSET Requests, NEW r,
         S \subseteq T, r \in T, r \notin S
  PROVE  Cardinality(T) >= Cardinality(S) + 1
<1>1. /\ IsFiniteSet(S) /\ Cardinality(S) \in Nat
      /\ IsFiniteSet(T) /\ Cardinality(T) \in Nat
  BY Countable
<1>2. Cardinality(S \cup {r}) = Cardinality(S) + 1
  BY <1>1, FS_AddElement
<1>3. S \cup {r} \in SUBSET T
  OBVIOUS
<1>4. Cardinality(S \cup {r}) <= Cardinality(T)
  BY <1>1, <1>3, FS_Subset
<1> QED
  BY <1>1, <1>2, <1>4

\* The publications of an action are a sum of naturals.
LEMMA PublicationsNat ==
  ASSUME published \in [Actions -> [Portfolios -> Nat]], NEW a \in Actions
  PROVE  /\ Publications(a) = SumFunctionOnSet(published[a], Portfolios)
         /\ Publications(a) \in Nat /\ IsFiniteSet(Portfolios)
         /\ \A p \in Portfolios : published[a][p] <= Publications(a)
<1>1. IsFiniteSet(Portfolios)
  <2>1. 1 \in Int /\ NumPortfolios \in Int
    BY EodAssumption
  <2>2. IsFiniteSet(1..NumPortfolios)
    BY ONLY <2>1, FS_Interval
  <2> QED
    BY <2>2 DEF Portfolios
<1>2. DOMAIN published[a] = Portfolios /\ \A p \in Portfolios : published[a][p] \in Nat
  OBVIOUS
<1>3. Publications(a) = SumFunctionOnSet(published[a], Portfolios)
  BY <1>2 DEF Publications, SumFunction
<1>4. Publications(a) \in Nat
  BY <1>1, <1>2, <1>3, SumNat
<1>5. ASSUME NEW p \in Portfolios PROVE published[a][p] <= Publications(a)
  <2>1. SumFunctionOnSet(published[a], Portfolios)
          = published[a][p] + SumFunctionOnSet(published[a], Portfolios \ {p})
    BY <1>1, <1>2, SumRemove
  <2>2. IsFiniteSet(Portfolios \ {p})
    BY <1>1, FS_RemoveElement
  <2>3. SumFunctionOnSet(published[a], Portfolios \ {p}) \in Nat
    BY <1>2, <2>2, SumNat
  <2> QED
    BY <1>2, <1>3, <2>1, <2>3
<1> QED
  BY <1>1, <1>3, <1>4, <1>5

\* A step that publishes nothing keeps the account.
LEMMA AccountKept ==
  ASSUME AdjustInv, StepsInv, NEW r \in Requests, Settles(r), NEW a \in Actions
  PROVE  Accounted(a)'
<1>1. Publications(a)' = Publications(a) /\ Publications(a) \in Nat /\ Accounted(a)
  BY PublicationsNat DEF Settles, Publications, AdjustInv
<1>2. PICK w : w = Waiting(a)'
  OBVIOUS
<1>3. PICK s : s = Spoilt'
  OBVIOUS
<1>4. w \in SUBSET Requests /\ s \in SUBSET Requests
  BY <1>2, <1>3 DEF Waiting, Spoilt
<1>5. Waiting(a) \in SUBSET Requests /\ Spoilt \in SUBSET Requests
  BY DEF Waiting, Spoilt
<1>6. ASSUME NEW q \in Requests \ {r}
      PROVE  (q \in Waiting(a) => q \in w) /\ (q \in Spoilt => q \in s)
  <2>1. pc'[q] = pc[q] /\ at'[q] = at[q] /\ steps'[q] = steps[q]
    BY DEF Settles, Alone
  <2>2. Action(q)' = Action(q)
    BY <2>1 DEF Action
  <2>3. IsSpoilt(q) => IsSpoilt(q)'
    BY <2>1 DEF IsSpoilt, AllOk
  <2> QED
    BY <1>2, <1>3, <2>1, <2>2, <2>3 DEF Waiting, Spoilt
<1>7. r \in Spoilt => r \in s
  BY <1>3 DEF Settles, Spoilt
<1>8. Waiting(a) \ {r} \subseteq w /\ Spoilt \ {r} \subseteq s /\ Spoilt \subseteq s
  BY <1>5, <1>6, <1>7
<1>9. /\ Cardinality(Waiting(a)) \in Nat /\ Cardinality(Spoilt) \in Nat
      /\ Cardinality(w) \in Nat /\ Cardinality(s) \in Nat
  BY <1>4, <1>5, Countable
<1>10. /\ Cardinality(Waiting(a)) <= Cardinality(w) + 1
       /\ r \notin Waiting(a) => Cardinality(Waiting(a)) <= Cardinality(w)
       /\ Cardinality(Spoilt) <= Cardinality(s)
  BY <1>4, <1>5, <1>7, <1>8, LosesOne
<1>11. /\ Recorded(a) \in {0, 1} /\ Recorded(a)' \in {0, 1}
       /\ Recorded(a) <= Recorded(a)'
  BY DEF Recorded, Settles
<1>12. CASE r \notin Waiting(a)
  BY <1>1, <1>2, <1>3, <1>9, <1>10, <1>11, <1>12 DEF Accounted
<1>13. CASE r \in Waiting(a)
  <2>1. pc[r] = "record" /\ Action(r) = a /\ r \notin Spoilt
    BY <1>13 DEF Waiting, Spoilt, IsSpoilt, StepsInv, StepsAt, Loops
  <2>2. CASE IsSpoilt(r)'
    <3>1. r \in s
      BY <1>3, <2>2 DEF Spoilt
    <3>2. Cardinality(s) >= Cardinality(Spoilt) + 1
      BY <1>4, <1>5, <1>8, <2>1, <3>1, GainsOne
    <3> QED
      BY <1>1, <1>2, <1>3, <1>9, <1>10, <1>11, <3>2 DEF Accounted
  <2>3. CASE ~Existing(a) /\ record'[a] # "none"
    <3>1. Recorded(a) = 0 /\ Recorded(a)' = 1
      BY <2>3 DEF Recorded, Existing
    <3> QED
      BY <1>1, <1>2, <1>3, <1>9, <1>10, <3>1 DEF Accounted
  <2> QED
    BY <2>1, <2>2, <2>3 DEF Settles
<1> QED
  BY <1>12, <1>13

\* A step that publishes and records nothing and leaves its request neither
\* publishing nor recording.
LEMMA QuietStep ==
  ASSUME AdjustInv, StepsInv, NEW r \in Requests, UNCHANGED <<unknown, held, published, record>>,
         Alone(r), IsSpoilt(r) => IsSpoilt(r)', pc[r] = "record" => IsSpoilt(r)',
         pc'[r] \notin {"publish", "record"}
  PROVE  AdjustInv'
<1>1. Settles(r)
  BY DEF Settles, Existing
<1>2. \A a \in Actions : Accounted(a)'
  BY <1>1, AccountKept
<1>3. ASSUME NEW q \in Requests PROVE AdjustsAt(q)'
  <2>1. CASE q = r
    BY <2>1 DEF AdjustsAt
  <2>2. CASE q # r
    <3>1. pc'[q] = pc[q] /\ at'[q] = at[q] /\ AdjustsAt(q)
      BY <2>2 DEF Alone, AdjustInv
    <3> QED
      BY <3>1 DEF AdjustsAt, Adjusts, Action, Portfolio
  <2> QED
    BY <2>1, <2>2
<1>4. \A a \in Actions : record'[a] = "processed" => Publications(a)' > 0
  BY DEF AdjustInv, Publications
<1> QED
  BY <1>2, <1>3, <1>4 DEF AdjustInv

\* Where a completed step takes a request.
LEMMA MoveCompleted ==
  ASSUME StepsInv, NEW r \in Requests, pc \in [Requests -> Places], UNCHANGED <<run, upto, at>>,
         Completed(r)
  PROVE  Alone(r) /\ (~AllOk(r) => ~AllOk(r)') /\ pc'[r] \in {"step", "complete"}
<1>0. steps \in [Requests -> Seq({"completed", "failed"})]
  BY DEF StepsInv, LoopTypes
<1>1. steps' = [steps EXCEPT ![r] = Append(steps[r], "completed")]
  BY DEF Completed
<1>2. PICK to \in {"step", "complete"} : pc' = [pc EXCEPT ![r] = to]
  BY DEF Completed, Goto
<1>3. Range(steps'[r]) = Range(steps[r]) \cup {"completed"}
  BY <1>0, <1>1, OneMoreStep
<1> QED
  BY <1>0, <1>1, <1>2, <1>3 DEF Alone, AllOk

\* An exception spoils the request.
LEMMA MoveRaise ==
  ASSUME StepsInv, NEW r \in Requests, pc \in [Requests -> Places], UNCHANGED <<run, upto>>,
         Raise(r)
  PROVE  Alone(r) /\ IsSpoilt(r)' /\ pc'[r] \in {"complete", "failed"}
<1>0. steps \in [Requests -> Seq({"completed", "failed"})]
  BY DEF StepsInv, LoopTypes
<1>1. CASE Failed(r)
  <2>1. /\ steps' = [steps EXCEPT ![r] = Append(steps[r], "failed")]
        /\ pc' = [pc EXCEPT ![r] = "complete"] /\ at' = at
    BY <1>1 DEF Failed, Goto, Raise
  <2>2. Range(steps'[r]) = Range(steps[r]) \cup {"failed"}
    BY <1>0, <2>1, OneMoreStep
  <2> QED
    BY <1>0, <2>1, <2>2 DEF Alone, AllOk, IsSpoilt
<1>2. CASE Goto(r, "failed") /\ steps' = steps
  BY <1>2 DEF Raise, Goto, Alone, IsSpoilt
<1> QED
  BY <1>1, <1>2 DEF Raise

\* The loops go on, or the step is completed.
LEMMA MoveAdvance ==
  ASSUME StepsInv, NEW r \in Requests, pc \in [Requests -> Places], UNCHANGED <<run, upto>>,
         Advance(r)
  PROVE  /\ Alone(r) /\ (~AllOk(r) => ~AllOk(r)')
         /\ pc'[r] \in {"lookup", "step", "complete", "done"}
<1>0. at \in [Requests -> Nat]
  BY DEF StepsInv, LoopTypes
<1>1. CASE at[r] < upto[r]
  <2>1. /\ at' = [at EXCEPT ![r] = at[r] + 1] /\ pc' = [pc EXCEPT ![r] = "lookup"]
        /\ steps' = steps
    BY <1>1 DEF Advance, Goto
  <2> QED
    BY <1>0, <2>1 DEF Alone, AllOk
<1>2. CASE at' = at /\ Completed(r)
  BY <1>2, MoveCompleted
<1>3. CASE at' = at /\ Goto(r, "done") /\ steps' = steps
  BY <1>3 DEF Goto, Alone, AllOk
<1> QED
  BY <1>1, <1>2, <1>3 DEF Advance

\* A request moves on without a record or a publication.
LEMMA QuietMove ==
  ASSUME AdjustInv, StepsInv, NEW r \in Requests, UNCHANGED <<unknown, held, published, record>>,
         Alone(r), ~AllOk(r) => ~AllOk(r)', pc[r] \notin {"record", "failed", "dead"},
         pc'[r] \notin {"publish", "record"}
  PROVE  AdjustInv'
BY QuietStep DEF IsSpoilt

-----------------------------------------------------------------------------
\* The steps outside the loops.
LEMMA OuterAdjusts ==
  ASSUME RunInv, StepsInv, AdjustInv, NEW r \in Requests,
         Request(r) \/ InsertRun(r) \/ RunStep(r) \/ CompleteRun(r) \/ Fetch(r)
  PROVE  AdjustInv'
<1>0. pc \in [Requests -> Places] /\ run \in [Requests -> Rows]
      /\ at \in [Requests -> Nat] /\ upto \in [Requests -> Nat]
  BY DEF RunInv, Types, StepsInv, LoopTypes
<1>1. CASE RunStep(r)
  <2>1. /\ pc[r] = "step" /\ Completed(r)
        /\ UNCHANGED <<unknown, held, published, record, run, at, upto>>
    BY <1>1 DEF RunStep, AtStep, loop
  <2>2. Alone(r) /\ (~AllOk(r) => ~AllOk(r)') /\ pc'[r] \in {"step", "complete"}
    BY <1>0, <2>1, MoveCompleted
  <2> QED
    BY <2>1, <2>2, QuietMove
<1>2. CASE AlreadyComplete(r) \/ CheckDuplicate(r) \/ InsertRun(r) \/ CompleteRun(r)
  <2>1. /\ pc[r] \in {"new", "insert", "complete"}
        /\ UNCHANGED <<unknown, held, published, record, steps, at, upto>>
    BY <1>2 DEF AlreadyComplete, CheckDuplicate, InsertRun, CompleteRun, Starts, rows, loop
  <2>2. PICK to \in {"done", "insert", "step", "failed"} : pc' = [pc EXCEPT ![r] = to]
    BY <1>2 DEF AlreadyComplete, CheckDuplicate, InsertRun, CompleteRun, Goto
  <2>3. \A q \in Requests \ {r} : run'[q] = run[q]
    BY <1>0, <1>2 DEF AlreadyComplete, CheckDuplicate, InsertRun, CompleteRun
  <2>4. Alone(r) /\ pc'[r] = to
    BY <1>0, <2>1, <2>2, <2>3 DEF Alone
  <2>5. ~AllOk(r) => ~AllOk(r)'
    BY <2>1 DEF AllOk
  <2> QED
    BY <2>1, <2>2, <2>4, <2>5, QuietMove
<1>3. ASSUME NEW first, NEW last, EnterLoop(r, first, last), pc[r] \in {"new", "step"},
             UNCHANGED <<unknown, held, run, steps, rows>>
      PROVE  AdjustInv'
  <2>1. /\ pc' = [pc EXCEPT ![r] = "lookup"]
        /\ \A q \in Requests \ {r} : at'[q] = at[q] /\ upto'[q] = upto[q]
    BY <1>0, <1>3 DEF EnterLoop, Goto
  <2>2. Alone(r) /\ pc'[r] = "lookup"
    BY <1>0, <1>3, <2>1 DEF Alone
  <2>3. ~AllOk(r) => ~AllOk(r)'
    BY <1>3 DEF AllOk
  <2>4. UNCHANGED <<published, record>>
    BY <1>3 DEF rows
  <2> QED
    BY <1>3, <2>2, <2>3, <2>4, QuietMove
<1>4. CASE Fetch(r)
  BY <1>3, <1>4 DEF Fetch
<1>5. ASSUME NEW first, NEW last, Post(r, first, last) PROVE AdjustInv'
  BY <1>3, <1>5 DEF Post, Starts
<1> QED
  BY <1>1, <1>2, <1>4, <1>5 DEF Request

\* An event is published: one more, and its request waits to record it.
LEMMA PublishAdjusts ==
  ASSUME RunInv, StepsInv, AdjustInv, NEW r \in Requests, Publish(r)
  PROVE  AdjustInv'
<1>0. /\ pc \in [Requests -> Places] /\ published \in [Actions -> [Portfolios -> Nat]]
      /\ Action(r) \in Actions /\ Portfolio(r) \in Portfolios
  BY LoopPlace DEF RunInv, Types, AdjustInv, Publish, Loops
<1>1. /\ pc[r] = "publish" /\ pc' = [pc EXCEPT ![r] = "record"]
      /\ published' = [published EXCEPT ![Action(r)] =
                         [published[Action(r)] EXCEPT ![Portfolio(r)] =
                            published[Action(r)][Portfolio(r)] + 1]]
      /\ UNCHANGED <<unknown, held, steps, record, at>>
  BY DEF Publish, Goto, loop
<1> DEFINE b == Action(r)
           p == Portfolio(r)
<1>2. /\ published' \in [Actions -> [Portfolios -> Nat]]
      /\ \A a \in Actions : a # b => published'[a] = published[a]
      /\ published'[b][p] = published[b][p] + 1
      /\ \A o \in Portfolios : o # p => published'[b][o] = published[b][o]
      /\ b \in Actions /\ p \in Portfolios
  <2>1. b \in Actions /\ p \in Portfolios
    BY <1>0
  <2>2. published' = [published EXCEPT ![b] = [published[b] EXCEPT ![p] = published[b][p] + 1]]
    BY <1>1
  <2> HIDE DEF b, p
  <2>3. [published[b] EXCEPT ![p] = published[b][p] + 1] \in [Portfolios -> Nat]
    BY <1>0, <2>1
  <2> QED
    BY <1>0, <2>1, <2>2, <2>3
<1>3. \A q \in Requests : Action(q)' = Action(q) /\ Portfolio(q)' = Portfolio(q)
                          /\ (Adjusts(q)' <=> Adjusts(q))
  BY <1>1 DEF Action, Portfolio, Adjusts
<1>4. \A q \in Requests : pc'[q] = IF q = r THEN "record" ELSE pc[q]
  BY <1>0, <1>1
<1>5. ASSUME NEW a \in Actions, NEW o \in Portfolios PROVE published'[a][o] >= published[a][o]
  <2>1. published[a][o] \in Nat
    BY <1>0
  <2> HIDE DEF b, p
  <2> QED
    BY <1>2, <2>1
<1>6. ASSUME NEW q \in Requests PROVE AdjustsAt(q)'
  <2>1. CASE q = r
    <3>1. published'[b][p] > 0
      BY <1>0, <1>2
    <3> QED
      BY <1>3, <1>4, <2>1, <3>1 DEF AdjustsAt
  <2>2. CASE q # r
    <3>1. pc'[q] = pc[q] /\ AdjustsAt(q)
      BY <1>4, <2>2 DEF AdjustInv
    <3>2. CASE pc[q] = "record" /\ Adjusts(q)
      <4>1. Action(q) \in Actions /\ Portfolio(q) \in Portfolios
        BY <3>2, LoopPlace DEF Loops
      <4>2. published[Action(q)][Portfolio(q)] > 0
        BY <3>1, <3>2 DEF AdjustsAt
      <4>3. /\ published'[Action(q)][Portfolio(q)] \in Nat
            /\ published[Action(q)][Portfolio(q)] \in Nat
            /\ published'[Action(q)][Portfolio(q)] >= published[Action(q)][Portfolio(q)]
        BY <1>0, <1>2, <1>5, <4>1
      <4>4. published'[Action(q)][Portfolio(q)] > 0
        BY <4>2, <4>3
      <4> QED
        BY <1>3, <3>1, <3>2, <4>4 DEF AdjustsAt
    <3>3. CASE ~(pc[q] = "record" /\ Adjusts(q))
      BY <1>3, <3>1, <3>3 DEF AdjustsAt
    <3> QED
      BY <3>2, <3>3
  <2> QED
    BY <2>1, <2>2
<1>7. ASSUME NEW a \in Actions
      PROVE  /\ Publications(a) \in Nat
             /\ Publications(a)' = Publications(a) + (IF a = b THEN 1 ELSE 0)
  <2>1. /\ Publications(a) \in Nat /\ IsFiniteSet(Portfolios)
        /\ Publications(a) = SumFunctionOnSet(published[a], Portfolios)
    BY <1>0, PublicationsNat
  <2>2. CASE a # b
    BY <1>2, <2>1, <2>2 DEF Publications
  <2>3. CASE a = b
    <3>1. DOMAIN published'[b] = Portfolios
      BY <1>2
    <3>2. Publications(a)' = SumFunctionOnSet(published'[b], Portfolios)
      BY <2>3, <3>1 DEF Publications, SumFunction
    <3>3. /\ \A o \in Portfolios : published[b][o] \in Int
          /\ \A o \in Portfolios : published'[b][o] \in Int
      BY <1>0, <1>2
    <3> HIDE DEF b, p
    <3>4. SumFunctionOnSet(published'[b], Portfolios)
            = SumFunctionOnSet(published[b], Portfolios) - published[b][p] + published'[b][p]
      BY <1>2, <2>1, <3>3, SumUpdate
    <3> QED
      BY <1>2, <2>1, <2>3, <3>2, <3>3, <3>4
  <2> QED
    BY <2>2, <2>3
<1>8. ASSUME NEW a \in Actions PROVE record'[a] = "processed" => Publications(a)' > 0
  <2>1. record'[a] = "processed" => Publications(a) > 0
    BY <1>1 DEF AdjustInv
  <2> QED
    BY <1>7, <2>1
<1>9. ASSUME NEW a \in Actions PROVE Accounted(a)'
  <2>1. PICK w : w = Waiting(a)'
    OBVIOUS
  <2>2. PICK s : s = Spoilt'
    OBVIOUS
  <2>3. w = IF a = b THEN Waiting(a) \cup {r} ELSE Waiting(a)
    <3>1. ASSUME NEW q \in Requests
          PROVE  q \in w <=> IF q = r THEN a = b ELSE q \in Waiting(a)
      BY <1>3, <1>4, <2>1 DEF Waiting
    <3>2. w \subseteq Requests /\ Waiting(a) \subseteq Requests
      BY <2>1 DEF Waiting
    <3>3. r \notin Waiting(a)
      BY <1>1 DEF Waiting
    <3> HIDE DEF b, p
    <3>4. CASE a = b
      BY <3>1, <3>2, <3>4
    <3>5. CASE a # b
      BY <3>1, <3>2, <3>3, <3>5
    <3> QED
      BY <3>4, <3>5
  <2>4. s = Spoilt
    <3>1. \A q \in Requests : IsSpoilt(q)' <=> IsSpoilt(q)
      BY <1>1, <1>4 DEF IsSpoilt, AllOk
    <3> QED
      BY <2>2, <3>1 DEF Spoilt
  <2>5. Waiting(a) \in SUBSET Requests /\ Spoilt \in SUBSET Requests /\ r \notin Waiting(a)
    BY <1>1 DEF Waiting, Spoilt
  <2>6. /\ IsFiniteSet(Waiting(a)) /\ Cardinality(Waiting(a)) \in Nat
        /\ Cardinality(Spoilt) \in Nat
    BY <2>5, Countable
  <2>7. Cardinality(w) = Cardinality(Waiting(a)) + (IF a = b THEN 1 ELSE 0)
    <3>1. Cardinality(Waiting(a) \cup {r}) = Cardinality(Waiting(a)) + 1
      BY <2>5, <2>6, FS_AddElement
    <3> HIDE DEF b
    <3>2. CASE a = b
      BY <2>3, <2>6, <3>1, <3>2
    <3>3. CASE a # b
      BY <2>3, <2>6, <3>3
    <3> QED
      BY <3>2, <3>3
  <2>8. Recorded(a)' = Recorded(a) /\ Recorded(a) \in {0, 1}
    BY <1>1 DEF Recorded, Existing
  <2>9. Accounted(a)
    BY DEF AdjustInv
  <2> DEFINE e == IF a = b THEN 1 ELSE 0
  <2>10. e \in {0, 1} /\ Publications(a)' = Publications(a) + e
         /\ Cardinality(w) = Cardinality(Waiting(a)) + e
    BY <1>7, <2>7
  <2> HIDE DEF e
  <2> QED
    BY <1>7, <2>1, <2>2, <2>4, <2>6, <2>8, <2>9, <2>10 DEF Accounted
<1> QED
  BY <1>2, <1>6, <1>8, <1>9 DEF AdjustInv

\* An action is looked up and not found.
LEMMA LookupAdjusts ==
  ASSUME RunInv, StepsInv, AdjustInv, NEW r \in Requests, Lookup(r)
  PROVE  AdjustInv'
<1>0. pc \in [Requests -> Places]
  BY DEF RunInv, Types
<1>1. /\ pc[r] = "lookup"
      /\ pc' = [pc EXCEPT ![r] = IF Adjusts(r) THEN "publish" ELSE "record"]
      /\ UNCHANGED <<unknown, held, run, steps, record, published, at, upto>>
  BY DEF Lookup, Goto, loop, rows
<1>2. Alone(r)
  BY <1>0, <1>1 DEF Alone
<1>3. pc'[r] = IF Adjusts(r) THEN "publish" ELSE "record"
  BY <1>0, <1>1
<1>4. IsSpoilt(r) => IsSpoilt(r)'
  BY <1>1 DEF IsSpoilt, AllOk
<1>5. Settles(r)
  BY <1>1, <1>2, <1>4 DEF Settles, Existing
<1>6. \A a \in Actions : Accounted(a)'
  BY <1>5, AccountKept
<1>7. \A a \in Actions : record'[a] = "processed" => Publications(a)' > 0
  BY <1>1 DEF AdjustInv, Publications
<1>8. ASSUME NEW q \in Requests PROVE AdjustsAt(q)'
  <2>0. (Adjusts(q)' <=> Adjusts(q)) /\ Action(q)' = Action(q) /\ Portfolio(q)' = Portfolio(q)
    BY <1>1 DEF Adjusts, Action, Portfolio
  <2>1. CASE q = r
    BY <1>3, <2>0, <2>1 DEF AdjustsAt
  <2>2. CASE q # r
    <3>1. pc'[q] = pc[q] /\ AdjustsAt(q)
      BY <1>2, <2>2 DEF Alone, AdjustInv
    <3> QED
      BY <1>1, <2>0, <3>1 DEF AdjustsAt
  <2> QED
    BY <2>1, <2>2
<1> QED
  BY <1>1, <1>6, <1>7, <1>8 DEF AdjustInv

\* The record is written, or there is one already and the request fails.
LEMMA RecordAdjusts ==
  ASSUME RunInv, StepsInv, AdjustInv, NEW r \in Requests, InsertRecord(r)
  PROVE  AdjustInv'
<1>0. /\ pc \in [Requests -> Places] /\ pc[r] = "record"
      /\ Action(r) \in Actions /\ Portfolio(r) \in Portfolios
      /\ record \in [Actions -> {"none", "processed", "skipped", "failed"}]
      /\ published \in [Actions -> [Portfolios -> Nat]]
  BY LoopPlace DEF RunInv, Types, InsertRecord, Loops, StepsInv, LoopTypes, AdjustInv
<1>1. /\ \/ /\ record[Action(r)] = "none"
            /\ record' = [record EXCEPT ![Action(r)] = Status(r)]
            /\ Raise(r) \/ Advance(r)
         \/ record' = record /\ Raise(r)
      /\ UNCHANGED <<unknown, held, run, published, upto>>
  BY Zenon DEF InsertRecord
<1>2. /\ Status(r) # "none"
      /\ Status(r) = "processed" => Adjusts(r)
  BY DEF Status, Adjusts
<1>3. /\ Alone(r) /\ pc'[r] \notin {"publish", "record"}
      /\ IsSpoilt(r) => IsSpoilt(r)'
      /\ Raise(r) => IsSpoilt(r)'
  <2>1. CASE Raise(r)
    BY <1>0, <1>1, <2>1, MoveRaise
  <2>2. CASE ~Raise(r) /\ Advance(r)
    <3>1. Alone(r) /\ (~AllOk(r) => ~AllOk(r)') /\ pc'[r] \notin {"publish", "record"}
      BY <1>0, <1>1, <2>2, MoveAdvance
    <3> QED
      BY <1>0, <2>2, <3>1 DEF IsSpoilt
  <2> QED
    BY <1>1, <2>1, <2>2
<1>4. PICK x : x = Status(r)
  OBVIOUS
<1>5. /\ \A a \in Actions : record[a] # "none" => record'[a] # "none"
      /\ \A a \in Actions : record'[a] = record[a] \/ (a = Action(r) /\ record'[a] = x)
      /\ record' # record => record[Action(r)] = "none" /\ record'[Action(r)] # "none"
  BY <1>0, <1>1, <1>2, <1>4
<1>6. Settles(r)
  <2>1. \A a \in Actions : Existing(a) => Existing(a)'
    BY <1>5 DEF Existing
  <2>2. IsSpoilt(r)' \/ (~Existing(Action(r)) /\ record'[Action(r)] # "none")
    <3>1. CASE Raise(r)
      BY <1>3, <3>1
    <3>2. CASE ~Raise(r)
      <4>1. record[Action(r)] = "none" /\ record' = [record EXCEPT ![Action(r)] = x]
        BY <1>1, <1>4, <3>2
      <4> QED
        BY <1>0, <1>2, <1>4, <4>1 DEF Existing
    <3> QED
      BY <3>1, <3>2
  <2> QED
    BY <1>1, <1>3, <2>1, <2>2 DEF Settles
<1>7. \A a \in Actions : Accounted(a)'
  BY <1>6, AccountKept
<1>8. ASSUME NEW a \in Actions, record'[a] = "processed" PROVE Publications(a)' > 0
  <2>1. Publications(a)' = Publications(a)
    BY <1>1 DEF Publications
  <2>2. CASE record[a] = "processed"
    BY <2>1, <2>2 DEF AdjustInv
  <2>3. CASE a = Action(r) /\ x = "processed"
    <3>1. published[a][Portfolio(r)] > 0
      BY <1>0, <1>2, <1>4, <2>3 DEF AdjustInv, AdjustsAt
    <3>2. /\ published[a][Portfolio(r)] <= Publications(a) /\ Publications(a) \in Nat
          /\ published[a][Portfolio(r)] \in Nat
      BY <1>0, PublicationsNat
    <3> QED
      BY <2>1, <3>1, <3>2
  <2> QED
    BY <1>5, <1>8, <2>2, <2>3
<1>9. ASSUME NEW q \in Requests PROVE AdjustsAt(q)'
  <2>1. CASE q = r
    BY <1>3, <2>1 DEF AdjustsAt
  <2>2. CASE q # r
    <3>1. pc'[q] = pc[q] /\ at'[q] = at[q] /\ AdjustsAt(q)
      BY <1>3, <2>2 DEF Alone, AdjustInv
    <3> QED
      BY <1>1, <3>1 DEF AdjustsAt, Adjusts, Action, Portfolio
  <2> QED
    BY <2>1, <2>2
<1> QED
  BY <1>0, <1>1, <1>7, <1>8, <1>9 DEF AdjustInv

\* Failing calls, dying requests and accruals that are passed over.
LEMMA FaultAdjusts ==
  ASSUME RunInv, StepsInv, AdjustInv, NEW r \in Requests, Fault(r)
  PROVE  AdjustInv'
<1>0. pc \in [Requests -> Places]
  BY DEF RunInv, Types
<1>1. ASSUME NEW n, StepFails(r, n) PROVE AdjustInv'
  <2>1. Raise(r) /\ UNCHANGED <<unknown, held, run, record, published, upto>>
    BY <1>1 DEF StepFails
  <2>2. Alone(r) /\ IsSpoilt(r)' /\ pc'[r] \in {"complete", "failed"}
    BY <1>0, <2>1, MoveRaise
  <2> QED
    BY <2>1, <2>2, QuietStep
<1>2. ASSUME NEW n, Dies(r, n) PROVE AdjustInv'
  <2>1. /\ pc' = [pc EXCEPT ![r] = "dead"]
        /\ UNCHANGED <<unknown, held, run, steps, record, published, at, upto>>
    BY <1>2 DEF Dies, Goto, loop
  <2>2. Alone(r) /\ pc'[r] = "dead"
    BY <1>0, <2>1 DEF Alone
  <2>3. IsSpoilt(r)'
    BY <2>2 DEF IsSpoilt
  <2> QED
    BY <2>1, <2>2, <2>3, QuietStep
<1>3. ASSUME NEW ps, FeeSkipped(r, ps) PROVE AdjustInv'
  <2>1. /\ pc[r] = "step" /\ Completed(r)
        /\ UNCHANGED <<unknown, held, published, record, run, at, upto>>
    BY <1>3 DEF FeeSkipped, AtStep, loop
  <2>2. Alone(r) /\ (~AllOk(r) => ~AllOk(r)') /\ pc'[r] \in {"step", "complete"}
    BY <1>0, <2>1, MoveCompleted
  <2> QED
    BY <2>1, <2>2, QuietMove
<1> QED
  BY <1>1, <1>2, <1>3 DEF Fault

\* An action is looked up and found.
LEMMA FoundAdjusts ==
  ASSUME RunInv, StepsInv, AdjustInv, NEW r \in Requests, Found(r)
  PROVE  AdjustInv'
<1>0. pc \in [Requests -> Places]
  BY DEF RunInv, Types
<1>1. /\ pc[r] = "lookup" /\ (Raise(r) \/ Advance(r))
      /\ UNCHANGED <<unknown, held, run, record, published, upto>>
  BY Zenon DEF Found, rows
<1>2. CASE Raise(r)
  <2>1. Alone(r) /\ IsSpoilt(r)' /\ pc'[r] \in {"complete", "failed"}
    BY <1>0, <1>1, <1>2, MoveRaise
  <2> QED
    BY <1>1, <2>1, QuietStep
<1>3. CASE Advance(r)
  <2>1. /\ Alone(r) /\ (~AllOk(r) => ~AllOk(r)')
        /\ pc'[r] \in {"lookup", "step", "complete", "done"}
    BY <1>0, <1>1, <1>3, MoveAdvance
  <2>2. pc[r] = "lookup"
    BY DEF Found
  <2> QED
    BY <1>1, <2>1, <2>2, QuietMove
<1> QED
  BY <1>1, <1>2, <1>3

\* Nothing is published at first.
LEMMA InitAdjusts == Init => AdjustInv
<1> SUFFICES ASSUME Init PROVE AdjustInv
  OBVIOUS
<1>1. published \in [Actions -> [Portfolios -> Nat]]
  BY DEF Init
<1>2. \A r \in Requests : AdjustsAt(r)
  BY DEF Init, AdjustsAt
<1>3. ASSUME NEW a \in Actions PROVE record[a] # "processed" /\ Accounted(a)
  <2>1. \A p \in Portfolios : published[a][p] = 0
    BY DEF Init
  <2>2. Publications(a) = SumFunctionOnSet(published[a], Portfolios) /\ IsFiniteSet(Portfolios)
    BY <1>1, PublicationsNat
  <2>3. Publications(a) = 0
    BY <2>1, <2>2, SumZero
  <2>4. Waiting(a) \in SUBSET Requests /\ Spoilt \in SUBSET Requests
    BY DEF Waiting, Spoilt
  <2>5. Cardinality(Waiting(a)) \in Nat /\ Cardinality(Spoilt) \in Nat
    BY <2>4, Countable
  <2>6. Recorded(a) \in {0, 1}
    BY DEF Recorded
  <2>7. record[a] = "none"
    BY DEF Init
  <2> QED
    BY <2>3, <2>5, <2>6, <2>7 DEF Accounted
<1> QED
  BY <1>1, <1>2, <1>3 DEF AdjustInv

(* Every publication of a corporate action's adjustment is the recorded    *)
(* one or belongs to a request that is about to record it, failed or died, *)
(* however many runs and posted requests process the action at once; and   *)
(* no action is recorded as processed without a publication.               *)
THEOREM AdjustmentsAreAccounted == Spec => []AdjustedOnce
<1>1. RunInv /\ StepsInv /\ AdjustInv /\ [Next]_vars => AdjustInv'
  <2> SUFFICES ASSUME RunInv, StepsInv, AdjustInv, [Next]_vars PROVE AdjustInv'
    OBVIOUS
  <2>1. ASSUME NEW r \in Requests, Request(r) \/ Work(r) \/ Fault(r) PROVE AdjustInv'
    BY <2>1, OuterAdjusts, FoundAdjusts, LookupAdjusts, PublishAdjusts, RecordAdjusts,
       FaultAdjusts DEF Work
  <2>2. CASE UNCHANGED vars
    <3>1. UNCHANGED <<unknown, held, steps, record, published, pc, at>>
      BY <2>2 DEF vars, rows, loop
    <3>2. \A r \in Requests : AdjustsAt(r)'
      BY <3>1 DEF AdjustInv, AdjustsAt, Adjusts, Action, Portfolio
    <3>3. ASSUME NEW a \in Actions PROVE Accounted(a)'
      <4>1. Waiting(a)' = Waiting(a) /\ Spoilt' = Spoilt
        BY <3>1 DEF Waiting, Spoilt, IsSpoilt, AllOk, Action
      <4>2. Recorded(a)' = Recorded(a) /\ Publications(a)' = Publications(a)
        BY <3>1 DEF Recorded, Existing, Publications
      <4> QED
        BY <4>1, <4>2 DEF AdjustInv, Accounted
    <3> QED
      BY <3>1, <3>2, <3>3 DEF AdjustInv, Publications
  <2> QED
    BY <2>1, <2>2 DEF Next
<1> QED
  BY InitAdjusts, StepsAlways, AdjustInvImplies, <1>1, PTL DEF Spec

=============================================================================
