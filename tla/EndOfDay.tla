------------------------------ MODULE EndOfDay ------------------------------
(***************************************************************************)
(* eod/core/orchestrator.py and corporate_actions/services: the end-of-day *)
(* runs of one fund and one business date, together with posted requests   *)
(* to process the corporate actions of that date.  Runs may overlap, fail  *)
(* in a step or die; a failed run is followed by a new one.  Each commit   *)
(* of the corporate actions is a step of its own; the loops of the other   *)
(* steps are one step, since nothing else here reads what they write.      *)
(***************************************************************************)
EXTENDS Naturals, FiniteSets, Sequences, Functions

CONSTANTS
  NumRequests,    \* POST /eod/run or POST /corporate-actions/process
  NumPortfolios,  \* portfolios of the fund
  NumActions,     \* corporate actions of the date
  MaxActive,      \* bound on requests at work at once
  MaxFaults       \* bound on failing calls and dying requests

ASSUME EodAssumption ==
  /\ NumRequests \in Nat
  /\ NumPortfolios \in Nat \ {0}
  /\ NumActions \in Nat \ {0}
  /\ MaxActive \in Nat
  /\ MaxFaults \in Nat

\* Numbered in the order in which they arrive.
Requests == 1..NumRequests
Portfolios == 1..NumPortfolios
Actions == 1..NumActions

STEP_ORDER ==
  <<"market_close", "price_finalization", "corporate_action_processing",
    "position_recon", "nav_calculation", "fee_accrual", "pnl_snapshot",
    "capital_allocation", "dealing_date_execution", "eod_risk",
    "performance_attribution", "report_generation">>

VARIABLES
  unknown,    \* per action: is its type not in ActionType
  held,       \* per portfolio: does it hold the instruments of the actions
  run,        \* per request: its eod_runs row, with the order of its times
  steps,      \* per request: the states in its run_steps rows
  record,     \* per action: state of its processed_corporate_actions row
  published,  \* per action and portfolio: adjustment events published
  nav, pnl,   \* per portfolio: is there a snapshot of the date
  accrued,    \* per portfolio: management fee accruals of the date
  invoked,    \* calls of allocate_daily and of the dealing date's executions
  pc,         \* per request: where it is
  at, upto,   \* per request: its place in the loops over portfolios and actions
  stepData,   \* per request: keys of step_data
  clock,      \* counts started_at and completed_at times
  faults

rows == <<record, published, nav, pnl, accrued, invoked>>
loop == <<at, upto>>
vars == <<unknown, held, run, steps, rows, pc, loop, stepData, clock, faults>>

Ended == {"done", "failed", "dead"}
Active == {r \in Requests : pc[r] \notin Ended \cup {"new"}}

TypeOK ==
  /\ unknown \in [Actions -> BOOLEAN]
  /\ held \in [Portfolios -> BOOLEAN]
  /\ run \in [Requests -> [stored : BOOLEAN, ok : BOOLEAN, start : Nat, end : Nat]]
  /\ steps \in [Requests -> Seq({"completed", "failed"})]
  /\ record \in [Actions -> {"none", "processed", "skipped", "failed"}]
  /\ published \in [Actions -> [Portfolios -> Nat]]
  /\ nav \in [Portfolios -> BOOLEAN] /\ pnl \in [Portfolios -> BOOLEAN]
  /\ accrued \in [Portfolios -> Nat]
  /\ invoked \in [{"capital_allocation", "dealing_date_execution"} -> Nat]
  /\ pc \in [Requests -> Ended \cup {"new", "insert", "step", "lookup", "publish",
                                     "record", "complete"}]
  /\ at \in [Requests -> Nat] /\ upto \in [Requests -> Nat]
  /\ stepData \in [Requests -> SUBSET {"nav_snapshots", "fund_pnl", "fees"}]
  /\ clock \in Nat
  /\ faults \in 0..MaxFaults

Init ==
  /\ unknown \in [Actions -> BOOLEAN]
  /\ held \in [Portfolios -> BOOLEAN]
  /\ run = [r \in Requests |->
              [stored |-> FALSE, ok |-> FALSE, start |-> 0, end |-> 0]]
  /\ steps = [r \in Requests |-> << >>]
  /\ record = [a \in Actions |-> "none"]
  /\ published = [a \in Actions |-> [p \in Portfolios |-> 0]]
  /\ nav = [p \in Portfolios |-> FALSE]
  /\ pnl = [p \in Portfolios |-> FALSE]
  /\ accrued = [p \in Portfolios |-> 0]
  /\ invoked = [s \in {"capital_allocation", "dealing_date_execution"} |-> 0]
  /\ pc = [r \in Requests |-> "new"]
  /\ at = [r \in Requests |-> 0] /\ upto = [r \in Requests |-> 0]
  /\ stepData = [r \in Requests |-> {}]
  /\ clock = 0 /\ faults = 0

Goto(r, to) == pc' = [pc EXCEPT ![r] = to]

-----------------------------------------------------------------------------
(* run_eod *)

Stored == {r \in Requests : run[r].stored}

\* The first run of the date.
EarliestOk ==
  \E r \in Stored : /\ \A s \in Stored : run[r].start <= run[s].start
                    /\ run[r].ok

\* get_latest_run: the one that started last, whatever the others did.
LatestOk ==
  \E r \in Stored : /\ \A s \in Stored : run[s].start <= run[r].start
                    /\ run[r].ok

Starts(r) ==
  /\ pc[r] = "new"
  /\ \A s \in 1..r - 1 : pc[s] # "new"
  /\ Cardinality(Active) < MaxActive

AlreadyComplete(r) ==
  /\ Starts(r)
  /\ LatestOk
  /\ Goto(r, "done")
  /\ UNCHANGED <<unknown, held, run, steps, rows, loop, stepData, clock, faults>>

CheckDuplicate(r) ==
  /\ Starts(r)
  /\ ~LatestOk
  /\ clock' = clock + 1
  /\ run' = [run EXCEPT ![r].start = clock + 1]
  /\ Goto(r, "insert")
  /\ UNCHANGED <<unknown, held, steps, rows, loop, stepData, faults>>

InsertRun(r) ==
  /\ pc[r] = "insert"
  /\ run' = [run EXCEPT ![r].stored = TRUE]
  /\ Goto(r, "step")
  /\ UNCHANGED <<unknown, held, steps, rows, loop, stepData, clock, faults>>

\* The step that the loop over STEP_ORDER is at.
Current(r) == STEP_ORDER[Len(steps[r]) + 1]

\* upsert_step of a completed step, and on to the next.
Completed(r) ==
  /\ steps' = [steps EXCEPT ![r] = Append(@, "completed")]
  /\ Goto(r, IF Len(steps[r]) + 1 = Len(STEP_ORDER) THEN "complete" ELSE "step")

\* upsert_step of a failed step leaves the loop.
Failed(r) ==
  /\ steps' = [steps EXCEPT ![r] = Append(@, "failed")]
  /\ Goto(r, "complete")

\* _execute_step for the portfolios ps, but for corporate actions.  What needs the
\* NAV takes it from step_data.
Effect(r, ps) ==
  LET s == Current(r)
  IN  /\ nav' = [p \in Portfolios |->
                   nav[p] \/ (s = "nav_calculation" /\ p \in ps)]
      /\ pnl' = [p \in Portfolios |-> pnl[p] \/ (s = "pnl_snapshot" /\ p \in ps)]
      /\ accrued' = [p \in Portfolios |->
                       IF s = "fee_accrual" /\ p \in ps THEN accrued[p] + 1
                                                        ELSE accrued[p]]
      /\ invoked' = [t \in DOMAIN invoked |->
                       IF s = t /\ "nav_snapshots" \in stepData[r]
                         THEN invoked[t] + 1 ELSE invoked[t]]

\* step_data or {}: an empty dictionary is replaced by a new one, and what the
\* step adds to that is lost.
Passed(r) ==
  LET key == CASE Current(r) = "nav_calculation" -> {"nav_snapshots"}
               [] Current(r) = "fee_accrual" -> {"fees"}
               [] Current(r) = "pnl_snapshot" -> {"fund_pnl"}
               [] OTHER -> {}
  IN  stepData' = [stepData EXCEPT ![r] = IF @ = {} THEN {} ELSE @ \cup key]

AtStep(r) == pc[r] = "step" /\ Current(r) # "corporate_action_processing"

RunStep(r) ==
  /\ AtStep(r)
  /\ Effect(r, Portfolios)
  /\ Passed(r)
  /\ Completed(r)
  /\ UNCHANGED <<unknown, held, run, record, published, loop, clock, faults>>

\* An exception in the accrual of a portfolio is logged and passed over.
FeeSkipped(r, ps) ==
  /\ AtStep(r)
  /\ Current(r) = "fee_accrual"
  /\ faults < MaxFaults
  /\ faults' = faults + 1
  /\ Effect(r, ps)
  /\ Passed(r)
  /\ Completed(r)
  /\ UNCHANGED <<unknown, held, run, record, published, loop, clock>>

\* A run is successful if some step is.
AnyOk(r) == "completed" \in Range(steps[r])

\* all_ok
AllOk(r) == "failed" \notin Range(steps[r])

\* complete_run
CompleteRun(r) ==
  /\ pc[r] = "complete"
  /\ clock' = clock + 1
  /\ run' = [run EXCEPT ![r].ok = AllOk(r), ![r].end = clock + 1]
  /\ Goto(r, IF AllOk(r) THEN "done" ELSE "failed")
  /\ UNCHANGED <<unknown, held, steps, rows, loop, stepData, faults>>

-----------------------------------------------------------------------------
(* fetch_and_process: every action for every portfolio, in order.  The loops *)
(* are over the numbers of the pairs.                                        *)

Portfolio(r) == ((at[r] - 1) \div NumActions) + 1
Action(r) == ((at[r] - 1) % NumActions) + 1

EnterLoop(r, first, last) ==
  /\ at' = [at EXCEPT ![r] = (first - 1) * NumActions + 1]
  /\ upto' = [upto EXCEPT ![r] = last * NumActions]
  /\ Goto(r, "lookup")

Fetch(r) ==
  /\ pc[r] = "step"
  /\ Current(r) = "corporate_action_processing"
  /\ EnterLoop(r, 1, NumPortfolios)
  /\ UNCHANGED <<unknown, held, run, steps, rows, stepData, clock, faults>>

\* process_corporate_actions: for all portfolios or for one.
Post(r, first, last) ==
  /\ Starts(r)
  /\ EnterLoop(r, first, last)
  /\ UNCHANGED <<unknown, held, run, steps, rows, stepData, clock, faults>>

\* A request that began as an end-of-day run.
IsRun(r) == run[r].start > 0

Advance(r) ==
  IF at[r] < upto[r]
    THEN at' = [at EXCEPT ![r] = @ + 1] /\ Goto(r, "lookup") /\ UNCHANGED steps
    ELSE /\ UNCHANGED at
         /\ IF IsRun(r) THEN Completed(r) ELSE Goto(r, "done") /\ UNCHANGED steps

\* An exception of _process_single ends the step, or the posted request.
Raise(r) ==
  /\ UNCHANGED at
  /\ IF IsRun(r) THEN Failed(r) ELSE Goto(r, "failed") /\ UNCHANGED steps

\* Only what was processed counts.
ExistingProcessed(a) == record[a] = "processed"

\* get_by_action_id: by the action alone, whichever portfolio it was for.
Existing(a) == record[a] # "none"

\* Building the answer fails for a type that is not in ActionType.
Found(r) ==
  /\ pc[r] = "lookup"
  /\ Existing(Action(r))
  /\ IF unknown[Action(r)] THEN Raise(r) ELSE Advance(r)
  /\ UNCHANGED <<unknown, held, run, rows, upto, stepData, clock, faults>>

\* compute_adjustments gives something to publish.  (An action whose amount is
\* zero is like one that nobody holds, except for the state of its record.)
Adjusts(r) == ~unknown[Action(r)] /\ held[Portfolio(r)]

\* The record is written before the events.
LookupAndClaim(r) ==
  /\ pc[r] = "lookup"
  /\ ~Existing(Action(r))
  /\ record' = [record EXCEPT ![Action(r)] = IF Adjusts(r) THEN "processed" ELSE "none"]
  /\ Goto(r, IF Adjusts(r) THEN "publish" ELSE "record")
  /\ UNCHANGED <<unknown, held, run, steps, published, nav, pnl, accrued, invoked, loop,
                 stepData, clock, faults>>

Lookup(r) ==
  /\ pc[r] = "lookup"
  /\ ~Existing(Action(r))
  /\ Goto(r, IF Adjusts(r) THEN "publish" ELSE "record")
  /\ UNCHANGED <<unknown, held, run, steps, rows, loop, stepData, clock, faults>>

Publish(r) ==
  /\ pc[r] = "publish"
  /\ published' = [published EXCEPT ![Action(r)][Portfolio(r)] = @ + 1]
  /\ Goto(r, "record")
  /\ UNCHANGED <<unknown, held, run, steps, record, nav, pnl, accrued, invoked, loop,
                 stepData, clock, faults>>

Status(r) ==
  IF unknown[Action(r)] THEN "failed"
  ELSE IF held[Portfolio(r)] THEN "processed" ELSE "skipped"

\* insert; action_id is unique.
InsertRecord(r) ==
  /\ pc[r] = "record"
  /\ IF record[Action(r)] = "none"
       THEN /\ record' = [record EXCEPT ![Action(r)] = Status(r)]
            /\ IF unknown[Action(r)] THEN Raise(r) ELSE Advance(r)
       ELSE UNCHANGED record /\ Raise(r)
  /\ UNCHANGED <<unknown, held, run, published, nav, pnl, accrued, invoked, upto,
                 stepData, clock, faults>>

-----------------------------------------------------------------------------
(* A call fails inside a step or the request dies, after some portfolios.  *)

Interrupted(r, n) ==
  /\ faults < MaxFaults
  /\ faults' = faults + 1
  /\ IF AtStep(r) THEN Effect(r, 1..n)
                  ELSE n = 0 /\ UNCHANGED <<nav, pnl, accrued, invoked>>

\* The steps whose calls may raise.
Fallible == {"price_finalization", "position_recon", "nav_calculation", "pnl_snapshot",
             "report_generation"}

StepFails(r, n) ==
  /\ \/ AtStep(r) /\ Current(r) \in Fallible
     \/ pc[r] \in {"lookup", "record"}
  /\ Interrupted(r, n)
  /\ Raise(r)
  /\ UNCHANGED <<unknown, held, run, record, published, upto, stepData, clock>>

Dies(r, n) ==
  /\ r \in Active
  /\ Interrupted(r, n)
  /\ Goto(r, "dead")
  /\ UNCHANGED <<unknown, held, run, steps, record, published, loop, stepData, clock>>

Work(r) ==
  \/ InsertRun(r) \/ RunStep(r) \/ CompleteRun(r)
  \/ Fetch(r) \/ Found(r) \/ Lookup(r) \/ Publish(r) \/ InsertRecord(r)

Request(r) ==
  \/ AlreadyComplete(r) \/ CheckDuplicate(r)
  \/ Post(r, 1, NumPortfolios)
  \/ \E p \in Portfolios : Post(r, p, p)

Fault(r) ==
  \/ \E n \in 0..NumPortfolios : StepFails(r, n) \/ Dies(r, n)
  \/ \E ps \in SUBSET Portfolios : FeeSkipped(r, ps)

Next == \E r \in Requests : Request(r) \/ Work(r) \/ Fault(r)

Spec == Init /\ [][Next]_vars

FairSpec == Spec /\ \A r \in Requests : WF_vars(Work(r))

-----------------------------------------------------------------------------
(* The check for a duplicate looks at the latest run only.  That is enough *)
(* when nothing started while the successful run was at work: no later     *)
(* request starts the sequence again, whatever failed before.              *)
SuccessIsFinal ==
  \A r, s \in Stored :
    run[r].ok /\ run[s].start > run[r].end =>
      \E q \in Requests : run[q].start \in run[r].start + 1..run[r].end

(* A run that is marked successful left everything behind that its steps   *)
(* are for, in whatever order it met faults, reruns and other requests:    *)
(* snapshots and, unless a fault was passed over, accruals of every        *)
(* portfolio, and a record of every action, none of which is unknown.      *)
RunIsComplete ==
  \A r \in Requests : run[r].ok =>
    /\ \A p \in Portfolios : /\ nav[p] /\ pnl[p]
                             /\ accrued[p] = 0 => faults > 0
    /\ \A a \in Actions : record[a] # "none" /\ ~unknown[a]

Publications(a) == SumFunction(published[a])

(* An action that adjusts a position and is recorded as processed has been *)
(* published, and every publication beyond the recorded one belongs to a   *)
(* request that is about to record it, failed or died: the unique action   *)
(* id does not prevent the second publication but makes it visible.        *)
AdjustedOnce ==
  \A a \in Actions :
    /\ record[a] = "processed" => Publications(a) > 0
    /\ Publications(a) <=
         (IF Existing(a) THEN 1 ELSE 0)
           + Cardinality({r \in Active : pc[r] = "record" /\ Action(r) = a})
           + Cardinality({r \in Requests : \/ pc[r] \in {"failed", "dead"}
                                           \/ "failed" \in Range(steps[r])})

Closed == \E r \in Requests : run[r].ok

\* A new run is the only request at work, and no fault is left.
FreshStart ==
  /\ ~Closed
  /\ faults = MaxFaults
  /\ \E r \in Requests : Active = {r} /\ pc[r] = "insert"
  /\ \A a \in Actions : ~unknown[a]

(* Nothing that failed runs, dead requests or posted requests left behind  *)
(* stops a later run: once faults are over, a run that nobody interferes   *)
(* with succeeds, unless an action has a type the platform does not know.  *)
RerunCloses == FreshStart ~> Closed \/ Cardinality(Active) > 1

(* orchestrator.py passes data between steps, "NAV -> fees -> capital": a  *)
(* successful run has allocated the day's result to the capital accounts.  *)
NavReachesCapital ==
  \A r \in Requests : run[r].ok => invoked["capital_allocation"] > 0

=============================================================================
