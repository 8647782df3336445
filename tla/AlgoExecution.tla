---------------------------- MODULE AlgoExecution ----------------------------
(***************************************************************************)
(* One algo parent order: orders/core/algo_engine.py, algo_runner.py and   *)
(* the parent/child code of orders/services/order.py.                      *)
(*                                                                         *)
(* Five activities share the order rows: create_algo_order after the gate, *)
(* the runner task that creates one child per slice, the processing of a   *)
(* child's fill (by the report consumer, or inside the runner's own task   *)
(* with the in-process broker), cancel_order, and a process restart        *)
(* followed by recover_active_algos.                                       *)
(***************************************************************************)
EXTENDS Integers, Sequences, FiniteSetsExt

CONSTANTS
  NumSlices,   \* slices of the parent
  SliceQty,    \* quantity of every slice
  Algos,       \* algorithms: a subset of timed (TWAP, VWAP) and iceberg
  Brokers,     \* brokers: a subset of exchange and in_process
  HttpAttempts, \* stop_after_attempt of _retry_http
  MaxCancels,  \* bound on cancel requests
  MaxFaults    \* bound on restarts

ASSUME AlgoAssumption ==
  /\ NumSlices \in Nat \ {0}
  /\ SliceQty \in Nat \ {0}
  /\ Algos \subseteq {"timed", "iceberg"}
  /\ Brokers \subseteq {"exchange", "in_process"}
  /\ HttpAttempts \in Nat \ {0}
  /\ MaxCancels \in Nat
  /\ MaxFaults \in Nat

Slices == 1..NumSlices

VARIABLES
  algo, broker,      \* the parent's algo_type and broker
  pstate, pfilled,   \* the parent's row
  cstate, cfilled,   \* the rows of the children, "none" before the insert
  starter,           \* create_algo_order after the gate's write
  registered,        \* AlgoEngine._runners holds the runner
  rpc, rrec,         \* runner task: where it is, its snapshot of the child
  idx,               \* runner: the slice it works on
  stopFlag,          \* runner: _cancelled
  event,             \* runner: _pending_fill_event
  submitted,         \* per slice: calls of submit for its child
  live,              \* exchange: accepted POSTs that are not executed yet
  reports,           \* execution reports not consumed yet
  fpc, fill, frec,   \* _process_fill: where it is, its report, child snapshot
  fparent, fderived, \* _process_fill: parent snapshot, derived parent row
  kpc, krec, kset,   \* cancel_order: where it is, parent snapshot, children
  cancels, faults

request == <<algo, broker>>
parent == <<pstate, pfilled>>
children == <<cstate, cfilled>>
runner == <<registered, rpc, rrec, idx, stopFlag, event, submitted>>
market == <<live, reports>>
filling == <<fpc, fill, frec, fparent, fderived>>
cancelling == <<kpc, krec, kset, cancels>>
vars == <<request, parent, children, starter, runner, market, filling, cancelling, faults>>

\* is_fill_driven
Iceberg == algo = "iceberg"

\* The broker acks "filled".
InProcess == broker = "in_process"

ChildStates == {"DRAFT", "APPROVED", "SENT", "PARTIALLY_FILLED", "FILLED", "CANCELLED"}

NoFill == [child |-> 0, qty |-> 0]

TypeOK ==
  /\ algo \in Algos /\ broker \in Brokers
  /\ pstate \in {"APPROVED", "WORKING", "PARTIALLY_FILLED", "FILLED", "CANCELLED"}
  /\ pfilled \in Nat
  /\ cstate \in [Slices -> ChildStates \cup {"none"}]
  /\ cfilled \in [Slices -> 0..SliceQty]
  /\ starter \in {"gated", "approved", "working", "returned"}
  /\ registered \in BOOLEAN
  /\ rpc \in {"none", "top", "waiting", "insert", "approve", "send", "submit", "filling"}
  /\ rrec \in ChildStates \cup {"none"}
  /\ idx \in 1..(NumSlices + 1)
  /\ stopFlag \in BOOLEAN
  /\ event \in BOOLEAN
  /\ submitted \in [Slices -> Nat]
  /\ live \in [Slices -> 0..HttpAttempts]
  /\ reports \in Seq([child : Slices, qty : 1..SliceQty])
  /\ fpc \in {"idle", "child", "readParent", "readChildren", "writeParent", "notify"}
  /\ frec \in [state : ChildStates \cup {"none"}, filled : 0..SliceQty]
  /\ kpc \in {"idle", "stop", "readChildren", "write"}
  /\ kset \subseteq Slices
  /\ cancels \in 0..MaxCancels
  /\ faults \in 0..MaxFaults

Init ==
  /\ algo \in Algos /\ broker \in Brokers
  /\ pstate = "APPROVED" /\ pfilled = 0
  /\ cstate = [i \in Slices |-> "none"]
  /\ cfilled = [i \in Slices |-> 0]
  /\ starter = "gated"
  /\ registered = FALSE /\ rpc = "none" /\ rrec = "none" /\ idx = 1
  /\ stopFlag = FALSE /\ event = FALSE
  /\ submitted = [i \in Slices |-> 0]
  /\ live = [i \in Slices |-> 0] /\ reports = <<>>
  /\ fpc = "idle" /\ fill = NoFill /\ frec = [state |-> "none", filled |-> 0]
  /\ fparent = "none" /\ fderived = [state |-> "none", filled |-> 0]
  /\ kpc = "idle" /\ krec = "none" /\ kset = {}
  /\ cancels = 0 /\ faults = 0

-----------------------------------------------------------------------------
\* The rows of _TRANSITIONS that parents and children use.
Transitions ==
  [none             |-> {},
   DRAFT            |-> {"CANCELLED"},
   APPROVED         |-> {"SENT", "WORKING", "CANCELLED"},
   WORKING          |-> {"PARTIALLY_FILLED", "FILLED", "CANCELLED"},
   SENT             |-> {"PARTIALLY_FILLED", "FILLED", "CANCELLED"},
   PARTIALLY_FILLED |-> {"PARTIALLY_FILLED", "FILLED", "CANCELLED"},
   FILLED           |-> {},
   CANCELLED        |-> {}]

Valid(from, to) == to \in Transitions[from]

\* create_algo_order, once the gate has written APPROVED: the re-read at the
\* end of update_state is all that apply_transition looks at.
StarterReload ==
  /\ starter = "gated"
  /\ starter' = IF Valid(pstate, "WORKING") THEN "approved" ELSE "returned"
  /\ UNCHANGED <<parent, children, runner, market, filling, cancelling, request, faults>>

MarkWorking ==
  /\ starter = "approved"
  /\ pstate' = "WORKING"
  /\ starter' = "working"
  /\ UNCHANGED <<pfilled, children, runner, market, filling, cancelling, request, faults>>

\* runner.start(): a new task at slice i.
StartRunner(i, stopped) ==
  /\ registered' = TRUE
  /\ rpc' = "top"
  /\ idx' = i
  /\ stopFlag' = stopped
  /\ event' = stopped
  /\ rrec' = "none"

StartAlgo ==
  /\ starter = "working"
  /\ starter' = "returned"
  /\ StartRunner(1, FALSE)
  /\ UNCHANGED <<parent, children, submitted, market, filling, cancelling, request, faults>>

-----------------------------------------------------------------------------
\* The loop of _run.  The end of the loop calls _on_runner_complete.
EndRunner ==
  /\ registered' = FALSE
  /\ rpc' = "none"
  /\ rrec' = "none"
  /\ UNCHANGED <<idx, stopFlag, event, submitted>>

\* TWAP and VWAP sleep until the slice is due; Iceberg clears the event and
\* waits for a fill, except before the first slice.
RunnerTop ==
  /\ rpc = "top"
  /\ IF stopFlag \/ idx > NumSlices
       THEN EndRunner
       ELSE /\ IF Iceberg /\ idx > 1
                 THEN rpc' = "waiting" /\ event' = FALSE
                 ELSE rpc' = "insert" /\ UNCHANGED event
            /\ UNCHANGED <<registered, rrec, idx, stopFlag, submitted>>
  /\ UNCHANGED <<parent, children, starter, market, filling, cancelling, request, faults>>

RunnerWake ==
  /\ rpc = "waiting"
  /\ event
  /\ rpc' = "insert"
  /\ UNCHANGED <<parent, children, starter, registered, rrec, idx, stopFlag, event,
                 submitted, market, filling, cancelling, request, faults>>

\* A waiter that is never timed out.
NoTimeout == FALSE /\ UNCHANGED vars

\* The 300 s timeout ends the runner; the child's fill may still be on its way.
RunnerTimeout ==
  /\ rpc = "waiting"
  /\ ~event
  /\ EndRunner
  /\ UNCHANGED <<parent, children, starter, market, filling, cancelling, request, faults>>

RunnerGoto(at, rec) ==
  /\ rpc' = at
  /\ rrec' = rec
  /\ UNCHANGED <<registered, idx, stopFlag, event>>

WriteChild(i, to) == cstate' = [cstate EXCEPT ![i] = to] /\ UNCHANGED cfilled

\* create_child_order.  Neither the parent's state nor _cancelled is looked at.
InsertChild ==
  /\ rpc = "insert"
  /\ WriteChild(idx, "DRAFT")
  /\ RunnerGoto("approve", "DRAFT")
  /\ UNCHANGED <<parent, starter, submitted, market, filling, cancelling, request, faults>>

ApproveChild ==
  /\ rpc = "approve"
  /\ WriteChild(idx, "APPROVED")
  /\ RunnerGoto("send", "none")
  /\ UNCHANGED <<parent, starter, submitted, market, filling, cancelling, request, faults>>

\* The re-read at the end of update_state.
RunnerReload ==
  /\ rpc \in {"send", "submit"}
  /\ rrec = "none"
  /\ RunnerGoto(rpc, cstate[idx])
  /\ UNCHANGED <<parent, children, starter, submitted, market, filling, cancelling, request, faults>>

\* The loop goes on with the next slice, after an exception too.
NextSlice ==
  /\ rpc' = "top"
  /\ rrec' = "none"
  /\ idx' = idx + 1
  /\ UNCHANGED <<registered, stopFlag, event>>

SendChild ==
  /\ rpc = "send"
  /\ rrec # "none"
  /\ IF Valid(rrec, "SENT")
       THEN WriteChild(idx, "SENT") /\ RunnerGoto("submit", "none")
       ELSE UNCHANGED children /\ NextSlice
  /\ UNCHANGED <<parent, starter, submitted, market, filling, cancelling, request, faults>>

Submitting == rpc = "submit" /\ rrec # "none"

CountSubmit == submitted' = [submitted EXCEPT ![idx] = @ + 1]

\* The exchange takes every POST of one submit for an order of its own.
Accepted(n) == live' = [live EXCEPT ![idx] = @ + n]

SubmitAccepted ==
  /\ Submitting
  /\ ~InProcess
  /\ CountSubmit
  /\ \E n \in 1..HttpAttempts : Accepted(n)
  /\ NextSlice
  /\ UNCHANGED <<parent, children, starter, reports, filling, cancelling, request, faults>>

\* The in-process broker acks "filled": the runner's task processes the fill.
SubmitFilled ==
  /\ Submitting
  /\ InProcess
  /\ CountSubmit
  /\ RunnerGoto("filling", rrec)
  /\ fpc' = "child"
  /\ fill' = [child |-> idx, qty |-> SliceQty]
  /\ frec' = [state |-> rrec, filled |-> 0]
  /\ UNCHANGED <<parent, children, starter, market, fparent, fderived, cancelling, request, faults>>

\* An ack "rejected" is not looked at: the child stays SENT.
SubmitRejected ==
  /\ Submitting
  /\ ~InProcess
  /\ CountSubmit
  /\ NextSlice
  /\ UNCHANGED <<parent, children, starter, market, filling, cancelling, request, faults>>

\* A failed slice ends the runner.
SubmitAborts ==
  /\ Submitting
  /\ ~InProcess
  /\ EndRunner
  /\ UNCHANGED <<parent, children, starter, market, filling, cancelling, request, faults>>

\* The submit raises, at the first POST (the circuit is open) or after the
\* last one; the exchange may have accepted any of them.
SubmitFails ==
  /\ Submitting
  /\ ~InProcess
  /\ CountSubmit
  /\ \E n \in 0..HttpAttempts : Accepted(n)
  /\ NextSlice
  /\ UNCHANGED <<parent, children, starter, reports, filling, cancelling, request, faults>>

-----------------------------------------------------------------------------
ExchangeFill(i) ==
  /\ live[i] > 0
  /\ live' = [live EXCEPT ![i] = @ - 1]
  /\ \E q \in 1..SliceQty : reports' = Append(reports, [child |-> i, qty |-> q])
  /\ UNCHANGED <<parent, children, starter, runner, filling, cancelling, request, faults>>

FillsEnd == fill' = NoFill /\ fparent' = "none"
              /\ frec' = [state |-> "none", filled |-> 0]
              /\ fderived' = [state |-> "none", filled |-> 0]

\* process_execution_report: a child that is neither SENT nor PARTIALLY_FILLED
\* gets no fill.
FillLocate ==
  /\ fpc = "idle"
  /\ reports # <<>>
  /\ reports' = Tail(reports)
  /\ LET c == Head(reports).child
     IN  IF cstate[c] \in {"SENT", "PARTIALLY_FILLED"}
           THEN /\ fpc' = "child"
                /\ fill' = Head(reports)
                /\ frec' = [state |-> cstate[c], filled |-> cfilled[c]]
                /\ UNCHANGED <<fparent, fderived>>
           ELSE UNCHANGED filling
  /\ UNCHANGED <<parent, children, starter, runner, live, cancelling, request, faults>>

\* The end of _process_fill; in the runner's task the loop goes on.
FillReturns ==
  /\ fpc' = "idle"
  /\ FillsEnd
  /\ IF rpc = "filling" THEN NextSlice ELSE UNCHANGED <<registered, rpc, rrec, idx, stopFlag, event>>
  /\ UNCHANGED submitted

\* fill_quantity <= remaining
WithinRemaining(total) == total <= SliceQty

FillChild ==
  /\ fpc = "child"
  /\ LET total  == frec.filled + fill.qty
         target == IF total >= SliceQty THEN "FILLED" ELSE "PARTIALLY_FILLED"
     IN  IF WithinRemaining(total) /\ Valid(frec.state, target)
           THEN /\ cstate' = [cstate EXCEPT ![fill.child] = target]
                /\ cfilled' = [cfilled EXCEPT ![fill.child] = total]
                /\ fpc' = "readParent"
                /\ UNCHANGED <<fill, frec, fparent, fderived, runner>>
           ELSE FillReturns /\ UNCHANGED children
  /\ UNCHANGED <<parent, starter, market, cancelling, request, faults>>

\* _update_parent_from_children: read the parent, read the children, write.
FillReadParent ==
  /\ fpc = "readParent"
  /\ fparent' = pstate
  /\ fpc' = "readChildren"
  /\ UNCHANGED <<parent, children, starter, runner, market, fill, frec, fderived,
                 cancelling, request, faults>>

\* derive_parent_state
DeriveParentState(states) ==
  CASE states = {"FILLED"} -> "FILLED"
    [] states = {"CANCELLED"} -> "CANCELLED"
    [] states \cap {"FILLED", "PARTIALLY_FILLED"} # {} /\ states # {"FILLED"}
         -> "PARTIALLY_FILLED"
    [] OTHER -> "WORKING"

Existing == {i \in Slices : cstate[i] # "none"}

\* Only children that are active.
TotalOfActive ==
  MapThenSumSet(LAMBDA i : cfilled[i], {i \in Existing : cstate[i] # "FILLED"})

TotalFilled == MapThenSumSet(LAMBDA i : cfilled[i], Existing)

FillReadChildren ==
  /\ fpc = "readChildren"
  /\ fderived' = [state |-> DeriveParentState({cstate[i] : i \in Existing}),
                  filled |-> TotalFilled]
  /\ fpc' = "writeParent"
  /\ UNCHANGED <<parent, children, starter, runner, market, fill, frec, fparent,
                 cancelling, request, faults>>

\* A transition that is not valid is skipped, fills and all.
FillWriteParent ==
  /\ fpc = "writeParent"
  /\ IF fderived.state = fparent \/ Valid(fparent, fderived.state)
       THEN pstate' = fderived.state /\ pfilled' = fderived.filled
       ELSE UNCHANGED parent
  /\ fpc' = "notify"
  /\ UNCHANGED <<children, starter, runner, market, fill, frec, fparent, fderived,
                 cancelling, request, faults>>

\* AlgoEngine.on_child_filled sets the event of an active Iceberg runner.
FillNotify ==
  /\ fpc = "notify"
  /\ fpc' = "idle"
  /\ FillsEnd
  /\ event' = (event \/ (Iceberg /\ registered))
  /\ IF rpc = "filling"
       THEN rpc' = "top" /\ rrec' = "none" /\ idx' = idx + 1
       ELSE UNCHANGED <<rpc, rrec, idx>>
  /\ UNCHANGED <<parent, children, starter, registered, stopFlag, submitted, market,
                 cancelling, request, faults>>

-----------------------------------------------------------------------------
\* cancel_order of the parent: read it, stop the runner, cancel the active
\* children one by one, write the parent.
CancelRead ==
  /\ kpc = "idle"
  /\ cancels < MaxCancels
  /\ cancels' = cancels + 1
  /\ krec' = pstate
  /\ kpc' = "stop"
  /\ UNCHANGED <<parent, children, starter, runner, market, filling, kset, request, faults>>

\* A cancel that raises the flag and lets the task go on to its next check.
CancelFlagOnly ==
  /\ kpc = "stop"
  /\ kpc' = "readChildren"
  /\ stopFlag' = (stopFlag \/ registered)
  /\ UNCHANGED <<parent, children, starter, registered, rpc, rrec, idx, event, submitted,
                 market, filling, krec, kset, cancels, request, faults>>

\* cancel_algo: the task is cancelled at its await, the fill it may be
\* processing included; without a runner there is nothing to stop.
CancelStop ==
  /\ kpc = "stop"
  /\ kpc' = "readChildren"
  /\ IF registered
       THEN /\ registered' = FALSE /\ rpc' = "none" /\ rrec' = "none"
            /\ stopFlag' = TRUE /\ event' = TRUE
            /\ UNCHANGED <<idx, submitted>>
       ELSE UNCHANGED runner
  /\ IF rpc = "filling" THEN fpc' = "idle" /\ FillsEnd ELSE UNCHANGED filling
  /\ UNCHANGED <<parent, children, starter, market, krec, kset, cancels, request, faults>>

CancelReadChildren ==
  /\ kpc = "readChildren"
  /\ kset' = {i \in Existing : cstate[i] \notin {"FILLED", "CANCELLED"}}
  /\ kpc' = "write"
  /\ UNCHANGED <<parent, children, starter, runner, market, filling, krec, cancels, request, faults>>

CancelChild(i) ==
  /\ kpc = "write"
  /\ i \in kset
  /\ WriteChild(i, "CANCELLED")
  /\ kset' = kset \ {i}
  /\ UNCHANGED <<parent, starter, runner, market, filling, kpc, krec, cancels, request, faults>>

CancelParent ==
  /\ kpc = "write"
  /\ kset = {}
  /\ pstate' = IF Valid(krec, "CANCELLED") THEN "CANCELLED" ELSE pstate
  /\ kpc' = "idle"
  /\ krec' = "none"
  /\ UNCHANGED <<pfilled, children, starter, runner, market, filling, kset, cancels, request, faults>>

-----------------------------------------------------------------------------
\* The process dies.  The report in progress is delivered again or is lost
\* with the committed offset.
Crash ==
  /\ faults < MaxFaults
  /\ faults' = faults + 1
  /\ starter' = "returned"
  /\ registered' = FALSE /\ rpc' = "none" /\ rrec' = "none"
  /\ stopFlag' = FALSE /\ event' = FALSE
  /\ fpc' = "idle" /\ FillsEnd
  /\ \/ fpc # "idle" /\ ~InProcess /\ reports' = <<fill>> \o reports
     \/ UNCHANGED reports
  /\ kpc' = "idle" /\ krec' = "none" /\ kset' = {}
  /\ UNCHANGED <<parent, children, idx, submitted, live, cancels, request>>

\* A recovery that restarts the runner from the first slice.
RecoverFromStart ==
  /\ faults > 0 /\ starter = "returned" /\ ~registered
  /\ pstate = "WORKING"
  /\ StartRunner(1, FALSE)
  /\ UNCHANGED <<parent, children, starter, submitted, market, filling, cancelling, request, faults>>

\* recover_active_algos: start_algo, then runner.cancel(), which sets
\* _cancelled and the event, then runner.start(resume_from), which resets
\* neither.
Recover ==
  /\ faults > 0 /\ starter = "returned" /\ ~registered
  /\ pstate = "WORKING"
  /\ StartRunner(Cardinality(Existing) + 1, TRUE)
  /\ UNCHANGED <<parent, children, starter, submitted, market, filling, cancelling, request, faults>>

Run ==
  \/ StarterReload \/ MarkWorking \/ StartAlgo
  \/ RunnerTop \/ RunnerWake \/ InsertChild \/ ApproveChild \/ RunnerReload \/ SendChild
  \/ SubmitAccepted \/ SubmitFilled \/ SubmitRejected \/ SubmitFails

ProcessFill ==
  FillLocate \/ FillChild \/ FillReadParent \/ FillReadChildren \/ FillWriteParent \/ FillNotify

Cancel ==
  \/ CancelStop \/ CancelReadChildren \/ CancelParent
  \/ \E i \in Slices : CancelChild(i)

Next ==
  \/ Run \/ RunnerTimeout \/ ProcessFill
  \/ \E i \in Slices : ExchangeFill(i)
  \/ CancelRead \/ Cancel
  \/ Crash \/ Recover

Spec == Init /\ [][Next]_vars

\* The event loop runs every task that is ready, the consumer takes every
\* report, the exchange executes what it accepted, wait_for times out.
Fairness ==
  /\ WF_vars(Run)
  /\ WF_vars(RunnerTimeout)
  /\ WF_vars(ProcessFill)
  /\ WF_vars(\E i \in Slices : ExchangeFill(i))
  /\ WF_vars(Cancel)

FairSpec == Spec /\ Fairness

-----------------------------------------------------------------------------
Total == MapThenSumSet(LAMBDA i : cfilled[i], Slices)

\* No slice is submitted twice, whatever restarts, recoveries and failed
\* submits happen on the way (recover_active_algos resumes after the children
\* that exist).
OneChildPerSlice == \A i \in Slices : submitted[i] <= 1

\* What a step of a process whose runner was told to stop leaves alone.
StopHonoured ==
  stopFlag /\ faults' = faults =>
    /\ submitted' = submitted
    /\ \A i \in Slices : cstate[i] = "none" => cstate'[i] = "none"

\* Once cancel_algo has stopped the runner, no child of it is created and none
\* goes to the broker, wherever the task was in create_child_order.
NoSubmitAfterStop == [][StopHonoured]_vars

\* With the in-process broker, whose fills are processed inside the runner's
\* task, the parent's fills are its children's whenever none is being processed
\* (_update_parent_from_children), unless a cancel or a restart cuts one short.
ParentMatchesChildren ==
  (InProcess /\ fpc = "idle" /\ cancels = 0 /\ faults = 0) => pfilled = Total

\* Without cancel or restart a time-driven runner gets to its last slice even
\* when slices fail ("Continue with next slice rather than aborting").
EverySliceIsTried ==
  <>[]((~Iceberg /\ cancels = 0 /\ faults = 0) =>
         (~registered /\ \A i \in Slices : cstate[i] # "none"))

\* Until a restart, no runner stays in AlgoEngine._runners for ever: it ends by
\* its last slice, by the fill timeout or by a cancel.
RunnerEnds == <>[](faults = 0 => ~registered /\ starter = "returned")
=============================================================================
