--------------------------- MODULE OrderLifecycle ---------------------------
(***************************************************************************)
(* app/modules/orders/services/order.py: single (non-algo) orders, from    *)
(* create_order to the last execution report.                              *)
(*                                                                         *)
(* Every repository call commits on its own (app/shared/repository.py), so *)
(* the create request, the cancel request and the fill consumer interleave *)
(* at every database call.  Each keeps a snapshot of the order row; guards *)
(* are evaluated on the snapshot and update_state then writes the row      *)
(* unconditionally.                                                        *)
(*                                                                         *)
(* An order goes to the mock exchange (asynchronous fills that come back   *)
(* on the vendor's Kafka) or to the in-process adapter, which acks         *)
(* "filled" so that the create request processes the fill itself.          *)
(***************************************************************************)
EXTENDS Integers, Sequences

CONSTANTS
  Orders,        \* client order ids
  Quantity,      \* the quantity of every order
  InProcess,     \* the orders that are routed to the in-process broker
  HttpAttempts,  \* stop_after_attempt(3) of _retry_http
  MaxFaults      \* bound on process crashes and failed requests

ASSUME OrderAssumption ==
  /\ Quantity \in Nat \ {0}
  /\ InProcess \subseteq Orders
  /\ HttpAttempts \in Nat \ {0}
  /\ MaxFaults \in Nat

States == {"DRAFT", "PENDING_COMPLIANCE", "APPROVED", "REJECTED", "SENT",
           "WORKING", "PARTIALLY_FILLED", "FILLED", "CANCELLED"}

\* _TRANSITIONS
Transitions ==
  [DRAFT              |-> {"PENDING_COMPLIANCE", "CANCELLED"},
   PENDING_COMPLIANCE |-> {"APPROVED", "REJECTED"},
   APPROVED           |-> {"SENT", "WORKING", "CANCELLED"},
   REJECTED           |-> {},
   WORKING            |-> {"PARTIALLY_FILLED", "FILLED", "CANCELLED"},
   SENT               |-> {"PARTIALLY_FILLED", "FILLED", "CANCELLED"},
   PARTIALLY_FILLED   |-> {"PARTIALLY_FILLED", "FILLED", "CANCELLED"},
   FILLED             |-> {},
   CANCELLED          |-> {}]

\* Snapshots of a row.
Rows == [state : States \cup {"none"}, filled : Nat]

\* A snapshot that has not been read yet.
NoRow == [state |-> "none", filled |-> 0]

VARIABLES
  state,      \* orders table: state ("none": there is no row)
  filled,     \* orders table: filled_quantity
  booked,     \* per order: sum of its order_fills rows
  traded,     \* per order: sum of its trades.executed events
  verdict,    \* history: what the pre-trade gate decided
  pc,         \* create_order request: where it is
  rec,        \* create_order request: its snapshot of the row
  tries,      \* create_order request: HTTP attempts that failed
  canceller,  \* cancel_order request of each order
  open,       \* exchange: accepted orders that are not executed yet
  executed,   \* exchange: executed quantity
  accepted,   \* history: exchange orders accepted for a client order
  log,        \* execution reports topic
  fetched,    \* position of the fill consumer after getmany()
  done,       \* reports the callback has returned from
  committed,  \* committed offset (enable_auto_commit)
  cpc,        \* process_execution_report: where the callback is
  crec,       \* process_execution_report: its snapshot of the row
  faults

orders == <<state, filled>>
creator == <<pc, rec, tries>>
exchange == <<open, executed, accepted>>
topic == <<log, fetched, done, committed>>
consumer == <<cpc, crec>>
background == <<canceller, topic, consumer, faults>>
vars == <<orders, booked, traded, verdict, creator, canceller, exchange, topic,
          consumer, faults>>

Reports == [order : Orders, qty : 1..Quantity]

TypeOK ==
  /\ state \in [Orders -> States \cup {"none"}]
  /\ filled \in [Orders -> Nat]
  /\ booked \in [Orders -> Nat]
  /\ traded \in [Orders -> Nat]
  /\ verdict \in [Orders -> {"none", "approved", "blocked"}]
  /\ pc \in [Orders -> {"new", "draft", "pending", "approved", "sent", "filled",
                        "booked", "updated", "returned"}]
  /\ rec \in [Orders -> Rows]
  /\ tries \in [Orders -> 0..(HttpAttempts - 1)]
  /\ canceller \in [Orders -> {"idle", "read"}]
  /\ open \in [Orders -> Nat]
  /\ executed \in [Orders -> Nat]
  /\ accepted \in [Orders -> Nat]
  /\ log \in Seq(Reports)
  /\ fetched \in 0..Len(log)
  /\ done \in 0..fetched
  /\ committed \in 0..fetched
  /\ cpc \in {"idle", "located", "booked", "updated"}
  /\ cpc # "idle" => done < fetched
  /\ crec \in Rows
  /\ faults \in 0..MaxFaults

Init ==
  /\ state = [o \in Orders |-> "none"]
  /\ filled = [o \in Orders |-> 0]
  /\ booked = [o \in Orders |-> 0]
  /\ traded = [o \in Orders |-> 0]
  /\ verdict = [o \in Orders |-> "none"]
  /\ pc = [o \in Orders |-> "new"]
  /\ rec = [o \in Orders |-> NoRow]
  /\ tries = [o \in Orders |-> 0]
  /\ canceller = [o \in Orders |-> "idle"]
  /\ open = [o \in Orders |-> 0]
  /\ executed = [o \in Orders |-> 0]
  /\ accepted = [o \in Orders |-> 0]
  /\ log = <<>>
  /\ fetched = 0
  /\ done = 0
  /\ committed = 0
  /\ cpc = "idle"
  /\ crec = NoRow
  /\ faults = 0

-----------------------------------------------------------------------------
\* apply_transition accepts.
Valid(from, to) == from \in States /\ to \in Transitions[from]

\* A state write that takes filled_quantity from an empty payload.
UpdateStateAll(o, to) ==
  state' = [state EXCEPT ![o] = to] /\ filled' = [filled EXCEPT ![o] = 0]

\* update_state writes the row whatever it holds now.
UpdateState(o, to) == state' = [state EXCEPT ![o] = to] /\ UNCHANGED filled

\* The snapshot is stale until the re-read at the end of update_state.
Goto(o, to) ==
  /\ pc' = [pc EXCEPT ![o] = to]
  /\ rec' = [rec EXCEPT ![o] = NoRow]
  /\ UNCHANGED tries

Loaded(o, at) == pc[o] = at /\ rec[o].state # "none"

Row(o) == [state |-> state[o], filled |-> filled[o]]

\* get_by_id at the end of insert and update_state.
Reload(o) ==
  /\ pc[o] \in {"draft", "pending", "approved", "sent", "updated"}
  /\ rec[o].state = "none"
  /\ rec' = [rec EXCEPT ![o] = Row(o)]
  /\ UNCHANGED <<pc, tries, orders, booked, traded, verdict, exchange, background>>

Persist(o) ==
  /\ pc[o] = "new"
  /\ UpdateState(o, "DRAFT")
  /\ Goto(o, "draft")
  /\ UNCHANGED <<booked, traded, verdict, exchange, background>>

\* apply_transition(snapshot, to), update_state(to): the request fails when
\* the transition is not valid.
Transition(o, to, next) ==
  IF Valid(rec[o].state, to)
    THEN UpdateState(o, to) /\ Goto(o, next)
    ELSE UNCHANGED orders /\ Goto(o, "returned")

EnterCompliance(o) ==
  /\ Loaded(o, "draft")
  /\ Transition(o, "PENDING_COMPLIANCE", "pending")
  /\ UNCHANGED <<booked, traded, verdict, exchange, background>>

\* pre_check decides; the order is APPROVED and goes on, or is REJECTED.
ComplianceGate(o) ==
  /\ Loaded(o, "pending")
  /\ \E v \in {"approved", "blocked"} :
       /\ verdict' = [verdict EXCEPT ![o] = v]
       /\ IF v = "approved" THEN Transition(o, "APPROVED", "approved")
                            ELSE Transition(o, "REJECTED", "returned")
  /\ UNCHANGED <<booked, traded, exchange, background>>

\* An APPROVED order the caller forgets to hand over.
NeverSent(o) ==
  /\ Loaded(o, "approved")
  /\ Goto(o, "returned")
  /\ UNCHANGED <<orders, booked, traded, verdict, exchange, background>>

MarkSent(o) ==
  /\ Loaded(o, "approved")
  /\ Transition(o, "SENT", "sent")
  /\ UNCHANGED <<booked, traded, verdict, exchange, background>>

\* The mock exchange accepts every POST as an order of its own: it does not
\* know that a retry repeats an earlier client_order_id.
Accept(o) ==
  /\ accepted' = [accepted EXCEPT ![o] = @ + 1]
  /\ IF o \in InProcess
       THEN executed' = [executed EXCEPT ![o] = @ + Quantity] /\ UNCHANGED open
       ELSE open' = [open EXCEPT ![o] = @ + 1] /\ UNCHANGED executed

\* The acknowledgement arrives.  The in-process adapter acks "filled" and the
\* request processes the fill; otherwise it returns and the order stays SENT.
SubmitAccepted(o) ==
  /\ Loaded(o, "sent")
  /\ Accept(o)
  /\ IF o \in InProcess
       THEN pc' = [pc EXCEPT ![o] = "filled"] /\ UNCHANGED <<rec, tries>>
       ELSE Goto(o, "returned")
  /\ UNCHANGED <<orders, booked, traded, verdict, background>>

AttemptsLeft(o) == tries[o] + 1 < HttpAttempts

\* A transport error: the POST may or may not have reached the exchange.  It
\* is retried; after the last attempt the error propagates.
SubmitRetry(o) ==
  /\ Loaded(o, "sent")
  /\ o \notin InProcess
  /\ Accept(o) \/ UNCHANGED exchange
  /\ IF AttemptsLeft(o)
       THEN tries' = [tries EXCEPT ![o] = @ + 1] /\ UNCHANGED <<pc, rec>>
       ELSE Goto(o, "returned")
  /\ UNCHANGED <<orders, booked, traded, verdict, background>>

\* The exchange rejects (market closed, reject rate).
SubmitRejected(o) ==
  /\ Loaded(o, "sent")
  /\ o \notin InProcess
  /\ Transition(o, "CANCELLED", "returned")
  /\ UNCHANGED <<booked, traded, verdict, exchange, background>>

-----------------------------------------------------------------------------
\* _process_fill, for the snapshot r of the order.
Overfills(r, q) == q > Quantity - r.filled

TargetState(r, q) ==
  IF r.filled + q >= Quantity THEN "FILLED" ELSE "PARTIALLY_FILLED"

\* The row is written by the session and by its retry.
InsertFillTwice(o, q) == booked' = [booked EXCEPT ![o] = @ + q + q]

InsertFill(o, q) == booked' = [booked EXCEPT ![o] = @ + q]

RecordFill(o, r, q) ==
  /\ state' = [state EXCEPT ![o] = TargetState(r, q)]
  /\ filled' = [filled EXCEPT ![o] = r.filled + q]

PublishTrade(o, q) == traded' = [traded EXCEPT ![o] = @ + q]

\* The synchronous path: poll_status and _process_fill inside the request.
CreatorBooks(o) ==
  /\ Loaded(o, "filled")
  /\ IF Overfills(rec[o], Quantity)
       THEN Goto(o, "returned") /\ UNCHANGED booked
       ELSE /\ pc' = [pc EXCEPT ![o] = "booked"]
            /\ InsertFill(o, Quantity)
            /\ UNCHANGED <<rec, tries>>
  /\ UNCHANGED <<orders, traded, verdict, exchange, background>>

CreatorUpdates(o) ==
  /\ Loaded(o, "booked")
  /\ IF Valid(rec[o].state, TargetState(rec[o], Quantity))
       THEN RecordFill(o, rec[o], Quantity) /\ Goto(o, "updated")
       ELSE UNCHANGED orders /\ Goto(o, "returned")
  /\ UNCHANGED <<booked, traded, verdict, exchange, background>>

CreatorPublishes(o) ==
  /\ Loaded(o, "updated")
  /\ PublishTrade(o, Quantity)
  /\ Goto(o, "returned")
  /\ UNCHANGED <<orders, booked, verdict, exchange, background>>

-----------------------------------------------------------------------------
\* cancel_order: the guard is evaluated on the row it reads, the write comes
\* later.  Nothing is sent to the broker.
CancelRead(o) ==
  /\ canceller[o] = "idle"
  /\ Valid(state[o], "CANCELLED")
  /\ canceller' = [canceller EXCEPT ![o] = "read"]
  /\ UNCHANGED <<orders, booked, traded, verdict, creator, exchange, topic, consumer, faults>>

CancelWrite(o) ==
  /\ canceller[o] = "read"
  /\ UpdateState(o, "CANCELLED")
  /\ canceller' = [canceller EXCEPT ![o] = "idle"]
  /\ UNCHANGED <<booked, traded, verdict, creator, exchange, topic, consumer, faults>>

-----------------------------------------------------------------------------
\* The exchange fills an accepted order once, in full or in part, and reports.
\* Orders are in whole units, as the exchange wants them: it takes max(fill, 1),
\* which is more than an order of a fraction of a unit asks for.
ExchangeFill(o) ==
  /\ open[o] > 0
  /\ open' = [open EXCEPT ![o] = @ - 1]
  /\ \E q \in 1..Quantity :
       /\ executed' = [executed EXCEPT ![o] = @ + q]
       /\ log' = Append(log, [order |-> o, qty |-> q])
  /\ UNCHANGED <<orders, booked, traded, verdict, creator, canceller, accepted,
                 fetched, done, committed, consumer, faults>>

\* getmany() hands out a batch once the previous one has been worked off.
Poll ==
  /\ done = fetched
  /\ \E n \in (fetched + 1)..Len(log) : fetched' = n
  /\ UNCHANGED <<orders, booked, traded, verdict, creator, canceller, exchange,
                 log, done, committed, consumer, faults>>

\* The consumer's background task commits its position: everything handed
\* out counts, processed or not.
AutoCommit ==
  /\ committed # fetched
  /\ committed' = fetched
  /\ UNCHANGED <<orders, booked, traded, verdict, creator, canceller, exchange,
                 log, fetched, done, consumer, faults>>

Report == log[done + 1]

\* The states in which a report is looked at; with WORKING for SENT, the
\* states of an algo parent.
ParentStates == {"WORKING", "PARTIALLY_FILLED"}

FillableStates == {"SENT", "PARTIALLY_FILLED"}

\* The callback returns (an exception in it is logged and swallowed).
Returns == done' = done + 1 /\ cpc' = "idle" /\ crec' = NoRow

\* _locate_order_across_funds; a report for an order in another state is dropped.
Locate ==
  /\ cpc = "idle"
  /\ done < fetched
  /\ IF state[Report.order] \in FillableStates
       THEN cpc' = "located" /\ crec' = Row(Report.order) /\ UNCHANGED done
       ELSE Returns
  /\ UNCHANGED <<orders, booked, traded, verdict, creator, canceller, exchange,
                 log, fetched, committed, faults>>

\* No remaining-quantity check.
ConsumerBooksAny ==
  /\ cpc = "located"
  /\ cpc' = "booked"
  /\ InsertFill(Report.order, Report.qty)
  /\ UNCHANGED <<orders, traded, verdict, creator, canceller, exchange, topic,
                 crec, faults>>

ConsumerBooks ==
  /\ cpc = "located"
  /\ IF Overfills(crec, Report.qty)
       THEN Returns /\ UNCHANGED booked
       ELSE /\ cpc' = "booked"
            /\ InsertFill(Report.order, Report.qty)
            /\ UNCHANGED <<done, crec>>
  /\ UNCHANGED <<orders, traded, verdict, creator, canceller, exchange,
                 log, fetched, committed, faults>>

ConsumerUpdates ==
  /\ cpc = "booked"
  /\ IF Valid(crec.state, TargetState(crec, Report.qty))
       THEN /\ RecordFill(Report.order, crec, Report.qty)
            /\ cpc' = "updated"
            /\ UNCHANGED <<done, crec>>
       ELSE Returns /\ UNCHANGED orders
  /\ UNCHANGED <<booked, traded, verdict, creator, canceller, exchange,
                 log, fetched, committed, faults>>

ConsumerPublishes ==
  /\ cpc = "updated"
  /\ PublishTrade(Report.order, Report.qty)
  /\ Returns
  /\ UNCHANGED <<orders, booked, verdict, creator, canceller, exchange,
                 log, fetched, committed, faults>>

-----------------------------------------------------------------------------
InFlight(o) == pc[o] \notin {"new", "returned"}

\* The create request dies at an await (database error, pre-trade gate down,
\* CircuitOpenError).
RequestFails(o) ==
  /\ InFlight(o)
  /\ faults < MaxFaults
  /\ faults' = faults + 1
  /\ Goto(o, "returned")
  /\ UNCHANGED <<orders, booked, traded, verdict, canceller, exchange, topic, consumer>>

\* The process restarts: requests are gone, the consumer resumes from the
\* committed offset.
Crash ==
  /\ faults < MaxFaults
  /\ faults' = faults + 1
  /\ pc' = [o \in Orders |-> IF InFlight(o) THEN "returned" ELSE pc[o]]
  /\ rec' = [o \in Orders |-> NoRow]
  /\ canceller' = [o \in Orders |-> "idle"]
  /\ cpc' = "idle"
  /\ crec' = NoRow
  /\ fetched' = committed
  /\ done' = committed
  /\ UNCHANGED <<orders, booked, traded, verdict, tries, exchange, log, committed>>

Create(o) ==
  \/ Persist(o) \/ Reload(o)
  \/ EnterCompliance(o) \/ ComplianceGate(o) \/ MarkSent(o)
  \/ SubmitAccepted(o) \/ SubmitRetry(o) \/ SubmitRejected(o)
  \/ CreatorBooks(o) \/ CreatorUpdates(o) \/ CreatorPublishes(o)

Consume == Poll \/ Locate \/ ConsumerBooks \/ ConsumerUpdates \/ ConsumerPublishes

Next ==
  \/ \E o \in Orders : Create(o) \/ CancelRead(o) \/ CancelWrite(o)
                         \/ ExchangeFill(o) \/ RequestFails(o)
  \/ Consume \/ AutoCommit \/ Crash

Spec == Init /\ [][Next]_vars

\* asyncio runs every ready task, once the request is there; the exchange's fill
\* task only sleeps.
FairSpec ==
  /\ Spec
  /\ \A o \in Orders : /\ WF_vars(pc[o] # "new" /\ Create(o))
                       /\ WF_vars(CancelWrite(o))
                       /\ WF_vars(ExchangeFill(o))
  /\ WF_vars(Consume)

-----------------------------------------------------------------------------
\* The order row never shows more than was ordered, and the trades sent to the
\* rest of the platform never exceed what the row shows, however reports are
\* repeated, requests cancelled or the process restarted (_process_fill).
NoOverfill ==
  \A o \in Orders : traded[o] <= filled[o] /\ filled[o] <= Quantity

\* State and filled quantity of a row tell the same story although they are
\* written by requests that never see each other (l. 679-697).
StateMatchesFilled ==
  \A o \in Orders :
    /\ state[o] = "FILLED" => filled[o] = Quantity
    /\ state[o] = "PARTIALLY_FILLED" => filled[o] \in 1..(Quantity - 1)
    /\ state[o] \notin {"FILLED", "PARTIALLY_FILLED", "CANCELLED"} => filled[o] = 0

\* No write of a stale snapshot takes back a recorded fill (update_state).
FilledNeverDrops ==
  [][\A o \in Orders : filled'[o] >= filled[o]]_vars

\* Nothing reaches the broker unless the pre-trade gate approved it, whatever
\* cancel requests do to the row meanwhile (_run_compliance_gate).
ApprovedBeforeBroker ==
  \A o \in Orders : accepted[o] > 0 => verdict[o] = "approved"

Quiet(o) ==
  /\ pc[o] = "returned"
  /\ open[o] = 0
  /\ done = Len(log)
  /\ cpc = "idle"

\* Without faults the platform trades only what the exchange executed, and once
\* everything is delivered the two differ only for an order that was cancelled
\* on the platform or submitted twice by a retry (process_execution_report).
PlatformFollowsBroker ==
  faults = 0 =>
    \A o \in Orders :
      /\ traded[o] <= executed[o]
      /\ Quiet(o) /\ accepted[o] <= 1 /\ state[o] # "CANCELLED"
           => traded[o] = executed[o]

\* Without faults, the fills table, the order row and the trades sent agree
\* whenever no fill of the order is being processed (the order of insert_fill,
\* update_state and publish in _process_fill).  Not so for an order that was
\* cancelled under the in-process fill: its fill row stays.
BooksAgree ==
  faults = 0 /\ cpc = "idle" =>
    \A o \in Orders :
      (pc[o] \notin {"booked", "updated"} /\ (o \in InProcess => state[o] # "CANCELLED"))
        => booked[o] = filled[o] /\ traded[o] = booked[o]

\* Without faults every order that is created gets past the pre-trade states
\* and every report of it is consumed; no order is left behind in
\* PENDING_COMPLIANCE, from which it could not even be cancelled (l. 21-24 of
\* the state machine).
EventuallySettles ==
  <>[](faults = 0 =>
         \A o \in Orders : pc[o] # "new" =>
           /\ Quiet(o)
           /\ state[o] \notin {"none", "DRAFT", "PENDING_COMPLIANCE", "APPROVED"})
=============================================================================
