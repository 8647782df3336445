------------------------ MODULE OrderLifecycleProofs ------------------------
(***************************************************************************)
(* The safety of OrderLifecycle for any orders, quantity, broker, number   *)
(* of HTTP attempts and number of faults.                                  *)
(***************************************************************************)
EXTENDS OrderLifecycle, SequenceTheorems, SumTheorems

\* Nothing has happened at the broker, nor because of it, before the submit.
GateInv ==
  \A o \in Orders :
    /\ pc[o] \in {"new", "draft", "pending", "approved"} => accepted[o] = 0
    /\ pc[o] \in {"approved", "sent", "filled", "booked", "updated"}
         => verdict[o] = "approved"
    /\ accepted[o] = 0 => open[o] = 0 /\ filled[o] = 0 /\ traded[o] = 0

\* Only submitted orders are reported, and only those of the mock exchange.
ReportInv ==
  /\ \A i \in 1..Len(log) :
       accepted[log[i].order] > 0 /\ log[i].order \notin InProcess
  /\ \A o \in InProcess : open[o] = 0

\* The create request fills the order itself only with the in-process broker;
\* until then the row is unfilled, and so is its snapshot.
CreatorInv ==
  \A o \in Orders :
    /\ pc[o] \in {"filled", "booked", "updated"} => o \in InProcess /\ accepted[o] # 0
    /\ o \in InProcess /\ pc[o] \notin {"updated", "returned"}
         => filled[o] = 0 /\ traded[o] = 0
    /\ o \in InProcess /\ pc[o] \in {"sent", "filled", "booked"}
         => rec[o].filled = 0
    /\ pc[o] = "updated" => filled[o] = Quantity /\ traded[o] = 0

\* The consumer is the only writer of the filled quantity while it works on a
\* report, so its snapshot is current in that field.
ConsumerInv ==
  /\ cpc \in {"located", "booked"} =>
       /\ crec.filled = filled[Report.order]
       /\ crec.state \in FillableStates
  /\ cpc = "booked" => crec.filled + Report.qty <= Quantity
  /\ cpc = "updated" => traded[Report.order] + Report.qty <= filled[Report.order]

IInv ==
  /\ TypeOK
  /\ ApprovedBeforeBroker
  /\ GateInv
  /\ ReportInv
  /\ CreatorInv
  /\ ConsumerInv
  /\ StateMatchesFilled
  /\ NoOverfill

\* No order, no report, no request in flight.
LEMMA InitIInv == Init => IInv
<1> SUFFICES ASSUME Init PROVE IInv
  OBVIOUS
<1> USE OrderAssumption DEF Init, NoRow
<1>1. TypeOK
  BY DEF TypeOK, Rows, States
<1>2. ApprovedBeforeBroker /\ GateInv /\ ReportInv /\ CreatorInv /\ ConsumerInv
  BY DEF ApprovedBeforeBroker, GateInv, ReportInv, CreatorInv, ConsumerInv
<1>3. StateMatchesFilled /\ NoOverfill
  BY DEF StateMatchesFilled, NoOverfill
<1> QED
  BY <1>1, <1>2, <1>3 DEF IInv

\* Every report of the topic names an order and a quantity.
LEMMA LogType ==
  ASSUME TypeOK, NEW i \in 1..Len(log)
  PROVE  log[i].order \in Orders /\ log[i].qty \in 1..Quantity
<1>1. log \in Seq(Reports)
  BY DEF TypeOK
<1>2. log[i] \in Reports
  BY ONLY <1>1, ElementOfSeq, i \in 1..Len(log)
<1> QED
  BY <1>2 DEF Reports

\* The report that is being processed is one of them.
LEMMA ReportType ==
  ASSUME TypeOK, done < fetched
  PROVE  /\ done + 1 \in 1..Len(log)
         /\ Report.order \in Orders
         /\ Report.qty \in 1..Quantity
<1>1. done + 1 \in 1..Len(log)
  BY DEF TypeOK
<1> QED
  BY <1>1, LogType DEF Report

\* The consumer never works on an order of the in-process broker.
LEMMA NoReports ==
  ASSUME IInv, cpc # "idle"
  PROVE  Report.order \in Orders /\ Report.order \notin InProcess
<1>1. done + 1 \in 1..Len(log)
  BY DEF IInv, TypeOK
<1> QED
  BY <1>1, LogType DEF IInv, ReportInv, Report

\* A step of a create request that changes at most the state of its own row,
\* its program counter and its snapshot preserves the invariant, provided it
\* writes no pre-trade state once the broker has the order.
LEMMA MoveIInv ==
  ASSUME IInv, NEW o \in Orders, NEW p, NEW s \in States \cup {"none"},
         NEW v \in {"none", "approved", "blocked"},
         state' = [state EXCEPT ![o] = s],
         pc' = [pc EXCEPT ![o] = p],
         rec' = [rec EXCEPT ![o] = NoRow],
         verdict' = [verdict EXCEPT ![o] = v],
         UNCHANGED <<filled, tries, booked, traded, exchange, log, committed>>,
         UNCHANGED <<canceller, fetched, done, consumer, faults>>,
         s \in {state[o], "CANCELLED"} \/
            (accepted[o] = 0 /\ s \notin {"FILLED", "PARTIALLY_FILLED"}),
         v = verdict[o] \/ accepted[o] = 0,
         \/ p = "returned"
         \/ /\ p \in {"draft", "pending", "approved", "sent"}
            /\ pc[o] \notin {"updated", "returned"}
            /\ accepted[o] = 0
            /\ p \in {"approved", "sent"} => v = "approved"
  PROVE  IInv'
<1> USE OrderAssumption DEF IInv, NoRow, exchange, consumer
<1>1. TypeOK'
  BY DEF TypeOK, Rows, States
<1>2. ApprovedBeforeBroker'
  BY DEF TypeOK, ApprovedBeforeBroker
<1>3. GateInv'
  BY DEF TypeOK, GateInv
<1>4. ReportInv'
  BY DEF ReportInv
<1>5. CreatorInv'
  BY DEF TypeOK, CreatorInv
<1>6. ConsumerInv'
  BY DEF ConsumerInv, Report
<1>7. StateMatchesFilled' /\ NoOverfill'
  BY SMTT(30) DEF TypeOK, StateMatchesFilled, NoOverfill, GateInv
<1> QED
  BY <1>1, <1>2, <1>3, <1>4, <1>5, <1>6, <1>7

\* apply_transition and update_state, or a failed request.
LEMMA TransitionStep ==
  ASSUME TypeOK, NEW o \in Orders, NEW to, NEW next, Transition(o, to, next)
  PROVE  /\ UNCHANGED <<filled, tries>>
         /\ rec' = [rec EXCEPT ![o] = NoRow]
         /\ \/ state' = [state EXCEPT ![o] = to] /\ pc' = [pc EXCEPT ![o] = next]
            \/ state' = [state EXCEPT ![o] = state[o]]
                 /\ pc' = [pc EXCEPT ![o] = "returned"]
  BY DEF TypeOK, Transition, UpdateState, Goto, orders

\* apply_transition and update_state inside a create request.
LEMMA TransitionIInv ==
  ASSUME IInv, NEW o \in Orders, NEW to \in States, NEW next,
         NEW v \in {"none", "approved", "blocked"},
         Transition(o, to, next),
         verdict' = [verdict EXCEPT ![o] = v],
         UNCHANGED <<booked, traded, exchange, background>>,
         to = "CANCELLED" \/ (accepted[o] = 0 /\ to \notin {"FILLED", "PARTIALLY_FILLED"}),
         v = verdict[o] \/ accepted[o] = 0,
         \/ next = "returned"
         \/ /\ next \in {"draft", "pending", "approved", "sent"}
            /\ pc[o] \notin {"updated", "returned"}
            /\ accepted[o] = 0
            /\ next \in {"approved", "sent"} => v = "approved"
  PROVE  IInv'
<1>1. TypeOK /\ state[o] \in States \cup {"none"}
  BY DEF IInv, TypeOK
<1>2. /\ UNCHANGED <<filled, tries>>
      /\ rec' = [rec EXCEPT ![o] = NoRow]
      /\ \/ state' = [state EXCEPT ![o] = to] /\ pc' = [pc EXCEPT ![o] = next]
         \/ state' = [state EXCEPT ![o] = state[o]]
              /\ pc' = [pc EXCEPT ![o] = "returned"]
  BY <1>1, TransitionStep
<1>3. /\ UNCHANGED <<filled, tries, booked, traded, exchange, log, committed>>
      /\ UNCHANGED <<canceller, fetched, done, consumer, faults>>
  BY <1>2 DEF background, topic
<1>4. CASE state' = [state EXCEPT ![o] = to] /\ pc' = [pc EXCEPT ![o] = next]
  BY <1>2, <1>3, <1>4, MoveIInv
<1>5. CASE state' = [state EXCEPT ![o] = state[o]] /\ pc' = [pc EXCEPT ![o] = "returned"]
  BY <1>1, <1>2, <1>3, <1>5, MoveIInv
<1> QED
  BY <1>2, <1>4, <1>5

\* Every step of the create request preserves the inductive invariant.
LEMMA CreateIInv ==
  ASSUME IInv, NEW o \in Orders, Create(o)
  PROVE  IInv'
<1> USE OrderAssumption
    DEF Loaded, orders, creator, exchange, background, consumer, topic
<1>0. /\ verdict[o] \in {"none", "approved", "blocked"}
      /\ state[o] \in States \cup {"none"}
      /\ verdict = [verdict EXCEPT ![o] = verdict[o]]
      /\ state = [state EXCEPT ![o] = state[o]]
      /\ pc[o] \in {"new", "draft", "pending", "approved"} => accepted[o] = 0
      /\ pc[o] = "approved" => verdict[o] = "approved"
  BY DEF IInv, TypeOK, GateInv
<1>1. CASE Persist(o)
  <2>1. /\ pc[o] = "new" /\ UNCHANGED verdict
        /\ state' = [state EXCEPT ![o] = "DRAFT"]
        /\ pc' = [pc EXCEPT ![o] = "draft"]
        /\ rec' = [rec EXCEPT ![o] = NoRow]
        /\ UNCHANGED <<filled, tries, booked, traded, exchange, log, committed>>
        /\ UNCHANGED <<canceller, fetched, done, consumer, faults>>
    BY <1>1 DEF Persist, Goto, UpdateState
  <2>2. "DRAFT" \in States
    BY DEF States
  <2> QED
    BY <1>0, <2>1, <2>2, MoveIInv
<1>2. CASE Reload(o)
  <2> USE <1>2 DEF Reload, Row, IInv
  <2>1. TypeOK'
    BY DEF TypeOK, Rows
  <2>2. ApprovedBeforeBroker' /\ GateInv' /\ ReportInv'
    BY DEF ApprovedBeforeBroker, GateInv, ReportInv
  <2>3. CreatorInv'
    BY DEF TypeOK, CreatorInv
  <2>4. ConsumerInv'
    BY DEF ConsumerInv, Report
  <2>5. StateMatchesFilled' /\ NoOverfill'
    BY DEF StateMatchesFilled, NoOverfill
  <2> QED
    BY <2>1, <2>2, <2>3, <2>4, <2>5
<1>3. CASE EnterCompliance(o)
  <2>1. /\ Transition(o, "PENDING_COMPLIANCE", "pending") /\ pc[o] = "draft"
        /\ UNCHANGED verdict /\ UNCHANGED <<booked, traded, exchange, background>>
        /\ "PENDING_COMPLIANCE" \in States
    BY <1>3 DEF EnterCompliance, States
  <2> QED
    BY <1>0, <2>1, TransitionIInv
<1>4. CASE ComplianceGate(o)
  <2>1. PICK v \in {"approved", "blocked"} :
          /\ verdict' = [verdict EXCEPT ![o] = v]
          /\ \/ v = "approved" /\ Transition(o, "APPROVED", "approved")
             \/ v = "blocked" /\ Transition(o, "REJECTED", "returned")
    BY <1>4 DEF ComplianceGate
  <2>2. /\ pc[o] = "pending" /\ UNCHANGED <<booked, traded, exchange, background>>
        /\ "APPROVED" \in States /\ "REJECTED" \in States
    BY <1>4 DEF ComplianceGate, States
  <2>3. CASE v = "approved" /\ Transition(o, "APPROVED", "approved")
    BY <1>0, <2>1, <2>2, <2>3, TransitionIInv
  <2>4. CASE v = "blocked" /\ Transition(o, "REJECTED", "returned")
    BY <1>0, <2>1, <2>2, <2>4, TransitionIInv
  <2> QED
    BY <2>1, <2>3, <2>4
<1>5. CASE MarkSent(o)
  <2>1. /\ Transition(o, "SENT", "sent") /\ pc[o] = "approved"
        /\ UNCHANGED verdict /\ UNCHANGED <<booked, traded, exchange, background>>
        /\ "SENT" \in States
    BY <1>5 DEF MarkSent, States
  <2> QED
    BY <1>0, <2>1, TransitionIInv
<1>6. CASE SubmitRejected(o)
  <2>1. /\ Transition(o, "CANCELLED", "returned")
        /\ UNCHANGED verdict /\ UNCHANGED <<booked, traded, exchange, background>>
        /\ "CANCELLED" \in States
    BY <1>6 DEF SubmitRejected, States
  <2> QED
    BY <1>0, <2>1, TransitionIInv
<1>7. CASE SubmitAccepted(o) \/ SubmitRetry(o)
  <2> USE DEF IInv
  <2>1. /\ pc[o] = "sent" /\ verdict[o] = "approved"
        /\ UNCHANGED <<state, filled, booked, traded, verdict, background>>
    BY <1>7 DEF SubmitAccepted, SubmitRetry, GateInv
  <2>2. \/ /\ accepted' = [accepted EXCEPT ![o] = @ + 1]
           /\ o \in InProcess
           /\ executed' = [executed EXCEPT ![o] = @ + Quantity]
           /\ open' = open
        \/ /\ accepted' = [accepted EXCEPT ![o] = @ + 1]
           /\ o \notin InProcess
           /\ executed' = executed
           /\ open' = [open EXCEPT ![o] = @ + 1]
        \/ o \notin InProcess /\ UNCHANGED exchange
    BY <1>7 DEF SubmitAccepted, SubmitRetry, Accept
  <2>3. \/ o \notin InProcess /\ pc' = pc /\ rec' = rec
        \/ pc' = [pc EXCEPT ![o] = "returned"] /\ rec' = [rec EXCEPT ![o] = NoRow]
        \/ o \in InProcess /\ pc' = [pc EXCEPT ![o] = "filled"] /\ rec' = rec
    BY <1>7 DEF SubmitAccepted, SubmitRetry, Goto
  <2>4. tries' \in [Orders -> 0..(HttpAttempts - 1)]
    <3>1. tries \in [Orders -> 0..(HttpAttempts - 1)]
      BY DEF TypeOK
    <3>2. \/ tries' = tries
          \/ tries[o] + 1 < HttpAttempts /\ tries' = [tries EXCEPT ![o] = @ + 1]
      BY <1>7 DEF SubmitAccepted, SubmitRetry, AttemptsLeft, Goto
    <3> QED
      BY ONLY <3>1, <3>2, OrderAssumption, o \in Orders
  <2>5. pc' \in [Orders -> {"new", "draft", "pending", "approved", "sent", "filled",
                            "booked", "updated", "returned"}] /\ rec' \in [Orders -> Rows]
    <3>1. /\ pc \in [Orders -> {"new", "draft", "pending", "approved", "sent", "filled",
                                "booked", "updated", "returned"}]
          /\ rec \in [Orders -> Rows] /\ NoRow \in Rows
      BY DEF TypeOK, Rows, NoRow
    <3> QED
      BY ONLY <3>1, <2>3, o \in Orders
  <2>6. /\ open' \in [Orders -> Nat] /\ executed' \in [Orders -> Nat]
        /\ accepted' \in [Orders -> Nat]
    <3>1. /\ open \in [Orders -> Nat] /\ executed \in [Orders -> Nat]
          /\ accepted \in [Orders -> Nat]
      BY DEF TypeOK
    <3> QED
      BY ONLY <3>1, <2>2, o \in Orders, OrderAssumption DEF exchange
  <2>7. TypeOK'
    BY <2>1, <2>4, <2>5, <2>6 DEF TypeOK
  <2>8. \A x \in Orders : x # o => /\ accepted'[x] = accepted[x] /\ open'[x] = open[x]
                                   /\ pc'[x] = pc[x] /\ rec'[x] = rec[x]
    BY <2>2, <2>3, SMTT(30) DEF TypeOK
  <2>9. /\ accepted'[o] >= accepted[o]
        /\ accepted'[o] = 0 => open'[o] = open[o] /\ accepted[o] = 0
        /\ o \in InProcess => open' = open /\ accepted'[o] # 0
    BY <2>2 DEF TypeOK
  <2>10. /\ pc'[o] \in {"sent", "returned", "filled"}
         /\ pc'[o] = "filled" => o \in InProcess
         /\ rec'[o] \in {rec[o], NoRow}
    BY <2>1, <2>3 DEF TypeOK
  <2>11. ApprovedBeforeBroker'
    BY <2>1, <2>8 DEF TypeOK, ApprovedBeforeBroker
  <2>12. ReportInv'
    <3>1. ASSUME NEW i \in 1..Len(log) PROVE accepted'[log[i].order] > 0
      <4>1. log[i].order \in Orders
        BY LogType
      <4>2. accepted[log[i].order] > 0 /\ accepted \in [Orders -> Nat]
        BY DEF TypeOK, ReportInv
      <4>3. CASE log[i].order = o
        BY <4>2, <4>3, <2>6, <2>9
      <4>4. CASE log[i].order # o
        BY <4>1, <4>2, <4>4, <2>8
      <4> QED
        BY <4>3, <4>4
    <3>2. \A x \in InProcess : open'[x] = 0
      BY <2>8, <2>9, OrderAssumption DEF ReportInv
    <3> QED
      BY <3>1, <3>2, <2>1 DEF ReportInv
  <2>13. GateInv'
    BY <2>1, <2>8, <2>9, <2>10 DEF GateInv
  <2>14. CreatorInv'
    BY <2>1, <2>8, <2>9, <2>10 DEF CreatorInv, NoRow
  <2>15. ConsumerInv' /\ StateMatchesFilled' /\ NoOverfill'
    BY <2>1 DEF ConsumerInv, Report, StateMatchesFilled, NoOverfill
  <2> QED
    BY <2>7, <2>11, <2>12, <2>13, <2>14, <2>15
<1>8. CASE CreatorBooks(o)
  <2> USE DEF IInv
  <2>1. /\ UNCHANGED <<orders, traded, verdict, exchange, background, tries>>
        /\ pc[o] = "filled" /\ o \in InProcess /\ rec' = rec
        /\ pc' = [pc EXCEPT ![o] = "booked"]
        /\ booked' = [booked EXCEPT ![o] = @ + Quantity]
    BY <1>8 DEF CreatorBooks, Overfills, InsertFill, CreatorInv
  <2>2. TypeOK'
    BY <2>1, SMTT(30) DEF TypeOK
  <2>3. ApprovedBeforeBroker' /\ GateInv' /\ ReportInv'
    BY <2>1 DEF TypeOK, ApprovedBeforeBroker, GateInv, ReportInv
  <2>4. CreatorInv'
    BY <2>1 DEF TypeOK, CreatorInv
  <2>5. ConsumerInv' /\ StateMatchesFilled' /\ NoOverfill'
    BY <2>1 DEF ConsumerInv, Report, StateMatchesFilled, NoOverfill
  <2> QED
    BY <2>2, <2>3, <2>4, <2>5
<1>9. CASE CreatorUpdates(o) /\ Valid(rec[o].state, TargetState(rec[o], Quantity))
  <2> USE DEF IInv
  <2>1. /\ UNCHANGED <<booked, traded, verdict, exchange, background, tries>>
        /\ pc[o] = "booked" /\ o \in InProcess /\ filled[o] = 0 /\ traded[o] = 0
        /\ pc' = [pc EXCEPT ![o] = "updated"]
        /\ rec' = [rec EXCEPT ![o] = NoRow]
        /\ state' = [state EXCEPT ![o] = "FILLED"]
        /\ filled' = [filled EXCEPT ![o] = Quantity]
    BY <1>9 DEF CreatorUpdates, RecordFill, TargetState, Goto, CreatorInv
  <2>2. cpc # "idle" => Report.order \in Orders /\ Report.order # o
    BY <2>1, NoReports
  <2>3. accepted[o] # 0
    BY <2>1 DEF CreatorInv
  <2>4. TypeOK'
    BY <2>1 DEF TypeOK, Rows, NoRow, States
  <2>5. ApprovedBeforeBroker' /\ GateInv' /\ ReportInv'
    BY <2>1, <2>3 DEF TypeOK, ApprovedBeforeBroker, GateInv, ReportInv
  <2>6. CreatorInv'
    BY <2>1 DEF TypeOK, CreatorInv, NoRow
  <2>7. ConsumerInv'
    BY <2>1, <2>2 DEF TypeOK, ConsumerInv, Report
  <2>8. StateMatchesFilled' /\ NoOverfill'
    BY <2>1, SMTT(30) DEF TypeOK, StateMatchesFilled, NoOverfill
  <2> QED
    BY <2>4, <2>5, <2>6, <2>7, <2>8
<1>10. CASE CreatorUpdates(o) /\ ~Valid(rec[o].state, TargetState(rec[o], Quantity))
  <2>1. /\ UNCHANGED <<state, verdict>>
        /\ pc' = [pc EXCEPT ![o] = "returned"]
        /\ rec' = [rec EXCEPT ![o] = NoRow]
        /\ UNCHANGED <<filled, tries, booked, traded, exchange, log, committed>>
        /\ UNCHANGED <<canceller, fetched, done, consumer, faults>>
    BY <1>10 DEF CreatorUpdates, Goto
  <2> QED
    BY <1>0, <2>1, MoveIInv
<1>11. CASE CreatorPublishes(o)
  <2> USE DEF IInv
  <2>1. /\ UNCHANGED <<orders, booked, verdict, exchange, background, tries>>
        /\ pc[o] = "updated" /\ o \in InProcess /\ filled[o] = Quantity /\ traded[o] = 0
        /\ pc' = [pc EXCEPT ![o] = "returned"]
        /\ rec' = [rec EXCEPT ![o] = NoRow]
        /\ traded' = [traded EXCEPT ![o] = @ + Quantity]
    BY <1>11 DEF CreatorPublishes, PublishTrade, Goto, CreatorInv
  <2>2. cpc # "idle" => Report.order \in Orders /\ Report.order # o
    BY <2>1, NoReports
  <2>3. TypeOK'
    <3>1. /\ traded \in [Orders -> Nat]
          /\ pc \in [Orders -> {"new", "draft", "pending", "approved", "sent", "filled",
                                "booked", "updated", "returned"}]
          /\ rec \in [Orders -> Rows] /\ NoRow \in Rows
      BY DEF TypeOK, Rows, NoRow
    <3>2. /\ traded' \in [Orders -> Nat]
          /\ pc' \in [Orders -> {"new", "draft", "pending", "approved", "sent", "filled",
                                 "booked", "updated", "returned"}]
          /\ rec' \in [Orders -> Rows]
      BY ONLY <3>1, <2>1, o \in Orders, OrderAssumption
    <3> QED
      BY <3>2, <2>1 DEF TypeOK
  <2>4. ApprovedBeforeBroker' /\ GateInv' /\ ReportInv'
    BY <2>1 DEF TypeOK, ApprovedBeforeBroker, GateInv, ReportInv
  <2>5. CreatorInv'
    BY <2>1 DEF TypeOK, CreatorInv, NoRow
  <2>6. ConsumerInv'
    BY <2>1, <2>2 DEF TypeOK, ConsumerInv, Report
  <2>7. StateMatchesFilled' /\ NoOverfill'
    BY <2>1 DEF TypeOK, StateMatchesFilled, NoOverfill
  <2> QED
    BY <2>3, <2>4, <2>5, <2>6, <2>7
<1> QED
  BY <1>1, <1>2, <1>3, <1>4, <1>5, <1>6, <1>7, <1>8, <1>9, <1>10, <1>11 DEF Create

\* Cancel requests and the exchange preserve the inductive invariant.
LEMMA OutsideIInv ==
  ASSUME IInv, NEW o \in Orders,
         CancelRead(o) \/ CancelWrite(o) \/ ExchangeFill(o) \/ RequestFails(o)
  PROVE  IInv'
<1> USE OrderAssumption
    DEF orders, creator, exchange, background, consumer, topic
<1>1. CASE CancelRead(o)
  <2> USE <1>1 DEF CancelRead, IInv
  <2>1. TypeOK'
    BY DEF TypeOK
  <2> QED
    BY <2>1 DEF ApprovedBeforeBroker, GateInv, ReportInv, CreatorInv, ConsumerInv, Report,
                StateMatchesFilled, NoOverfill
<1>2. CASE CancelWrite(o)
  <2> USE <1>2 DEF CancelWrite, UpdateState, IInv
  <2>1. TypeOK'
    BY DEF TypeOK, States
  <2>2. ApprovedBeforeBroker' /\ GateInv' /\ ReportInv' /\ CreatorInv' /\ NoOverfill'
    BY DEF ApprovedBeforeBroker, GateInv, ReportInv, CreatorInv, NoOverfill
  <2>3. ConsumerInv'
    BY DEF ConsumerInv, Report
  <2>4. StateMatchesFilled'
    BY DEF TypeOK, StateMatchesFilled
  <2> QED
    BY <2>1, <2>2, <2>3, <2>4
<1>3. CASE ExchangeFill(o)
  <2> USE DEF IInv
  <2>1. PICK q \in 1..Quantity :
          /\ executed' = [executed EXCEPT ![o] = @ + q]
          /\ log' = Append(log, [order |-> o, qty |-> q])
    BY <1>3 DEF ExchangeFill
  <2>2. /\ open[o] > 0 /\ open' = [open EXCEPT ![o] = @ - 1]
        /\ UNCHANGED <<orders, booked, traded, verdict, creator, canceller, accepted,
                       fetched, done, committed, consumer, faults>>
    BY <1>3 DEF ExchangeFill
  <2>3. log \in Seq(Reports) /\ [order |-> o, qty |-> q] \in Reports
    BY DEF TypeOK, Reports
  <2>4. /\ log' \in Seq(Reports)
        /\ Len(log') = Len(log) + 1
        /\ \A i \in 1..Len(log) : log'[i] = log[i]
        /\ log'[Len(log) + 1] = [order |-> o, qty |-> q]
    BY ONLY <2>1, <2>3, AppendProperties
  <2>5. Len(log) \in Nat
    BY <2>3
  <2>6. open' \in [Orders -> Nat] /\ executed' \in [Orders -> Nat]
    <3>1. open \in [Orders -> Nat] /\ executed \in [Orders -> Nat]
      BY DEF TypeOK
    <3> QED
      BY ONLY <3>1, <2>1, <2>2, o \in Orders, OrderAssumption
  <2>7. TypeOK'
    <3>1. /\ fetched \in 0..Len(log) /\ done \in 0..fetched /\ committed \in 0..fetched
      BY DEF TypeOK
    <3>2. fetched' \in 0..Len(log')
      BY ONLY <3>1, <2>2, <2>4, <2>5
    <3> QED
      BY <3>1, <3>2, <2>2, <2>4, <2>6 DEF TypeOK
  <2>8. accepted[o] > 0 /\ o \notin InProcess
    BY <2>2 DEF TypeOK, GateInv, ReportInv
  <2>9. ReportInv'
    <3>1. ASSUME NEW i \in 1..Len(log') PROVE accepted'[log'[i].order] > 0 /\ log'[i].order \notin InProcess
      <4>1. CASE i = Len(log) + 1
        BY <4>1, <2>2, <2>4, <2>8
      <4>2. CASE i \in 1..Len(log)
        BY <4>2, <2>2, <2>4 DEF ReportInv
      <4> QED
        BY <4>1, <4>2, <2>4, <2>5
    <3>2. \A x \in InProcess : open'[x] = 0
      BY <2>2, <2>8, OrderAssumption DEF TypeOK, ReportInv
    <3> QED
      BY <3>1, <3>2 DEF ReportInv
  <2>10. GateInv'
    BY <2>2, <2>8 DEF TypeOK, GateInv
  <2>11. ApprovedBeforeBroker' /\ CreatorInv' /\ StateMatchesFilled' /\ NoOverfill'
    BY <2>2 DEF ApprovedBeforeBroker, CreatorInv, StateMatchesFilled, NoOverfill
  <2>12. ConsumerInv'
    <3>1. CASE cpc = "idle"
      BY <3>1, <2>2 DEF ConsumerInv
    <3>2. CASE cpc # "idle"
      <4>1. done + 1 \in 1..Len(log)
        BY <3>2, ReportType DEF TypeOK
      <4>2. Report' = Report
        BY <4>1, <2>2, <2>4 DEF Report
      <4> QED
        BY <4>2, <2>2 DEF ConsumerInv
    <3> QED
      BY <3>1, <3>2
  <2> QED
    BY <2>7, <2>9, <2>10, <2>11, <2>12
<1>4. CASE RequestFails(o)
  <2>1. /\ pc' = [pc EXCEPT ![o] = "returned"]
        /\ rec' = [rec EXCEPT ![o] = NoRow]
        /\ faults' = faults + 1 /\ faults < MaxFaults
        /\ UNCHANGED <<orders, booked, traded, verdict, tries, canceller, exchange, topic,
                       consumer>>
    BY <1>4 DEF RequestFails, Goto
  <2> USE DEF IInv
  <2>2. TypeOK'
    BY <2>1, SMTT(30) DEF TypeOK, Rows, NoRow
  <2>3. GateInv' /\ CreatorInv'
    BY <2>1 DEF TypeOK, GateInv, CreatorInv, NoRow
  <2>4. ConsumerInv'
    BY <2>1 DEF ConsumerInv, Report
  <2>5. ApprovedBeforeBroker' /\ ReportInv' /\ StateMatchesFilled' /\ NoOverfill'
    BY <2>1 DEF ApprovedBeforeBroker, ReportInv, StateMatchesFilled, NoOverfill
  <2> QED
    BY <2>2, <2>3, <2>4, <2>5
<1> QED
  BY <1>1, <1>2, <1>3, <1>4

\* The fill consumer and a restart preserve the inductive invariant.
LEMMA ConsumeIInv ==
  ASSUME IInv, Consume \/ AutoCommit \/ Crash
  PROVE  IInv'
<1> USE OrderAssumption
    DEF IInv, orders, creator, exchange, background, consumer, topic
<1>1. CASE Poll
  <2>1. TypeOK'
    BY <1>1 DEF Poll, TypeOK
  <2> QED
    BY <1>1, <2>1 DEF Poll, ApprovedBeforeBroker, GateInv, ReportInv, CreatorInv, ConsumerInv,
                      Report, StateMatchesFilled, NoOverfill
<1>2. CASE AutoCommit
  <2>1. TypeOK'
    BY <1>2 DEF AutoCommit, TypeOK
  <2> QED
    BY <1>2, <2>1 DEF AutoCommit, ApprovedBeforeBroker, GateInv, ReportInv, CreatorInv,
                      ConsumerInv, Report, StateMatchesFilled, NoOverfill
<1>3. CASE Locate
  <2>1. TypeOK'
    <3>1. Row(Report.order) \in Rows /\ NoRow \in Rows
      BY <1>3, ReportType DEF Locate, TypeOK, Row, Rows, NoRow
    <3> QED
      BY <1>3, <3>1, SMTT(30) DEF Locate, Returns, TypeOK
  <2>2. ApprovedBeforeBroker' /\ GateInv' /\ ReportInv' /\ CreatorInv' /\ StateMatchesFilled'
          /\ NoOverfill'
    BY <1>3 DEF Locate, ApprovedBeforeBroker, GateInv, ReportInv, CreatorInv,
                StateMatchesFilled, NoOverfill
  <2>3. ConsumerInv'
    BY <1>3 DEF Locate, Returns, Row, ConsumerInv, Report
  <2> QED
    BY <2>1, <2>2, <2>3
<1>4. CASE ConsumerBooks
  <2>1. TypeOK'
    <3>1. /\ booked \in [Orders -> Nat] /\ Report.order \in Orders /\ Report.qty \in Nat
          /\ NoRow \in Rows /\ done < fetched
      <4>1. done < fetched /\ booked \in [Orders -> Nat] /\ NoRow \in Rows
        BY <1>4 DEF ConsumerBooks, TypeOK, Rows, NoRow, States
      <4> QED
        BY <4>1, ReportType
    <3>2. booked' \in [Orders -> Nat]
      BY ONLY <1>4, <3>1 DEF ConsumerBooks, InsertFill
    <3>3. \/ cpc' = "idle" /\ done' = done + 1 /\ crec' = NoRow
          \/ cpc' = "booked" /\ UNCHANGED <<done, crec>>
      BY <1>4 DEF ConsumerBooks, Returns
    <3>4. UNCHANGED <<orders, traded, verdict, creator, canceller, exchange, log, fetched,
                      committed, faults>>
      BY <1>4 DEF ConsumerBooks
    <3>5. CASE cpc' = "idle" /\ done' = done + 1 /\ crec' = NoRow
      <4>1. done + 1 \in 0..fetched
        BY <3>1 DEF TypeOK
      <4> QED
        BY <3>1, <3>2, <3>4, <3>5, <4>1 DEF TypeOK
    <3>6. CASE cpc' = "booked" /\ UNCHANGED <<done, crec>>
      BY <3>1, <3>2, <3>4, <3>6 DEF TypeOK
    <3> QED
      BY <3>3, <3>5, <3>6
  <2>2. ApprovedBeforeBroker' /\ GateInv' /\ ReportInv' /\ CreatorInv' /\ StateMatchesFilled'
          /\ NoOverfill'
    BY <1>4 DEF ConsumerBooks, ApprovedBeforeBroker, GateInv, ReportInv, CreatorInv,
                StateMatchesFilled, NoOverfill
  <2>3. ConsumerInv'
    <3>1. /\ crec.filled \in Nat /\ Report.qty \in 1..Quantity
      BY <1>4, ReportType DEF ConsumerBooks, TypeOK, Rows
    <3> QED
      BY <1>4, <3>1 DEF ConsumerBooks, Overfills, Returns, ConsumerInv, Report
  <2> QED
    BY <2>1, <2>2, <2>3
<1>5. CASE ConsumerUpdates /\ Valid(crec.state, TargetState(crec, Report.qty))
  <2> DEFINE r == Report.order
             q == Report.qty
  <2>1. r \in Orders /\ q \in 1..Quantity /\ done < fetched /\ done + 1 \in 1..Len(log)
    BY <1>5, ReportType DEF ConsumerUpdates, TypeOK
  <2>2. r \notin InProcess
    BY <1>5, NoReports DEF ConsumerUpdates
  <2>3. /\ cpc = "booked" /\ cpc' = "updated" /\ crec' = crec
        /\ state' = [state EXCEPT ![r] = TargetState(crec, q)]
        /\ filled' = [filled EXCEPT ![r] = crec.filled + q]
        /\ UNCHANGED <<booked, traded, verdict, creator, canceller, exchange, topic, faults>>
    BY <1>5 DEF ConsumerUpdates, RecordFill
  <2>4. /\ crec.filled = filled[r] /\ crec.filled + q <= Quantity
        /\ crec.filled \in Nat
    BY <2>3 DEF ConsumerInv, TypeOK, Rows
  <2>5. TargetState(crec, q) =
          IF crec.filled + q = Quantity THEN "FILLED" ELSE "PARTIALLY_FILLED"
    BY <2>1, <2>4 DEF TargetState
  <2>6. accepted[r] > 0
    BY <2>1 DEF ReportInv, Report
  <2>7. TypeOK'
    <3>1. TargetState(crec, q) \in States
      BY <2>5 DEF States
    <3>2. /\ state \in [Orders -> States \cup {"none"}]
          /\ filled \in [Orders -> Nat]
      BY DEF TypeOK
    <3>3. state' \in [Orders -> States \cup {"none"}]
      BY ONLY <3>1, <3>2, <2>1, <2>3
    <3>4. filled' \in [Orders -> Nat]
      <4>1. crec.filled + q \in Nat
        BY ONLY <2>1, <2>4, OrderAssumption
      <4> QED
        BY ONLY <4>1, <3>2, <2>1, <2>3
    <3> QED
      BY <2>1, <2>3, <3>3, <3>4 DEF TypeOK
  <2>8. ApprovedBeforeBroker' /\ ReportInv'
    BY <2>3 DEF ApprovedBeforeBroker, ReportInv
  <2>9. GateInv' /\ CreatorInv'
    <3>1. \A x \in Orders : x # r => filled'[x] = filled[x] /\ traded'[x] = traded[x]
      BY <2>1, <2>3 DEF TypeOK
    <3>2. pc[r] # "updated" /\ accepted[r] # 0
      BY <2>1, <2>2, <2>6 DEF TypeOK, CreatorInv
    <3>3. GateInv'
      BY <3>1, <3>2, <2>3 DEF GateInv
    <3>4. CreatorInv'
      BY <3>1, <3>2, <2>2, <2>3 DEF CreatorInv
    <3> QED
      BY <3>3, <3>4
  <2>10. ConsumerInv'
    BY <2>1, <2>3, <2>4, SMTT(30) DEF TypeOK, ConsumerInv, Report, NoOverfill
  <2>11. StateMatchesFilled' /\ NoOverfill'
    <3>1. /\ filled \in [Orders -> Nat] /\ state \in [Orders -> States \cup {"none"}]
          /\ traded \in [Orders -> Nat]
      BY DEF TypeOK
    <3>2. ASSUME NEW x \in Orders, x # r
          PROVE  state'[x] = state[x] /\ filled'[x] = filled[x]
      BY <3>1, <3>2, <2>1, <2>3
    <3>3. state'[r] = TargetState(crec, q) /\ filled'[r] = crec.filled + q
      BY <3>1, <2>1, <2>3
    <3>4. StateMatchesFilled'
      BY <3>2, <3>3, <2>1, <2>4, <2>5 DEF StateMatchesFilled
    <3>5. NoOverfill'
      BY <3>1, <3>2, <3>3, <2>1, <2>3, <2>4 DEF NoOverfill
    <3> QED
      BY <3>4, <3>5
  <2> QED
    BY <2>7, <2>8, <2>9, <2>10, <2>11
<1>6. CASE ConsumerUpdates /\ ~Valid(crec.state, TargetState(crec, Report.qty))
  <2>1. cpc' = "idle" /\ crec' = NoRow /\ done' = done + 1 /\ UNCHANGED orders
        /\ UNCHANGED <<booked, traded, verdict, creator, canceller, exchange, log, fetched,
                       committed, faults>>
        /\ done < fetched
    BY <1>6 DEF ConsumerUpdates, Returns, TypeOK
  <2>2. TypeOK'
    BY <2>1 DEF TypeOK, Rows, NoRow
  <2> QED
    BY <2>1, <2>2 DEF ApprovedBeforeBroker, GateInv, ReportInv, CreatorInv, ConsumerInv,
                      StateMatchesFilled, NoOverfill
<1>7. CASE ConsumerPublishes
  <2> DEFINE r == Report.order
             q == Report.qty
  <2>1. r \in Orders /\ q \in 1..Quantity /\ done < fetched /\ done + 1 \in 1..Len(log)
    BY <1>7, ReportType DEF ConsumerPublishes, TypeOK
  <2>2. r \notin InProcess
    BY <1>7, NoReports DEF ConsumerPublishes
  <2>3. /\ cpc = "updated" /\ cpc' = "idle" /\ crec' = NoRow /\ done' = done + 1
        /\ traded' = [traded EXCEPT ![r] = @ + q]
        /\ UNCHANGED <<orders, booked, verdict, creator, canceller, exchange, log, fetched,
                       committed, faults>>
    BY <1>7 DEF ConsumerPublishes, Returns, PublishTrade
  <2>4. traded[r] + q <= filled[r]
    BY <2>3 DEF ConsumerInv
  <2>5. accepted[r] > 0
    BY <2>1 DEF ReportInv, Report
  <2>6. TypeOK'
    <3>1. traded' \in [Orders -> Nat]
      BY <2>1, <2>3, SMTT(30) DEF TypeOK
    <3>2. NoRow \in Rows
      BY DEF Rows, NoRow
    <3>3. done + 1 \in 0..fetched
      BY <2>1 DEF TypeOK
    <3> QED
      BY <2>3, <3>1, <3>2, <3>3 DEF TypeOK
  <2>7. ApprovedBeforeBroker' /\ ReportInv' /\ ConsumerInv' /\ StateMatchesFilled'
    BY <2>3 DEF ApprovedBeforeBroker, ReportInv, ConsumerInv, StateMatchesFilled
  <2>8. GateInv' /\ CreatorInv'
    <3>1. \A x \in Orders : x # r => filled'[x] = filled[x] /\ traded'[x] = traded[x]
      BY <2>1, <2>3 DEF TypeOK
    <3>2. pc[r] # "updated" /\ accepted[r] # 0
      BY <2>1, <2>2, <2>5 DEF TypeOK, CreatorInv
    <3>3. GateInv'
      BY <3>1, <3>2, <2>3 DEF GateInv
    <3>4. CreatorInv'
      BY <3>1, <3>2, <2>2, <2>3 DEF CreatorInv
    <3> QED
      BY <3>3, <3>4
  <2>9. NoOverfill'
    BY <2>1, <2>3, <2>4 DEF TypeOK, NoOverfill
  <2> QED
    BY <2>6, <2>7, <2>8, <2>9
<1>8. CASE Crash
  <2> USE <1>8 DEF Crash, InFlight
  <2>1. TypeOK'
    BY DEF TypeOK, Rows, NoRow
  <2>2. GateInv' /\ CreatorInv'
    BY DEF TypeOK, GateInv, CreatorInv, NoRow
  <2>3. ApprovedBeforeBroker' /\ ReportInv' /\ ConsumerInv' /\ StateMatchesFilled'
          /\ NoOverfill'
    BY DEF ApprovedBeforeBroker, ReportInv, ConsumerInv, StateMatchesFilled, NoOverfill
  <2> QED
    BY <2>1, <2>2, <2>3
<1> QED
  BY <1>1, <1>2, <1>3, <1>4, <1>5, <1>6, <1>7, <1>8 DEF Consume

\* Every step preserves the inductive invariant.
LEMMA NextIInv == IInv /\ [Next]_vars => IInv'
<1> SUFFICES ASSUME IInv, [Next]_vars PROVE IInv'
  OBVIOUS
<1>1. CASE Next
  BY <1>1, CreateIInv, OutsideIInv, ConsumeIInv DEF Next
<1>2. CASE UNCHANGED vars
  BY <1>2 DEF vars, orders, creator, exchange, topic, consumer, IInv, TypeOK,
              ApprovedBeforeBroker, GateInv, ReportInv, CreatorInv, ConsumerInv, Report,
              StateMatchesFilled, NoOverfill
<1> QED
  BY <1>1, <1>2

\* Orders are typed; the row, its state and the trades published for it agree;
\* nothing reaches the broker unapproved.  For any orders and any interleaving
\* of create, cancel and fill with redelivered reports and restarts.
THEOREM OrderSafety ==
  Spec => [](TypeOK /\ NoOverfill /\ StateMatchesFilled /\ ApprovedBeforeBroker)
<1>1. IInv => TypeOK /\ NoOverfill /\ StateMatchesFilled /\ ApprovedBeforeBroker
  BY DEF IInv
<1> QED
  BY <1>1, InitIInv, NextIInv, PTL DEF Spec

\* A recorded fill is never taken back by the write of a stale snapshot.
THEOREM FillsAreKept == Spec => FilledNeverDrops
<1>1. IInv /\ [Next]_vars => [\A o \in Orders : filled'[o] >= filled[o]]_vars
  <2> SUFFICES ASSUME IInv, Next, NEW o \in Orders PROVE filled'[o] >= filled[o]
    OBVIOUS
  <2>0. filled \in [Orders -> Nat]
    BY DEF IInv, TypeOK
  <2>1. CASE filled' = filled
    BY <2>0, <2>1
  <2>2. ASSUME NEW c \in Orders, CreatorUpdates(c), filled' # filled
        PROVE  filled'[o] >= filled[o]
    <3>1. /\ filled' = [filled EXCEPT ![c] = rec[c].filled + Quantity]
          /\ filled[c] = 0 /\ rec[c].filled = 0
      BY <2>2 DEF CreatorUpdates, RecordFill, orders, Loaded, IInv, CreatorInv
    <3> QED
      BY <2>0, <3>1, OrderAssumption
  <2>3. ASSUME ConsumerUpdates, filled' # filled
        PROVE  filled'[o] >= filled[o]
    <3>1. /\ filled' = [filled EXCEPT ![Report.order] = crec.filled + Report.qty]
          /\ crec.filled = filled[Report.order]
      BY <2>3 DEF ConsumerUpdates, RecordFill, orders, IInv, ConsumerInv
    <3>2. Report.order \in Orders /\ Report.qty \in 1..Quantity
      BY <2>3, ReportType DEF ConsumerUpdates, IInv, TypeOK
    <3> QED
      BY <2>0, <3>1, <3>2, OrderAssumption
  <2> QED
    BY <2>1, <2>2, <2>3
       DEF Next, Create, Persist, Reload, EnterCompliance, ComplianceGate, MarkSent,
           SubmitAccepted, SubmitRetry, SubmitRejected, CreatorBooks, CreatorPublishes,
           CancelRead, CancelWrite, ExchangeFill, RequestFails, Consume, Poll, Locate,
           ConsumerBooks, ConsumerPublishes, AutoCommit, Crash, Transition, UpdateState, orders
<1> QED
  BY <1>1, InitIInv, NextIInv, PTL DEF Spec, FilledNeverDrops

-----------------------------------------------------------------------------
(***************************************************************************)
(* The broker's side and the books.  What the exchange has executed is the *)
(* sum of the reports in its topic, and the trades follow the reports that *)
(* the consumer has finished.                                              *)
(***************************************************************************)

\* What the exchange has reported for an order in the first n reports of l.
Qtys(l, o) == [i \in 1..Len(l) |-> IF l[i].order = o THEN l[i].qty ELSE 0]
Reported(l, o, n) == SumFunctionOnSet(Qtys(l, o), 1..n)

\* The quantity of the report in progress, when it is one of o and the callback
\* has got so far.
Pending(o, at) == IF cpc = at /\ Report.order = o THEN Report.qty ELSE 0

\* An order that was sent has left the pre-trade states for good: later writes
\* of stale snapshots can only cancel or fill it.
StageInv ==
  \A o \in Orders :
    pc[o] \in {"sent", "filled", "booked", "updated"} \/ accepted[o] > 0
      => state[o] \in {"SENT", "PARTIALLY_FILLED", "FILLED", "CANCELLED"}

\* The snapshot of a create request that fills its order itself is SENT, or the
\* order is cancelled.
SnapshotInv ==
  \A o \in InProcess : pc[o] \in {"sent", "filled", "booked"} =>
    /\ rec[o].state \in {"none", "SENT", "CANCELLED"}
    /\ rec[o].state = "CANCELLED" => state[o] = "CANCELLED"

\* A client order that the exchange accepted once is open or reported once.
UniqueInv ==
  \A o \in Orders : accepted[o] <= 1 =>
     /\ open[o] <= accepted[o]
     /\ \A i \in 1..Len(log) : log[i].order = o =>
           open[o] = 0 /\ \A j \in 1..Len(log) : log[j].order = o => j = i

\* The exchange reports what it executes; the in-process broker executes an
\* order once, in full.
ExecutedInv ==
  /\ \A o \in Orders \ InProcess : executed[o] = Reported(log, o, Len(log))
  /\ \A o \in InProcess :
       /\ pc[o] \in {"new", "draft", "pending", "approved", "sent"} => executed[o] = 0
       /\ pc[o] \in {"filled", "booked", "updated"} => executed[o] = Quantity

\* The books of an order of the exchange while nothing has failed.
ExternalInv(o) ==
  /\ booked[o] = filled[o] + Pending(o, "booked")
  /\ filled[o] = traded[o] + Pending(o, "updated")
  /\ traded[o] <= Reported(log, o, done)
  /\ accepted[o] <= 1 => traded[o] = Reported(log, o, done) \/ state[o] = "CANCELLED"

\* The books of an order of the in-process broker while nothing has failed.
InternalInv(o) ==
  /\ pc[o] \in {"booked", "updated"} => booked[o] = Quantity
  /\ pc[o] \notin {"booked", "updated", "returned"} => booked[o] = 0
  /\ pc[o] = "returned" /\ state[o] # "CANCELLED"
       => booked[o] = filled[o] /\ traded[o] = filled[o]
  /\ pc[o] = "returned" =>
       traded[o] <= executed[o] /\ (traded[o] = executed[o] \/ state[o] = "CANCELLED")

BookInv ==
  faults = 0 => /\ \A o \in Orders \ InProcess : ExternalInv(o)
                /\ \A o \in InProcess : InternalInv(o)

BrokerInv == StageInv /\ SnapshotInv /\ UniqueInv /\ ExecutedInv /\ BookInv

\* Reported quantities are natural numbers.
LEMMA QtysType ==
  ASSUME NEW l \in Seq(Reports), NEW o
  PROVE  \A i \in 1..Len(l) : Qtys(l, o)[i] \in Nat
<1> SUFFICES ASSUME NEW i \in 1..Len(l) PROVE Qtys(l, o)[i] \in Nat
  OBVIOUS
<1>1. l[i] \in Reports
  BY ElementOfSeq
<1> QED
  BY <1>1, OrderAssumption DEF Qtys, Reports

\* What is reported grows with the reports.
LEMMA ReportedGrows ==
  ASSUME NEW l \in Seq(Reports), NEW o, NEW n \in 0..Len(l)
  PROVE  /\ Reported(l, o, n) \in Nat
         /\ Reported(l, o, n) <= Reported(l, o, Len(l))
<1>1. 1..n \in SUBSET (1..Len(l)) /\ Len(l) \in Nat
  OBVIOUS
<1>2. IsFiniteSet(1..n) /\ IsFiniteSet(1..Len(l))
  BY <1>1, FS_Interval
<1>3. \A i \in 1..Len(l) : Qtys(l, o)[i] \in Nat
  BY QtysType
<1>4. Reported(l, o, n) \in Nat
  BY <1>1, <1>2, <1>3, SumNat DEF Reported
<1>5. Reported(l, o, n) <= Reported(l, o, Len(l))
  BY <1>1, <1>2, <1>3, SumSubset DEF Reported
<1> QED
  BY <1>4, <1>5

\* One more report counts for its own order only.
LEMMA ReportedNext ==
  ASSUME NEW l \in Seq(Reports), NEW o, NEW n \in 0..(Len(l) - 1)
  PROVE  Reported(l, o, n + 1) =
           Reported(l, o, n) + (IF l[n + 1].order = o THEN l[n + 1].qty ELSE 0)
<1>1. n \in Nat /\ n + 1 \in 1..Len(l) /\ Len(l) \in Nat
  OBVIOUS
<1>2. \A i \in 1..(n + 1) : Qtys(l, o)[i] \in Int
  BY <1>1, QtysType
<1>3. Qtys(l, o)[n + 1] = IF l[n + 1].order = o THEN l[n + 1].qty ELSE 0
  BY <1>1 DEF Qtys
<1>4. Reported(l, o, n + 1) = Reported(l, o, n) + Qtys(l, o)[n + 1]
  BY <1>1, <1>2, SumNext DEF Reported
<1> QED
  BY <1>3, <1>4

\* Without a report of the order there is no reported quantity.
LEMMA NothingReported ==
  ASSUME NEW l \in Seq(Reports), NEW o, NEW n \in 0..Len(l),
         \A i \in 1..n : l[i].order # o
  PROVE  Reported(l, o, n) = 0
<1>1. 1..n \in SUBSET (1..Len(l)) /\ IsFiniteSet(1..n)
  BY FS_Interval
<1>2. \A i \in 1..n : Qtys(l, o)[i] = 0
  BY <1>1 DEF Qtys
<1> QED
  BY <1>1, <1>2, SumZero DEF Reported

\* A report that is appended leaves the earlier ones as they are.
LEMMA ReportedKept ==
  ASSUME NEW l \in Seq(Reports), NEW r \in Reports, NEW o, NEW n \in 0..Len(l)
  PROVE  Reported(Append(l, r), o, n) = Reported(l, o, n)
<1>1. Len(Append(l, r)) = Len(l) + 1 /\ \A i \in 1..Len(l) : Append(l, r)[i] = l[i]
  BY AppendProperties
<1>2. 1..n \in SUBSET (1..Len(l)) /\ IsFiniteSet(1..n) /\ Len(l) \in Nat
  BY FS_Interval
<1>3. \A i \in 1..n : Qtys(Append(l, r), o)[i] = Qtys(l, o)[i]
  BY <1>1, <1>2 DEF Qtys
<1> QED
  BY <1>2, <1>3, SumSame DEF Reported

\* At the start nothing is sent, booked or reported.
LEMMA InitBrokerInv == Init => BrokerInv
<1> SUFFICES ASSUME Init PROVE BrokerInv
  OBVIOUS
<1>0. TypeOK
  BY InitIInv DEF IInv
<1>1. Len(log) = 0 /\ 0 \in 0..Len(log) /\ done = 0
  BY DEF Init
<1>2. \A o \in Orders : Reported(log, o, Len(log)) = 0 /\ Reported(log, o, done) = 0
  <2>1. log \in Seq(Reports) /\ Len(log) \in 0..Len(log) /\ done \in 0..Len(log)
    BY <1>0, <1>1 DEF TypeOK
  <2>2. /\ \A i \in 1..Len(log) : FALSE
        /\ \A i \in 1..done : FALSE
    BY <1>1
  <2> QED
    BY <2>1, <2>2, NothingReported
<1> USE OrderAssumption DEF Init, NoRow
<1>3. StageInv /\ SnapshotInv /\ UniqueInv
  BY DEF StageInv, SnapshotInv, UniqueInv
<1>4. ExecutedInv
  BY <1>1, <1>2 DEF ExecutedInv
<1>5. \A o \in Orders : ExternalInv(o)
  <2>1. \A o \in Orders : Pending(o, "booked") = 0 /\ Pending(o, "updated") = 0
    BY DEF Pending
  <2> SUFFICES ASSUME NEW o \in Orders PROVE ExternalInv(o)
    OBVIOUS
  <2>2. booked[o] = 0 /\ filled[o] = 0 /\ traded[o] = 0
    OBVIOUS
  <2>3. Reported(log, o, done) = 0
    BY <1>2
  <2> QED
    BY ONLY <2>1, <2>2, <2>3 DEF ExternalInv
<1>6. \A o \in InProcess : InternalInv(o)
  BY DEF InternalInv
<1> QED
  BY <1>3, <1>4, <1>5, <1>6 DEF BrokerInv, BookInv

\* While the topic and the consumer stand still, so do the quantities that the
\* invariant reads off them.
LEMMA TopicKept ==
  ASSUME UNCHANGED <<log, done, cpc>>
  PROVE  /\ \A o, n : Reported(log, o, n)' = Reported(log, o, n)
         /\ \A o, at : Pending(o, at)' = Pending(o, at)
BY DEF Pending, Report

\* Row x is as it was.
SameRow(x) ==
  /\ state'[x] = state[x] /\ filled'[x] = filled[x]
  /\ booked'[x] = booked[x] /\ traded'[x] = traded[x]
SameRequest(x) == pc'[x] = pc[x] /\ rec'[x] = rec[x]
SameExchange(x) ==
  open'[x] = open[x] /\ executed'[x] = executed[x] /\ accepted'[x] = accepted[x]

\* What a step of the create request of o does to the order before the submit,
\* at the submit, and after it.
PreTrade(o) ==
  /\ pc[o] \in {"new", "draft", "pending", "approved"}
  /\ \/ pc'[o] \in {"draft", "pending", "approved", "returned"}
     \/ pc'[o] = "sent" /\ state'[o] = "SENT"
  /\ rec'[o] = NoRow
  /\ filled'[o] = filled[o] /\ booked'[o] = booked[o] /\ traded'[o] = traded[o]
  /\ SameExchange(o)
ReRead(o) ==
  /\ SameRow(o) /\ SameExchange(o)
  /\ pc[o] \notin {"filled", "booked"} /\ pc'[o] = pc[o] /\ rec'[o] = Row(o)
SubmitsOut(o) ==
  /\ o \notin InProcess /\ pc[o] = "sent" /\ pc'[o] \in {"sent", "returned"}
  /\ filled'[o] = filled[o] /\ booked'[o] = booked[o] /\ traded'[o] = traded[o]
  /\ executed'[o] = executed[o]
  /\ \/ state'[o] \in {state[o], "CANCELLED"} /\ SameExchange(o)
     \/ /\ state'[o] = state[o]
        /\ accepted'[o] = accepted[o] + 1 /\ open'[o] = open[o] + 1
SubmitsIn(o) ==
  /\ o \in InProcess /\ pc[o] = "sent" /\ pc'[o] = "filled" /\ rec'[o] = rec[o]
  /\ SameRow(o)
  /\ accepted'[o] = accepted[o] + 1 /\ open'[o] = open[o]
  /\ executed'[o] = executed[o] + Quantity
FillsIn(o) ==
  /\ o \in InProcess /\ SameExchange(o)
  /\ \/ /\ pc[o] = "filled" /\ pc'[o] = "booked" /\ rec'[o] = rec[o]
        /\ booked'[o] = booked[o] + Quantity
        /\ state'[o] = state[o] /\ filled'[o] = filled[o] /\ traded'[o] = traded[o]
     \/ /\ pc[o] = "booked" /\ pc'[o] = "updated"
        /\ state'[o] = "FILLED" /\ filled'[o] = Quantity
        /\ booked'[o] = booked[o] /\ traded'[o] = traded[o]
     \/ pc[o] = "booked" /\ pc'[o] = "returned" /\ state[o] = "CANCELLED" /\ SameRow(o)
     \/ /\ pc[o] = "updated" /\ pc'[o] = "returned"
        /\ traded'[o] = traded[o] + Quantity
        /\ state'[o] = state[o] /\ filled'[o] = filled[o] /\ booked'[o] = booked[o]

\* A step of a create request touches its own order only, and in one of these ways.
LEMMA CreateOutcome ==
  ASSUME IInv, SnapshotInv, NEW o \in Orders, Create(o)
  PROVE  /\ UNCHANGED <<log, done, cpc, faults>>
         /\ \A x \in Orders \ {o} : SameRow(x) /\ SameRequest(x) /\ SameExchange(x)
         /\ PreTrade(o) \/ ReRead(o) \/ SubmitsOut(o) \/ SubmitsIn(o) \/ FillsIn(o)
<1> USE DEF Loaded, orders, creator, exchange, background, consumer, topic,
            SameRow, SameRequest, SameExchange
<1>0. /\ state \in [Orders -> States \cup {"none"}] /\ filled \in [Orders -> Nat]
      /\ booked \in [Orders -> Nat] /\ traded \in [Orders -> Nat]
      /\ pc \in [Orders -> {"new", "draft", "pending", "approved", "sent", "filled",
                            "booked", "updated", "returned"}]
      /\ rec \in [Orders -> Rows] /\ open \in [Orders -> Nat]
      /\ executed \in [Orders -> Nat] /\ accepted \in [Orders -> Nat] /\ TypeOK
  BY DEF IInv, TypeOK
<1>1. ASSUME NEW to, NEW next, Transition(o, to, next)
      PROVE  /\ \A x \in Orders \ {o} : state'[x] = state[x] /\ SameRequest(x)
             /\ filled' = filled /\ rec'[o] = NoRow
             /\ \/ state'[o] = to /\ pc'[o] = next
                \/ state'[o] = state[o] /\ pc'[o] = "returned"
  BY <1>0, <1>1, TransitionStep
<1>2. CASE Persist(o)
  BY <1>0, <1>2 DEF Persist, UpdateState, Goto, PreTrade
<1>3. CASE Reload(o)
  BY <1>0, <1>3 DEF Reload, ReRead
<1>4. CASE EnterCompliance(o)
  BY <1>0, <1>1, <1>4 DEF EnterCompliance, PreTrade
<1>5. CASE ComplianceGate(o)
  BY <1>0, <1>1, <1>5 DEF ComplianceGate, PreTrade
<1>6. CASE MarkSent(o)
  BY <1>0, <1>1, <1>6 DEF MarkSent, PreTrade
<1>7. CASE SubmitAccepted(o)
  BY <1>0, <1>7 DEF SubmitAccepted, Accept, Goto, SubmitsIn, SubmitsOut
<1>8. CASE SubmitRetry(o)
  BY <1>0, <1>8 DEF SubmitRetry, Accept, Goto, SubmitsOut
<1>9. CASE SubmitRejected(o)
  BY <1>0, <1>1, <1>9 DEF SubmitRejected, SubmitsOut
<1>10. CASE CreatorBooks(o)
  <2>1. o \in InProcess /\ ~Overfills(rec[o], Quantity)
    BY <1>10, OrderAssumption DEF CreatorBooks, IInv, CreatorInv, Overfills
  <2> QED
    BY <1>0, <1>10, <2>1 DEF CreatorBooks, InsertFill, FillsIn
<1>11. CASE CreatorUpdates(o)
  <2>1. o \in InProcess /\ rec[o].filled = 0 /\ rec[o].state \in {"SENT", "CANCELLED"}
        /\ (rec[o].state = "CANCELLED" => state[o] = "CANCELLED")
    BY <1>11 DEF CreatorUpdates, IInv, CreatorInv, SnapshotInv
  <2>2. TargetState(rec[o], Quantity) = "FILLED" /\ rec[o].filled + Quantity = Quantity
    BY <2>1, OrderAssumption DEF TargetState
  <2>3. rec[o].state = "SENT" => Valid(rec[o].state, "FILLED")
    BY DEF Valid, States, Transitions
  <2>4. CASE Valid(rec[o].state, TargetState(rec[o], Quantity))
    BY <1>0, <1>11, <2>1, <2>2, <2>4 DEF CreatorUpdates, RecordFill, Goto, FillsIn
  <2>5. CASE ~Valid(rec[o].state, TargetState(rec[o], Quantity))
    BY <1>0, <1>11, <2>1, <2>2, <2>3, <2>5 DEF CreatorUpdates, Goto, FillsIn
  <2> QED
    BY <2>4, <2>5
<1>12. CASE CreatorPublishes(o)
  <2>1. o \in InProcess
    BY <1>12 DEF CreatorPublishes, IInv, CreatorInv
  <2> QED
    BY <1>0, <1>12, <2>1 DEF CreatorPublishes, PublishTrade, Goto, FillsIn
<1> QED
  BY <1>2, <1>3, <1>4, <1>5, <1>6, <1>7, <1>8, <1>9, <1>10, <1>11, <1>12 DEF Create

\* The create request keeps the broker's part of the invariant.
LEMMA CreateBrokerInv ==
  ASSUME IInv, BrokerInv, NEW o \in Orders, Create(o)
  PROVE  BrokerInv'
<1> USE OrderAssumption DEF BrokerInv
<1>1. /\ UNCHANGED <<log, done, cpc, faults>>
      /\ \A x \in Orders \ {o} : SameRow(x) /\ SameRequest(x) /\ SameExchange(x)
      /\ PreTrade(o) \/ ReRead(o) \/ SubmitsOut(o) \/ SubmitsIn(o) \/ FillsIn(o)
  BY CreateOutcome
<1>2. /\ state[o] \in States \cup {"none"} /\ filled[o] \in Nat
      /\ booked[o] \in Nat /\ traded[o] \in Nat /\ executed[o] \in Nat
      /\ accepted[o] \in Nat /\ open[o] \in Nat /\ Len(log) \in Nat /\ done \in 0..Len(log)
      /\ TypeOK
  BY DEF IInv, TypeOK
<1>3. /\ \A x, n : Reported(log, x, n)' = Reported(log, x, n)
      /\ \A x, at : Pending(x, at)' = Pending(x, at)
  BY <1>1, TopicKept
<1>4. /\ pc[o] \in {"new", "draft", "pending", "approved"} => accepted[o] = 0
      /\ accepted[o] = 0 => /\ open[o] = 0 /\ filled[o] = 0 /\ traded[o] = 0
                            /\ \A i \in 1..Len(log) : log[i].order # o
      /\ o \in InProcess /\ pc[o] \notin {"updated", "returned"}
           => filled[o] = 0 /\ traded[o] = 0
      /\ pc[o] = "updated" => filled[o] = Quantity /\ traded[o] = 0
  BY DEF IInv, GateInv, ReportInv, CreatorInv
<1>5. accepted[o] = 0 => Reported(log, o, done) = 0
  BY <1>2, <1>4, NothingReported DEF TypeOK
<1>6. StageInv'
  <2>1. StageInv /\ \A x \in Orders \ {o} : state'[x] = state[x] /\ pc'[x] = pc[x] /\ accepted'[x] = accepted[x]
    BY <1>1 DEF SameRow, SameRequest, SameExchange
  <2>2. pc'[o] \in {"sent", "filled", "booked", "updated"} \/ accepted'[o] > 0
          => state'[o] \in {"SENT", "PARTIALLY_FILLED", "FILLED", "CANCELLED"}
    BY <1>1, <1>2, <1>4 DEF StageInv, PreTrade, ReRead, SubmitsOut, SubmitsIn, FillsIn,
                             SameRow, SameExchange
  <2> QED
    BY <2>1, <2>2 DEF StageInv
<1>7. SnapshotInv'
  <2>1. SnapshotInv /\ \A x \in Orders \ {o} : state'[x] = state[x] /\ SameRequest(x)
    BY <1>1 DEF SameRow
  <2>2. o \in InProcess /\ pc'[o] \in {"sent", "filled", "booked"} =>
          /\ rec'[o].state \in {"none", "SENT", "CANCELLED"}
          /\ rec'[o].state = "CANCELLED" => state'[o] = "CANCELLED"
    <3>1. CASE ReRead(o)
      <4>1. state[o] = "FILLED" => filled[o] = Quantity
        BY DEF IInv, StateMatchesFilled
      <4>2. state[o] = "PARTIALLY_FILLED" => filled[o] # 0
        BY DEF IInv, StateMatchesFilled
      <4> QED
        BY <3>1, <4>1, <4>2, <1>4 DEF ReRead, Row, StageInv, SameRow
    <3>2. CASE PreTrade(o)
      BY <3>2 DEF PreTrade, NoRow
    <3>3. CASE SubmitsOut(o) \/ SubmitsIn(o) \/ FillsIn(o)
      BY <3>3 DEF SubmitsOut, SubmitsIn, FillsIn, SnapshotInv, SameRow
    <3> QED
      BY <1>1, <3>1, <3>2, <3>3
  <2> QED
    BY <2>1, <2>2 DEF SnapshotInv, SameRequest
<1>8. UniqueInv'
  <2>1. UniqueInv /\ \A x \in Orders \ {o} : open'[x] = open[x] /\ accepted'[x] = accepted[x]
    BY <1>1 DEF SameExchange
  <2>2. \/ open'[o] = open[o] /\ accepted'[o] = accepted[o]
        \/ accepted'[o] = accepted[o] + 1 /\ open'[o] = open[o] + 1
        \/ accepted'[o] = accepted[o] + 1 /\ open'[o] = open[o]
    BY <1>1 DEF PreTrade, ReRead, SubmitsOut, SubmitsIn, FillsIn, SameExchange
  <2>3. accepted'[o] <= 1 =>
          /\ open'[o] <= accepted'[o]
          /\ \A i \in 1..Len(log) : log[i].order = o =>
               open'[o] = 0 /\ \A j \in 1..Len(log) : log[j].order = o => j = i
    BY <2>1, <2>2, <1>2, <1>4 DEF UniqueInv
  <2> QED
    BY <2>1, <2>3, <1>1 DEF UniqueInv
<1>9. ExecutedInv'
  <2>1. ExecutedInv /\ \A x \in Orders \ {o} : executed'[x] = executed[x] /\ pc'[x] = pc[x]
    BY <1>1 DEF SameRequest, SameExchange
  <2>2. o \notin InProcess => executed'[o] = executed[o]
    BY <1>1 DEF PreTrade, ReRead, SubmitsOut, SubmitsIn, FillsIn, SameExchange
  <2>3. o \in InProcess =>
       /\ pc'[o] \in {"new", "draft", "pending", "approved", "sent"} => executed'[o] = 0
       /\ pc'[o] \in {"filled", "booked", "updated"} => executed'[o] = Quantity
    BY <1>1, <1>2 DEF ExecutedInv, PreTrade, ReRead, SubmitsOut, SubmitsIn, FillsIn, SameExchange
  <2> QED
    BY <2>1, <2>2, <2>3, <1>1, <1>3 DEF ExecutedInv
<1>10. BookInv'
  <2> SUFFICES ASSUME faults = 0
               PROVE  /\ \A x \in Orders \ InProcess : ExternalInv(x)'
                      /\ \A x \in InProcess : InternalInv(x)'
    BY <1>1 DEF BookInv
  <2>1. /\ \A x \in Orders \ InProcess : ExternalInv(x)
        /\ \A x \in InProcess : InternalInv(x)
    BY DEF BookInv
  <2>2. ASSUME NEW x \in Orders \ InProcess, x # o PROVE ExternalInv(x)'
    <3>1. ExternalInv(x) /\ SameRow(x) /\ SameExchange(x)
      BY <1>1, <2>1, <2>2
    <3> QED
      BY <3>1, <1>1, <1>3 DEF ExternalInv, SameRow, SameExchange
  <2>3. ASSUME NEW x \in InProcess, x # o PROVE InternalInv(x)'
    <3>1. InternalInv(x) /\ SameRow(x) /\ SameExchange(x) /\ SameRequest(x)
      BY <1>1, <2>1, <2>3
    <3> QED
      BY <3>1 DEF InternalInv, SameRow, SameExchange, SameRequest
  <2>4. ASSUME o \notin InProcess PROVE ExternalInv(o)'
    <3>1. /\ filled'[o] = filled[o] /\ booked'[o] = booked[o] /\ traded'[o] = traded[o]
          /\ accepted'[o] >= accepted[o]
          /\ state'[o] \in {state[o], "CANCELLED"} \/ accepted[o] = 0
      BY <1>1, <1>2, <1>4, <2>4 DEF PreTrade, ReRead, SubmitsOut, SubmitsIn, FillsIn, SameRow, SameExchange
    <3>2. ExternalInv(o) /\ accepted'[o] \in Nat
      BY <1>1, <1>2, <2>1, <2>4 DEF PreTrade, ReRead, SubmitsOut, SubmitsIn, FillsIn, SameExchange
    <3>3. accepted'[o] <= 1 => traded'[o] = Reported(log, o, done) \/ state'[o] = "CANCELLED"
      BY <3>1, <3>2, <1>2, <1>4, <1>5 DEF ExternalInv
    <3> QED
      BY <3>1, <3>2, <3>3, <1>1, <1>3 DEF ExternalInv
  <2>5. ASSUME o \in InProcess PROVE InternalInv(o)'
    <3>1. InternalInv(o)
      BY <2>1, <2>5
    <3>2. /\ pc[o] \in {"new", "draft", "pending", "approved", "sent"} => executed[o] = 0
          /\ pc[o] \in {"filled", "booked", "updated"} => executed[o] = Quantity
      BY <2>5 DEF ExecutedInv
    <3> QED
      BY <1>1, <1>2, <1>4, <2>5, <3>1, <3>2
         DEF InternalInv, PreTrade, ReRead, SubmitsOut, SubmitsIn, FillsIn, SameRow, SameExchange
  <2> QED
    BY <2>2, <2>3, <2>4, <2>5
<1> QED
  BY <1>6, <1>7, <1>8, <1>9, <1>10

\* Cancel requests, the exchange and failing requests keep it.
LEMMA OutsideBrokerInv ==
  ASSUME IInv, BrokerInv, NEW o \in Orders,
         CancelRead(o) \/ CancelWrite(o) \/ ExchangeFill(o) \/ RequestFails(o)
  PROVE  BrokerInv'
<1> USE OrderAssumption DEF BrokerInv, orders, creator, exchange, topic, consumer
<1>0. /\ state \in [Orders -> States \cup {"none"}] /\ open \in [Orders -> Nat]
      /\ executed \in [Orders -> Nat] /\ accepted \in [Orders -> Nat]
      /\ pc \in [Orders -> {"new", "draft", "pending", "approved", "sent", "filled",
                            "booked", "updated", "returned"}]
      /\ rec \in [Orders -> Rows] /\ Len(log) \in Nat /\ done \in 0..Len(log)
      /\ TypeOK /\ faults \in Nat
  BY DEF IInv, TypeOK
<1>1. CASE CancelRead(o)
  BY <1>1, TopicKept DEF CancelRead, StageInv, SnapshotInv, UniqueInv, ExecutedInv, BookInv, ExternalInv,
                         InternalInv
<1>2. CASE CancelWrite(o)
  <2>1. /\ state' = [state EXCEPT ![o] = "CANCELLED"]
        /\ UNCHANGED <<filled, booked, traded, pc, rec, open, executed, accepted, log, done,
                       cpc, faults>>
    BY <1>2 DEF CancelWrite, UpdateState
  <2>2. /\ \A x, n : Reported(log, x, n)' = Reported(log, x, n)
        /\ \A x, at : Pending(x, at)' = Pending(x, at)
    BY <2>1, TopicKept
  <2>3. \A x \in Orders : state'[x] = state[x] \/ state'[x] = "CANCELLED"
    BY <1>0, <2>1
  <2>4. StageInv' /\ SnapshotInv' /\ UniqueInv' /\ ExecutedInv'
    BY <2>1, <2>2, <2>3 DEF StageInv, SnapshotInv, UniqueInv, ExecutedInv
  <2>5. BookInv'
    BY <2>1, <2>2, <2>3 DEF BookInv, ExternalInv, InternalInv
  <2> QED
    BY <2>4, <2>5
<1>3. CASE RequestFails(o)
  <2>1. /\ pc' = [pc EXCEPT ![o] = "returned"] /\ faults' = faults + 1
        /\ rec' = [rec EXCEPT ![o] = NoRow]
        /\ UNCHANGED <<state, filled, booked, traded, open, executed, accepted, log, done, cpc>>
    BY <1>3 DEF RequestFails, Goto
  <2>2. \A x, n : Reported(log, x, n)' = Reported(log, x, n)
    BY <2>1, TopicKept
  <2>3. \A x \in Orders : (pc'[x] = pc[x] /\ rec'[x] = rec[x]) \/ pc'[x] = "returned"
    BY <1>0, <2>1
  <2>4. StageInv' /\ SnapshotInv' /\ UniqueInv' /\ ExecutedInv'
    BY <2>1, <2>2, <2>3 DEF StageInv, SnapshotInv, UniqueInv, ExecutedInv
  <2>5. BookInv'
    BY <1>0, <2>1 DEF BookInv
  <2> QED
    BY <2>4, <2>5
<1>4. CASE ExchangeFill(o)
  <2>1. PICK q \in 1..Quantity :
          /\ executed' = [executed EXCEPT ![o] = @ + q]
          /\ log' = Append(log, [order |-> o, qty |-> q])
    BY <1>4 DEF ExchangeFill
  <2>2. /\ open[o] > 0 /\ open' = [open EXCEPT ![o] = @ - 1]
        /\ UNCHANGED <<state, filled, booked, traded, pc, rec, accepted, done, cpc, faults>>
    BY <1>4 DEF ExchangeFill
  <2>3. TypeOK'
    BY OutsideIInv DEF IInv
  <2>4. /\ Len(log') = Len(log) + 1 /\ \A i \in 1..Len(log) : log'[i] = log[i]
        /\ log'[Len(log) + 1] = [order |-> o, qty |-> q]
    <3>1. log \in Seq(Reports) /\ [order |-> o, qty |-> q] \in Reports
      BY <1>0, <2>1 DEF TypeOK, Reports
    <3> QED
      BY <2>1, <3>1, AppendProperties
  <2>5. o \notin InProcess
    BY <2>2 DEF IInv, ReportInv
  <2>6. \A x, n : n \in 0..Len(log) => Reported(log', x, n) = Reported(log, x, n)
    <3>1. log \in Seq(Reports) /\ [order |-> o, qty |-> q] \in Reports
      BY <1>0, <2>1 DEF TypeOK, Reports
    <3> QED
      BY <2>1, <3>1, ReportedKept
  <2>7. StageInv' /\ SnapshotInv'
    BY <2>2 DEF StageInv, SnapshotInv
  <2>8. UniqueInv'
    <3> SUFFICES ASSUME NEW x \in Orders, accepted[x] <= 1
                 PROVE  /\ open'[x] <= accepted[x]
                        /\ \A i \in 1..Len(log') : log'[i].order = x =>
                             open'[x] = 0 /\ \A j \in 1..Len(log') : log'[j].order = x => j = i
      BY <2>2 DEF UniqueInv
    <3>1. /\ open[x] <= accepted[x]
          /\ \A i \in 1..Len(log) : log[i].order = x =>
               open[x] = 0 /\ \A j \in 1..Len(log) : log[j].order = x => j = i
      BY DEF UniqueInv
    <3>2. CASE x # o
      <4>1. open'[x] = open[x]
        BY <1>0, <2>2, <3>2
      <4>2. \A i \in 1..Len(log') : log'[i].order = x => i \in 1..Len(log) /\ log[i].order = x
        <5>1. \A i \in 1..Len(log') : i \in 1..Len(log) \/ i = Len(log) + 1
          BY <1>0, <2>4
        <5> QED
          BY <2>4, <3>2, <5>1
      <4> QED
        BY <3>1, <4>1, <4>2
    <3>3. CASE x = o
      <4>1. open'[o] = open[o] - 1 /\ open[o] \in Nat /\ accepted[o] \in Nat
        BY <1>0, <2>2
      <4>2. \A i \in 1..Len(log) : log[i].order # o
        BY <3>1, <3>3, <2>2
      <4>3. \A i \in 1..Len(log') : log'[i].order = o => i = Len(log) + 1
        <5>1. \A i \in 1..Len(log') : i \in 1..Len(log) \/ i = Len(log) + 1
          BY <1>0, <2>4
        <5> QED
          BY <2>4, <4>2, <5>1
      <4>4. open'[o] = 0
        BY <4>1, <3>1, <3>3, <2>2
      <4> QED
        BY <3>3, <4>1, <4>3, <4>4
    <3> QED
      BY <3>2, <3>3
  <2>9. ExecutedInv'
    <3>1. Len(log) \in 0..(Len(log') - 1) /\ log' \in Seq(Reports)
      BY <1>0, <2>3, <2>4 DEF TypeOK
    <3>2. ASSUME NEW x \in Orders \ InProcess
          PROVE  executed'[x] = Reported(log', x, Len(log'))
      <4>1. Reported(log', x, Len(log) + 1)
              = Reported(log', x, Len(log))
                  + (IF log'[Len(log) + 1].order = x THEN log'[Len(log) + 1].qty ELSE 0)
        BY <3>1, ReportedNext
      <4>2. executed[x] = Reported(log, x, Len(log))
        BY DEF ExecutedInv
      <4>3. Reported(log', x, Len(log)) = Reported(log, x, Len(log))
        <5>1. Len(log) \in 0..Len(log)
          BY <1>0
        <5> QED
          BY <2>6, <5>1
      <4>4. executed[x] \in Nat
        BY <1>0
      <4>5. Reported(log', x, Len(log')) = executed[x] + (IF o = x THEN q ELSE 0)
        BY <2>4, <4>1, <4>2, <4>3
      <4>6. executed'[x] = executed[x] + (IF o = x THEN q ELSE 0)
        BY <1>0, <2>1, <4>4
      <4> QED
        BY <4>5, <4>6
    <3>3. \A x \in InProcess : executed'[x] = executed[x] /\ pc'[x] = pc[x]
      BY <1>0, <2>1, <2>2, <2>5
    <3> QED
      BY <3>2, <3>3 DEF ExecutedInv
  <2>10. BookInv'
    <3> SUFFICES ASSUME faults = 0
                 PROVE  /\ \A x \in Orders \ InProcess : ExternalInv(x)'
                        /\ \A x \in InProcess : InternalInv(x)'
      BY <2>2 DEF BookInv
    <3>1. \A x : Pending(x, "booked")' = Pending(x, "booked")
                   /\ Pending(x, "updated")' = Pending(x, "updated")
      <4>1. CASE cpc = "idle"
        BY <2>2, <4>1 DEF Pending
      <4>2. CASE cpc # "idle"
        <5>1. done + 1 \in 1..Len(log)
          BY <1>0, <4>2, ReportType DEF TypeOK
        <5>2. Report' = Report
          BY <2>2, <2>4, <5>1 DEF Report
        <5> QED
          BY <2>2, <5>2 DEF Pending
      <4> QED
        BY <4>1, <4>2
    <3>2. \A x : Reported(log', x, done) = Reported(log, x, done)
      BY <1>0, <2>6
    <3>3. \A x \in Orders \ InProcess : ExternalInv(x)'
      BY <2>2, <3>1, <3>2 DEF BookInv, ExternalInv
    <3>4. \A x \in InProcess : executed'[x] = executed[x]
      BY <1>0, <2>1, <2>5
    <3> QED
      BY <2>2, <3>3, <3>4 DEF BookInv, InternalInv
  <2> QED
    BY <2>7, <2>8, <2>9, <2>10
<1> QED
  BY <1>1, <1>2, <1>3, <1>4

\* An order that was accepted once has nothing traded before its report is
\* processed, and it is not filled.
LEMMA FirstReport ==
  ASSUME IInv, BrokerInv, faults = 0, done < fetched, accepted[Report.order] <= 1,
         cpc # "updated"
  PROVE  /\ Reported(log, Report.order, done) = 0
         /\ traded[Report.order] = 0
         /\ filled[Report.order] = 0
<1> DEFINE r == Report.order
<1>1. /\ done + 1 \in 1..Len(log) /\ r \in Orders /\ Report.qty \in 1..Quantity
      /\ done \in 0..Len(log) /\ log \in Seq(Reports) /\ Len(log) \in Nat
      /\ traded[r] \in Nat /\ filled[r] \in Nat
  <2>0. TypeOK
    BY DEF IInv
  <2>1. /\ traded \in [Orders -> Nat] /\ filled \in [Orders -> Nat]
        /\ done \in 0..Len(log) /\ log \in Seq(Reports) /\ Len(log) \in Nat
    BY <2>0 DEF TypeOK
  <2>2. done + 1 \in 1..Len(log) /\ r \in Orders /\ Report.qty \in 1..Quantity
    BY <2>0, ReportType, Zenon
  <2> QED
    BY <2>1, <2>2
<1>2. r \notin InProcess
  BY <1>1 DEF IInv, ReportInv, Report
<1>3. \A i \in 1..done : log[i].order # r
  BY <1>1 DEF BrokerInv, UniqueInv, Report
<1>4. Reported(log, r, done) = 0
  BY <1>1, <1>3, NothingReported
<1>5. ExternalInv(r)
  BY <1>1, <1>2 DEF BrokerInv, BookInv
<1>6. traded[r] = 0
  BY <1>1, <1>4, <1>5 DEF ExternalInv
<1>7. filled[r] = 0
  BY <1>1, <1>5, <1>6 DEF ExternalInv, Pending
<1> QED
  BY <1>4, <1>6, <1>7

\* The fill consumer and a restart keep the broker's part of the invariant.
LEMMA ConsumeBrokerInv ==
  ASSUME IInv, BrokerInv, Consume \/ AutoCommit \/ Crash
  PROVE  BrokerInv'
<1> USE OrderAssumption DEF BrokerInv, orders, creator, exchange, topic, consumer
<1>0. /\ state \in [Orders -> States \cup {"none"}] /\ filled \in [Orders -> Nat]
      /\ booked \in [Orders -> Nat] /\ traded \in [Orders -> Nat]
      /\ accepted \in [Orders -> Nat]
      /\ log \in Seq(Reports) /\ Len(log) \in Nat /\ done \in 0..Len(log)
      /\ fetched \in 0..Len(log) /\ TypeOK /\ faults \in Nat
  BY DEF IInv, TypeOK
<1>1. CASE Poll \/ AutoCommit
  <2>1. UNCHANGED <<state, filled, booked, traded, pc, rec, open, executed, accepted, log, done,
                    cpc, faults>>
    BY <1>1 DEF Poll, AutoCommit
  <2> QED
    BY <2>1, TopicKept DEF StageInv, SnapshotInv, UniqueInv, ExecutedInv, BookInv, ExternalInv,
                           InternalInv
<1>2. CASE Crash
  <2>1. /\ \A x \in Orders : pc'[x] = pc[x] \/ pc'[x] = "returned"
        /\ \A x \in Orders : rec'[x] = NoRow
        /\ faults' = faults + 1
        /\ UNCHANGED <<state, filled, booked, traded, open, executed, accepted, log>>
    BY <1>2 DEF Crash
  <2>2. StageInv' /\ SnapshotInv' /\ UniqueInv' /\ ExecutedInv'
    BY <2>1 DEF StageInv, SnapshotInv, UniqueInv, ExecutedInv, NoRow
  <2>3. BookInv'
    BY <1>0, <2>1 DEF BookInv
  <2> QED
    BY <2>2, <2>3
<1>3. ASSUME done < fetched, UNCHANGED <<pc, rec, open, executed, accepted, log, faults>>,
             UNCHANGED <<state, filled, booked, traded>>, done' = done + 1, cpc' = "idle",
             faults = 0 => Pending(Report.order, "booked") = 0 /\ Pending(Report.order, "updated") = 0,
             (faults = 0 /\ accepted[Report.order] <= 1) => state[Report.order] = "CANCELLED"
      PROVE  BrokerInv'
  <2> DEFINE r == Report.order
  <2>1. /\ done + 1 \in 1..Len(log) /\ done \in 0..(Len(log) - 1) /\ r \in Orders
        /\ Report.qty \in 1..Quantity
    BY <1>0, <1>3, ReportType
  <2>2. StageInv' /\ SnapshotInv' /\ UniqueInv' /\ ExecutedInv'
    BY <1>3 DEF StageInv, SnapshotInv, UniqueInv, ExecutedInv
  <2>3. ASSUME faults = 0, NEW x \in Orders \ InProcess PROVE ExternalInv(x)'
    <3>1. ExternalInv(x) /\ booked[x] \in Nat /\ filled[x] \in Nat /\ traded[x] \in Nat
      BY <1>0, <2>3 DEF BookInv
    <3>2. Reported(log, x, done + 1) = Reported(log, x, done) + (IF r = x THEN Report.qty ELSE 0)
      BY <1>0, <2>1, ReportedNext DEF Report
    <3>3. Reported(log, x, done) \in Nat
      BY <1>0, ReportedGrows
    <3>4. Pending(x, "booked") = 0 /\ Pending(x, "updated") = 0
      BY <1>3, <2>3 DEF Pending
    <3>5. Pending(x, "booked")' = 0 /\ Pending(x, "updated")' = 0
      BY <1>3 DEF Pending
    <3>6. traded[x] <= Reported(log, x, done + 1)
      BY <2>1, <3>1, <3>2, <3>3 DEF ExternalInv
    <3>7. accepted[x] <= 1 => traded[x] = Reported(log, x, done + 1) \/ state[x] = "CANCELLED"
      BY <1>3, <2>3, <3>1, <3>2, <3>3 DEF ExternalInv
    <3> QED
      BY <1>3, <3>1, <3>4, <3>5, <3>6, <3>7 DEF ExternalInv
  <2>4. ASSUME faults = 0, NEW x \in InProcess PROVE InternalInv(x)'
    BY <1>3, <2>4 DEF BookInv, InternalInv
  <2> QED
    BY <1>3, <2>2, <2>3, <2>4 DEF BookInv
<1>4. CASE Locate
  <2> DEFINE r == Report.order
  <2>1. /\ cpc = "idle" /\ done < fetched
        /\ UNCHANGED <<pc, rec, open, executed, accepted, log, faults>>
        /\ UNCHANGED <<state, filled, booked, traded>>
        /\ state[r] \in FillableStates => cpc' = "located" /\ done' = done
        /\ state[r] \notin FillableStates => cpc' = "idle" /\ done' = done + 1
    BY <1>4 DEF Locate, Returns
  <2>2. CASE state[r] \in FillableStates
    <3>1. UNCHANGED <<log, done>> /\ \A x : /\ Pending(x, "booked")' = Pending(x, "booked")
                                            /\ Pending(x, "updated")' = Pending(x, "updated")
      BY <2>1, <2>2 DEF Pending
    <3> QED
      BY <2>1, <3>1 DEF StageInv, SnapshotInv, UniqueInv, ExecutedInv, BookInv, ExternalInv,
                        InternalInv
  <2>3. CASE state[r] \notin FillableStates
    <3>1. Pending(r, "booked") = 0 /\ Pending(r, "updated") = 0
      BY <2>1 DEF Pending
    <3>2. ASSUME faults = 0, accepted[r] <= 1 PROVE state[r] = "CANCELLED"
      <4>1. filled[r] = 0
        BY <2>1, <3>2, FirstReport
      <4>2. r \in Orders /\ accepted[r] > 0
        BY <1>0, <2>1, ReportType DEF IInv, ReportInv, Report
      <4>3. state[r] \in {"SENT", "PARTIALLY_FILLED", "FILLED", "CANCELLED"}
        BY <4>2 DEF StageInv
      <4>4. state[r] = "FILLED" => filled[r] = Quantity
        BY <4>2 DEF IInv, StateMatchesFilled
      <4> QED
        BY <2>3, <4>1, <4>3, <4>4 DEF FillableStates
    <3> QED
      BY <1>3, <2>1, <2>3, <3>1, <3>2
  <2> QED
    BY <2>2, <2>3
<1>5. CASE ConsumerBooks
  <2> DEFINE r == Report.order
             q == Report.qty
  <2>1. /\ cpc = "located" /\ done < fetched
        /\ UNCHANGED <<pc, rec, open, executed, accepted, log, faults, state, filled, traded>>
        /\ Overfills(crec, q) => booked' = booked /\ cpc' = "idle" /\ done' = done + 1
        /\ ~Overfills(crec, q) => /\ booked' = [booked EXCEPT ![r] = @ + q]
                                  /\ cpc' = "booked" /\ done' = done
    BY <1>5 DEF ConsumerBooks, Returns, InsertFill, IInv, TypeOK
  <2>2. r \in Orders /\ q \in 1..Quantity /\ r \notin InProcess
    BY <1>0, <2>1, ReportType, NoReports
  <2>3. crec.filled = filled[r]
    BY <2>1 DEF IInv, ConsumerInv
  <2>4. CASE Overfills(crec, q)
    <3>1. Pending(r, "booked") = 0 /\ Pending(r, "updated") = 0
      BY <2>1 DEF Pending
    <3>2. ~(faults = 0 /\ accepted[r] <= 1)
      <4> SUFFICES ASSUME faults = 0, accepted[r] <= 1 PROVE FALSE
        OBVIOUS
      <4>1. filled[r] = 0
        BY <2>1, FirstReport
      <4> QED
        BY <2>2, <2>3, <2>4, <4>1 DEF Overfills
    <3> QED
      BY <1>3, <2>1, <2>4, <3>1, <3>2
  <2>5. CASE ~Overfills(crec, q)
    <3>1. StageInv' /\ SnapshotInv' /\ UniqueInv' /\ ExecutedInv'
      BY <2>1 DEF StageInv, SnapshotInv, UniqueInv, ExecutedInv
    <3>2. ASSUME faults = 0, NEW x \in Orders \ InProcess PROVE ExternalInv(x)'
      <4>1. ExternalInv(x) /\ booked[x] \in Nat /\ filled[x] \in Nat
        BY <1>0, <3>2 DEF BookInv
      <4>2. Report' = Report
        BY <2>1, <2>5 DEF Report
      <4>3. /\ Pending(x, "booked") = 0 /\ Pending(x, "updated") = 0
            /\ Pending(x, "booked")' = (IF r = x THEN q ELSE 0) /\ Pending(x, "updated")' = 0
        BY <2>1, <2>5, <4>2 DEF Pending
      <4>4. booked'[x] = booked[x] + (IF r = x THEN q ELSE 0)
        <5>1. booked' = [booked EXCEPT ![r] = booked[r] + q] /\ booked \in [Orders -> Nat]
          BY <1>0, <2>1, <2>5
        <5> HIDE DEF r, q
        <5> QED
          BY ONLY <5>1, <4>1, <2>2, x \in Orders \ InProcess
      <4> QED
        BY <2>1, <2>5, <4>1, <4>3, <4>4 DEF ExternalInv
    <3>3. ASSUME faults = 0, NEW x \in InProcess PROVE InternalInv(x)'
      <4>1. booked'[x] = booked[x]
        BY <1>0, <2>1, <2>2, <2>5
      <4> QED
        BY <2>1, <3>3, <4>1 DEF BookInv, InternalInv
    <3> QED
      BY <2>1, <3>1, <3>2, <3>3 DEF BookInv
  <2> QED
    BY <2>4, <2>5
<1>6. CASE ConsumerUpdates
  <2> DEFINE r == Report.order
             q == Report.qty
  <2>1. /\ cpc = "booked" /\ done < fetched /\ crec.state \in FillableStates
        /\ crec.filled = filled[Report.order] /\ crec.filled + q <= Quantity
    BY <1>6 DEF ConsumerUpdates, IInv, TypeOK, ConsumerInv
  <2>2. r \in Orders /\ q \in 1..Quantity /\ r \notin InProcess
    BY <1>0, <2>1, ReportType, NoReports
  <2>3. Valid(crec.state, TargetState(crec, q))
    BY <2>1 DEF Valid, TargetState, FillableStates, States, Transitions
  <2>4. /\ UNCHANGED <<pc, rec, open, executed, accepted, log, faults, booked, traded, done>>
        /\ cpc' = "updated"
        /\ state' = [state EXCEPT ![r] = TargetState(crec, q)]
        /\ filled' = [filled EXCEPT ![r] = filled[r] + q]
    BY <1>6, <2>1, <2>3 DEF ConsumerUpdates, RecordFill
  <2>5. \A x \in Orders : /\ x # r => state'[x] = state[x] /\ filled'[x] = filled[x]
                          /\ filled'[r] = filled[r] + q
                          /\ state'[r] \in {"FILLED", "PARTIALLY_FILLED"}
    BY <1>0, <2>2, <2>4 DEF TargetState
  <2>6. StageInv' /\ SnapshotInv' /\ UniqueInv' /\ ExecutedInv'
    BY <2>2, <2>4, <2>5 DEF StageInv, SnapshotInv, UniqueInv, ExecutedInv
  <2>7. ASSUME faults = 0, NEW x \in Orders \ InProcess PROVE ExternalInv(x)'
    <3>1. /\ ExternalInv(x) /\ booked[x] \in Nat /\ filled[x] \in Nat /\ traded[x] \in Nat
          /\ accepted[x] \in Nat
      BY <1>0, <2>7 DEF BookInv
    <3>2. Report' = Report
      BY <2>4 DEF Report
    <3>3. /\ Pending(x, "updated") = 0 /\ Pending(x, "booked") = (IF r = x THEN q ELSE 0)
          /\ Pending(x, "booked")' = 0 /\ Pending(x, "updated")' = (IF r = x THEN q ELSE 0)
      BY <2>1, <2>4, <3>2 DEF Pending
    <3>4. filled'[x] = filled[x] + (IF r = x THEN q ELSE 0)
      BY <2>5, <3>1
    <3>5. x = r /\ accepted[r] <= 1 => traded[r] = Reported(log, r, done)
      BY <2>1, <2>7, FirstReport
    <3>6. accepted[x] <= 1 => traded[x] = Reported(log, x, done) \/ state'[x] = "CANCELLED"
      BY <2>5, <3>1, <3>5 DEF ExternalInv
    <3> QED
      BY <2>2, <2>4, <3>1, <3>3, <3>4, <3>6 DEF ExternalInv
  <2>8. ASSUME faults = 0, NEW x \in InProcess PROVE InternalInv(x)'
    <3>1. state'[x] = state[x] /\ filled'[x] = filled[x]
      BY <2>2, <2>5
    <3> QED
      BY <2>4, <2>8, <3>1 DEF BookInv, InternalInv
  <2> QED
    BY <2>4, <2>6, <2>7, <2>8 DEF BookInv
<1>7. CASE ConsumerPublishes
  <2> DEFINE r == Report.order
             q == Report.qty
  <2>1. /\ cpc = "updated" /\ done < fetched
        /\ UNCHANGED <<pc, rec, open, executed, accepted, log, faults, booked, state, filled>>
        /\ cpc' = "idle" /\ done' = done + 1
        /\ traded' = [traded EXCEPT ![r] = @ + q]
    BY <1>7 DEF ConsumerPublishes, PublishTrade, Returns, IInv, TypeOK
  <2>2. r \in Orders /\ q \in 1..Quantity /\ r \notin InProcess /\ done \in 0..(Len(log) - 1)
    BY <1>0, <2>1, ReportType, NoReports
  <2>3. StageInv' /\ SnapshotInv' /\ UniqueInv' /\ ExecutedInv'
    BY <2>1 DEF StageInv, SnapshotInv, UniqueInv, ExecutedInv
  <2>4. ASSUME faults = 0, NEW x \in Orders \ InProcess PROVE ExternalInv(x)'
    <3>1. /\ ExternalInv(x) /\ booked[x] \in Nat /\ filled[x] \in Nat /\ traded[x] \in Nat
          /\ accepted[x] \in Nat
      BY <1>0, <2>4 DEF BookInv
    <3>2. Reported(log, x, done + 1) = Reported(log, x, done) + (IF r = x THEN q ELSE 0)
      BY <1>0, <2>2, ReportedNext DEF Report
    <3>3. Reported(log, x, done) \in Nat
      BY <1>0, ReportedGrows
    <3>4. /\ Pending(x, "booked") = 0 /\ Pending(x, "updated") = (IF r = x THEN q ELSE 0)
          /\ Pending(x, "booked")' = 0 /\ Pending(x, "updated")' = 0
      BY <2>1 DEF Pending
    <3>5. traded'[x] = traded[x] + (IF r = x THEN q ELSE 0)
      <4>1. traded' = [traded EXCEPT ![r] = traded[r] + q] /\ traded \in [Orders -> Nat]
        BY <1>0, <2>1
      <4> HIDE DEF r, q
      <4> QED
        BY ONLY <4>1, <3>1, <2>2, x \in Orders \ InProcess
    <3>6. traded'[x] <= Reported(log, x, done + 1)
      BY <2>2, <3>1, <3>2, <3>3, <3>5 DEF ExternalInv
    <3>7. accepted[x] <= 1 => traded'[x] = Reported(log, x, done + 1) \/ state[x] = "CANCELLED"
      BY <2>2, <3>1, <3>2, <3>3, <3>5 DEF ExternalInv
    <3>8. filled[x] = traded'[x] /\ booked[x] = filled[x]
      BY <3>1, <3>4, <3>5 DEF ExternalInv
    <3> QED
      BY <2>1, <3>1, <3>4, <3>6, <3>7, <3>8 DEF ExternalInv
  <2>5. ASSUME faults = 0, NEW x \in InProcess PROVE InternalInv(x)'
    <3>1. traded'[x] = traded[x]
      BY <1>0, <2>1, <2>2
    <3> QED
      BY <2>1, <2>5, <3>1 DEF BookInv, InternalInv
  <2> QED
    BY <2>1, <2>3, <2>4, <2>5 DEF BookInv
<1> QED
  BY <1>1, <1>2, <1>4, <1>5, <1>6, <1>7 DEF Consume

\* Both invariants hold in every reachable state.
LEMMA OrderInvariant == Spec => [](IInv /\ BrokerInv)
<1>1. IInv /\ BrokerInv /\ [Next]_vars => BrokerInv'
  <2> SUFFICES ASSUME IInv, BrokerInv, [Next]_vars PROVE BrokerInv'
    OBVIOUS
  <2>1. CASE Next
    BY <2>1, CreateBrokerInv, OutsideBrokerInv, ConsumeBrokerInv DEF Next
  <2>2. CASE UNCHANGED vars
    <3>1. UNCHANGED <<state, filled, booked, traded, pc, rec, open, executed, accepted, log,
                      done, cpc, faults>>
      BY <2>2 DEF vars, orders, creator, exchange, topic, consumer
    <3> QED
      BY <3>1, TopicKept DEF BrokerInv, StageInv, SnapshotInv, UniqueInv, ExecutedInv, BookInv,
                             ExternalInv, InternalInv
  <2> QED
    BY <2>1, <2>2
<1> QED
  BY <1>1, InitIInv, InitBrokerInv, NextIInv, PTL DEF Spec

\* Without faults the platform trades only what the broker executed, and all of
\* it in the end, unless the order was cancelled here or submitted twice.
THEOREM TradesFollowBroker == Spec => []PlatformFollowsBroker
<1>1. IInv /\ BrokerInv => PlatformFollowsBroker
  <2> SUFFICES ASSUME IInv, BrokerInv, faults = 0, NEW o \in Orders
               PROVE  /\ traded[o] <= executed[o]
                      /\ Quiet(o) /\ accepted[o] <= 1 /\ state[o] # "CANCELLED"
                           => traded[o] = executed[o]
    BY DEF PlatformFollowsBroker
  <2>1. /\ traded[o] \in Nat /\ executed[o] \in Nat /\ accepted[o] \in Nat
        /\ log \in Seq(Reports) /\ done \in 0..Len(log) /\ Len(log) \in Nat
        /\ pc[o] \in {"new", "draft", "pending", "approved", "sent", "filled",
                      "booked", "updated", "returned"}
    BY DEF IInv, TypeOK
  <2>2. CASE o \notin InProcess
    <3>1. ExternalInv(o) /\ executed[o] = Reported(log, o, Len(log))
      BY <2>2 DEF BrokerInv, BookInv, ExecutedInv
    <3>2. /\ Reported(log, o, done) \in Nat
          /\ Reported(log, o, done) <= Reported(log, o, Len(log))
      BY <2>1, ReportedGrows
    <3> QED
      BY <2>1, <3>1, <3>2 DEF ExternalInv, Quiet
  <2>3. CASE o \in InProcess
    <3>1. /\ pc[o] = "returned" =>
               traded[o] <= executed[o] /\ (traded[o] = executed[o] \/ state[o] = "CANCELLED")
          /\ pc[o] \notin {"updated", "returned"} => traded[o] = 0
          /\ pc[o] = "updated" => traded[o] = 0
      BY <2>3 DEF BrokerInv, BookInv, InternalInv, IInv, CreatorInv
    <3> QED
      BY <2>1, <3>1 DEF Quiet
  <2> QED
    BY <2>2, <2>3
<1> QED
  BY <1>1, OrderInvariant, PTL

\* Without faults the fills table, the order row and the published trades agree
\* whenever no fill of the order is in progress.
THEOREM BooksStayTogether == Spec => []BooksAgree
<1>1. IInv /\ BrokerInv => BooksAgree
  <2> SUFFICES ASSUME IInv, BrokerInv, faults = 0, cpc = "idle", NEW o \in Orders,
                      pc[o] \notin {"booked", "updated"},
                      o \in InProcess => state[o] # "CANCELLED"
               PROVE  booked[o] = filled[o] /\ traded[o] = booked[o]
    BY DEF BooksAgree
  <2>1. /\ traded[o] \in Nat /\ filled[o] \in Nat /\ booked[o] \in Nat
    BY DEF IInv, TypeOK
  <2>2. CASE o \notin InProcess
    <3>1. ExternalInv(o)
      BY <2>2 DEF BrokerInv, BookInv
    <3> QED
      BY <2>1, <3>1 DEF ExternalInv, Pending
  <2>3. CASE o \in InProcess
    BY <2>3 DEF BrokerInv, BookInv, InternalInv, IInv, CreatorInv
  <2> QED
    BY <2>2, <2>3
<1> QED
  BY <1>1, OrderInvariant, PTL
=============================================================================
