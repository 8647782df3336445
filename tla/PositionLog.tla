---------------------------- MODULE PositionLog ----------------------------
(***************************************************************************)
(* What the event store of positions promises to those who read it: the    *)
(* events of a position are only ever added to, one at a time and as a     *)
(* whole; a message that one consumer handles is recorded at most once, and*)
(* one that several may handle at most once until writers contend; and the *)
(* read model that comes with an event was rebuilt from events that are in *)
(* the log, in their order, and from this one.  PositionStore implements   *)
(* it with transactions, retries and redelivery.                           *)
(***************************************************************************)
EXTENDS Integers, Sequences

CONSTANTS
  Trades,    \* what may be recorded
  Messages,  \* the trades that reach the store as messages to one consumer
  Shared,    \* those that reach it as messages to several
  Keys       \* idempotency keys

VARIABLES
  log,        \* position_events of one aggregate
  view,       \* the events behind its row in current_positions
  contended   \* two writers have been at work together

Init == log = <<>> /\ view = <<>> /\ contended = FALSE

Contend ==
  /\ contended' = TRUE
  /\ UNCHANGED <<log, view>>

\* An event is appended and the read model is rebuilt, in one commit.
Record(e) ==
  /\ e.trade \in Messages \/ (e.trade \in Shared /\ ~contended) =>
       \A k \in DOMAIN log : log[k].trade # e.trade
  /\ log' = Append(log, e)
  /\ \E n \in 0..Len(log) : view' = Append(SubSeq(log, 1, n), e)
  /\ UNCHANGED contended

Next ==
  \/ Contend
  \/ \E t \in Trades, k \in Keys : Record([trade |-> t, key |-> k])

Spec == Init /\ [][Next]_<<log, view, contended>>
=============================================================================
