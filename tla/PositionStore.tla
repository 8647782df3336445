---------------------------- MODULE PositionStore ----------------------------
(***************************************************************************)
(* The events of one position and its read model, written by               *)
(* positions/core/trade_handler.py through event_store.py and              *)
(* position_projector.py.                                                  *)
(*                                                                         *)
(* Three kinds of tasks write: a POST /trades request (handle_trade), the  *)
(* consumer of trades.executed and the consumer of                         *)
(* corporate-actions.announced (both through handle_trade_event).  Every   *)
(* attempt is one READ COMMITTED transaction: each of its queries sees     *)
(* what is committed by then, and its writes appear at the commit.  What   *)
(* the events do to the quantities is PositionAggregate's subject; here an *)
(* aggregate is the sequence of events it was folded from.                 *)
(***************************************************************************)
EXTENDS Integers, FiniteSets, SequencesExt

CONSTANTS
  Direct,      \* trades posted by clients
  Retries,     \* those of Direct that share one idempotency key
  Orders,      \* trades that the order service publishes
  Actions,     \* corporate actions
  Sells,       \* those trades that are sells; every trade is for one lot
  MaxAttempts, \* max_retries
  MaxMessages, \* bound on the messages of other components
  MaxFaults    \* bound on restarts

ASSUME StoreAssumption ==
  /\ Retries \subseteq Direct
  /\ Sells \subseteq Direct \cup Orders
  /\ Direct \cap Orders = {} /\ Direct \cap Actions = {} /\ Orders \cap Actions = {}
  /\ {"trades", "actions"} \cap Direct = {}
  /\ {"key", "none"} \cap (Direct \cup Orders \cup Actions) = {}
  /\ MaxAttempts \in Nat \ {0}
  /\ MaxMessages \in Nat
  /\ MaxFaults \in Nat

Consumers == {"trades", "actions"}
Workers == Direct \cup Consumers

VARIABLES
  log,            \* committed events: sequence of trade and key
  projected,      \* the events behind current_positions and lots
  pc, attempt,    \* per task: where it is in _apply_trade, its attempt
  base, seen,     \* per task: events it loaded, the MAX() it read
  topic,          \* per consumer: its topic
  next, offset,   \* per consumer: messages behind it, committed offset
  overlap,        \* history: two transactions were open together
  faults

tx == <<pc, attempt, base, seen>>
queues == <<topic, next, offset>>
vars == <<log, projected, tx, queues, overlap, faults>>

Trades == Direct \cup Orders \cup Actions

\* The trade that task w applies.
Job(w) == IF w \in Direct THEN w ELSE topic[w][next[w] + 1]

\* The key is the trade_id, which handle_trade makes up for every request.
KeyPerTrade(w) == Job(w)

\* handle_trade_event keys a trade by its id; a posted trade carries the
\* client's key or none.
Key(w) ==
  IF w \in Consumers THEN Job(w)
  ELSE IF w \in Retries THEN "key" ELSE "none"

Open == {w \in Workers : pc[w] \in {"load", "max", "commit"}}

TypeOK ==
  /\ \A k \in DOMAIN log : log[k].trade \in Trades
  /\ pc \in [Workers -> {"new", "load", "max", "commit", "publish", "done", "failed"}]
  /\ attempt \in [Workers -> 1..MaxAttempts]
  /\ seen \in [Workers -> 0..Len(log)]
  /\ \A w \in Workers : Len(base[w]) <= Len(log)
  /\ \A c \in Consumers : offset[c] <= next[c] /\ next[c] <= Len(topic[c])
  /\ overlap \in BOOLEAN
  /\ faults \in 0..MaxFaults

Init ==
  /\ log = <<>> /\ projected = <<>>
  /\ pc = [w \in Workers |-> "new"]
  /\ attempt = [w \in Workers |-> 1]
  /\ base = [w \in Workers |-> <<>>]
  /\ seen = [w \in Workers |-> 0]
  /\ topic = [c \in Consumers |-> <<>>]
  /\ next = [c \in Consumers |-> 0] /\ offset = [c \in Consumers |-> 0]
  /\ overlap = FALSE
  /\ faults = 0

-----------------------------------------------------------------------------
Goto(w, at) == pc' = [pc EXCEPT ![w] = at]

FromOthers(c) == {k \in DOMAIN topic[c] : topic[c][k] \notin Direct}

\* Order fills arrive from the order service, on trades.executed.  An action is
\* announced on corporate-actions.announced, and its adjustment is published to
\* trades.executed, again when it is processed again: either consumer, or both,
\* may be handed it.
Send(c, t) ==
  /\ t \in IF c = "trades" THEN Orders \cup Actions ELSE Actions
  /\ t \in Orders => \A k \in DOMAIN topic[c] : topic[c][k] # t
  /\ Cardinality(FromOthers("trades")) + Cardinality(FromOthers("actions")) < MaxMessages
  /\ topic' = [topic EXCEPT ![c] = Append(@, t)]
  /\ UNCHANGED <<log, projected, tx, next, offset, overlap, faults>>

\* Only the key of a posted trade is looked up.
DuplicatePost(w) ==
  w \in Direct /\ Key(w) # "none" /\ \E k \in DOMAIN log : log[k].key = Key(w)

\* has_idempotency_key
Duplicate(w) == Key(w) # "none" /\ \E k \in DOMAIN log : log[k].key = Key(w)

\* The session is closed; its next transaction, if any, is attempt n.
Close(w, n) ==
  /\ base' = [base EXCEPT ![w] = <<>>]
  /\ seen' = [seen EXCEPT ![w] = 0]
  /\ attempt' = [attempt EXCEPT ![w] = n]

\* The end of _apply_trade: a consumer is ready for its next message.
Finish(w, at) ==
  /\ Close(w, 1)
  /\ IF w \in Consumers
       THEN Goto(w, "new") /\ next' = [next EXCEPT ![w] = @ + 1]
       ELSE Goto(w, at) /\ UNCHANGED next

\* A session is opened for the posted trade or the next message, and its first
\* query looks for the key.
Check(w) ==
  /\ pc[w] = "new"
  /\ w \in Consumers => next[w] < Len(topic[w])
  /\ overlap' = IF Open = {} THEN overlap ELSE TRUE
  /\ IF Duplicate(w) THEN Finish(w, "done")
                     ELSE Goto(w, "load") /\ UNCHANGED <<next, attempt, base, seen>>
  /\ UNCHANGED <<log, projected, topic, offset, faults>>

\* get_by_aggregate
Load(w) ==
  /\ pc[w] = "load"
  /\ base' = [base EXCEPT ![w] = log]
  /\ Goto(w, "max")
  /\ UNCHANGED <<log, projected, attempt, seen, queues, overlap, faults>>

\* append reads MAX(sequence_number)
ReadMax(w) ==
  /\ pc[w] = "max"
  /\ seen' = [seen EXCEPT ![w] = Len(log)]
  /\ Goto(w, "commit")
  /\ UNCHANGED <<log, projected, attempt, base, queues, overlap, faults>>

\* The open lots of an aggregate: a buy opens one, a sell closes the oldest
\* long lot or opens a short one, and drops every earlier short lot.
ApplyToLots(lots, e) ==
  LET Long(l) == l \notin Sells
      long == SelectSeq(lots, Long)
  IN  CASE e.trade \in Actions -> lots
        [] e.trade \in Sells   -> IF lots # <<>> /\ Long(Head(lots))
                                    THEN Tail(long)
                                    ELSE Append(long, e.trade)
        [] OTHER               -> Append(lots, e.trade)

Lots(events) == FoldLeft(ApplyToLots, <<>>, events)

\* The sequence number is free, and no two lots to insert have the same id: it
\* is made from the trade_id, and it is the primary key of lots.
NoConflict(w) ==
  /\ seen[w] = Len(log)
  /\ LET lots == Lots(Append(base[w], [trade |-> Job(w), key |-> Key(w)]))
     IN  \A j, k \in DOMAIN lots : lots[j] = lots[k] => j = k

\* The read model misses the event that was just appended.
ProjectedBefore(w) == base[w]

Projected(w) == Append(base[w], [trade |-> Job(w), key |-> Key(w)])

Commit(w) ==
  /\ pc[w] = "commit"
  /\ NoConflict(w)
  /\ log' = Append(log, [trade |-> Job(w), key |-> Key(w)])
  /\ projected' = Projected(w)
  /\ Finish(w, "publish")
  /\ UNCHANGED <<topic, offset, overlap, faults>>

LastAttempt(w) == attempt[w] = MaxAttempts

\* IntegrityError: the transaction is rolled back and tried again, or the
\* error is raised (and a consumer goes on with the next message).
Abort(w) ==
  /\ pc[w] = "commit"
  /\ ~NoConflict(w)
  /\ IF LastAttempt(w)
       THEN Finish(w, "failed")
       ELSE Close(w, attempt[w] + 1) /\ Goto(w, "new") /\ UNCHANGED next
  /\ UNCHANGED <<log, projected, topic, offset, overlap, faults>>

\* handle_trade publishes trades.executed, which the trades consumer reads.
Publish(w) ==
  /\ pc[w] = "publish"
  /\ topic' = [topic EXCEPT !["trades"] = Append(@, w)]
  /\ Goto(w, "done")
  /\ UNCHANGED <<log, projected, attempt, base, seen, next, offset, overlap, faults>>

\* The event bus commits a consumer's offset after its batch.
CommitOffset(c) ==
  /\ pc[c] = "new" /\ attempt[c] = 1
  /\ offset[c] < next[c]
  /\ offset' = [offset EXCEPT ![c] = next[c]]
  /\ UNCHANGED <<log, projected, tx, topic, next, overlap, faults>>

\* The process dies; what was not committed is delivered again.
Crash ==
  /\ faults < MaxFaults
  /\ faults' = faults + 1
  /\ pc' = [w \in Workers |->
              CASE w \in Consumers                                   -> "new"
                [] pc[w] = "done" \/ (pc[w] = "new" /\ attempt[w] = 1) -> pc[w]
                [] OTHER                                             -> "failed"]
  /\ attempt' = [w \in Workers |-> 1]
  /\ base' = [w \in Workers |-> <<>>]
  /\ seen' = [w \in Workers |-> 0]
  /\ next' = offset
  /\ UNCHANGED <<log, projected, topic, offset, overlap>>

Apply(w) ==
  Check(w) \/ Load(w) \/ ReadMax(w) \/ Commit(w) \/ Abort(w)

Next ==
  \/ \E c \in Consumers, t \in Trades : Send(c, t)
  \/ \E w \in Workers : Apply(w)
  \/ \E w \in Direct : Publish(w)
  \/ \E c \in Consumers : CommitOffset(c)
  \/ Crash

Spec == Init /\ [][Next]_vars

-----------------------------------------------------------------------------
Keys == Trades \cup {"key", "none"}

\* Posted trades with the same key can be exchanged for each other.
PostSymmetry == Permutations(Retries)

Log == INSTANCE PositionLog WITH
  Messages <- Orders,
  Shared <- Actions,
  view <- projected,
  contended <- overlap

\* The store is the log that PositionLog describes: its transactions, their
\* conflicts and retries, redelivered messages and restarts show as one event
\* at a time at the end of the log, and a read model rebuilt from a beginning of
\* the log.  A fill of the order service is there at most once; a corporate
\* action, which two consumers may work on under the same key, at most once as
\* long as no two transactions were open together.
ImplementsLog == Log!Spec

\* Posted buys with one idempotency key are applied once when no two
\* transactions are open together, even after a restart, and although the
\* trades consumer is handed each of them again under another key.  Only their
\* lots, while no sell closes them, tell the consumer that it has seen them.
RetryAppliedOnce ==
  (~overlap /\ \A k \in DOMAIN log : log[k].trade \notin Sells) =>
    Cardinality({k \in DOMAIN log : log[k].trade \in Retries}) <= 1

\* Without overlapping transactions the read model holds every event.
ProjectionFollows == ~overlap => projected = log
=============================================================================
