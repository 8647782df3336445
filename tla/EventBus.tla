------------------------------ MODULE EventBus ------------------------------
(***************************************************************************)
(* One partition of one topic of app/shared/kafka.py: publish, the consume *)
(* loop with its batches, handlers, failure counts and offset commits, the *)
(* dead-letter topic, and the replay of app/shared/dlq_manager.py.         *)
(*                                                                         *)
(* Offsets count from 1; an offset variable holds the last offset that is  *)
(* behind it.                                                              *)
(***************************************************************************)
EXTENDS Integers, Sequences, FiniteSets, Functions

CONSTANTS
  Events,      \* event ids
  Poison,      \* events that deserialize_event cannot read
  Handlers,    \* number of handlers of the topic
  MaxRetries,  \* _dlq_max_retries
  BatchSize,   \* max_records
  MaxTopic,    \* bound on the length of the topic
  MaxFaults    \* bound on crashes, rebalances and failed broker calls

ASSUME BusAssumption ==
  /\ Poison \subseteq Events
  /\ Handlers \in Nat \ {0}
  /\ MaxRetries \in Nat \ {0}
  /\ BatchSize \in Nat \ {0}
  /\ MaxTopic \in Nat
  /\ MaxFaults \in Nat

VARIABLES
  topic, dlq,        \* the topic and its .dlq topic
  position,          \* consumer: last offset fetched
  committed,         \* last offset committed by the group, -1 for none yet
  origin,            \* history: where the group began to read the topic
  pc, at, last,      \* consume loop: where it is, its message, end of batch
  hnd, allOk,        \* loop: next handler, all_ok
  counts,            \* _failure_counts
  replayed, rat,     \* replay group: committed offset, message being sent
  rend, rfailed,     \* replay: end of its batch, failed
  outbox,            \* replay's producer: DLQ offsets sent but not delivered
  tried,             \* history: <<offset, handler>> pairs that were called
  failed,            \* history: per event, deliveries with a failed handler
  resent,            \* history: DLQ offsets delivered to the topic again
  lost,              \* history: DLQ offsets sent whose delivery failed
  faults

loop == <<position, committed, origin, pc, at, last, hnd, allOk, counts>>
replay == <<replayed, rat, rend, rfailed, outbox>>
history == <<tried, failed, resent, lost>>
vars == <<topic, dlq, loop, replay, history, faults>>

TypeOK ==
  /\ topic \in Seq(Events) /\ Len(topic) <= MaxTopic
  /\ dlq \in Seq(Events)
  /\ committed \in -1..position /\ position \in 0..Len(topic) /\ origin \in 0..Len(topic)
  /\ pc \in {"poll", "handle", "settle", "commit"}
  /\ at \in 0..(MaxTopic + 1) /\ last \in 0..Len(topic)
  /\ hnd \in 1..(Handlers + 1) /\ allOk \in BOOLEAN
  /\ counts \in [Events -> 0..(MaxRetries - 1)]
  /\ replayed \in 0..Len(dlq) /\ rat \in 0..(Len(dlq) + 1) /\ rend \in 0..Len(dlq)
  /\ rfailed \in BOOLEAN /\ outbox \subseteq 1..Len(dlq)
  /\ failed \in [Events -> Nat]
  /\ faults \in 0..MaxFaults

Init ==
  /\ topic = <<>> /\ dlq = <<>>
  /\ position = 0 /\ committed = -1 /\ origin = 0
  /\ pc = "poll" /\ at = 0 /\ last = 0 /\ hnd = 1 /\ allOk = TRUE
  /\ counts = [e \in Events |-> 0]
  /\ replayed = 0 /\ rat = 0 /\ rend = 0 /\ rfailed = FALSE /\ outbox = {}
  /\ tried = {} /\ failed = [e \in Events |-> 0] /\ resent = {} /\ lost = {}
  /\ faults = 0

-----------------------------------------------------------------------------
Fault == faults < MaxFaults /\ faults' = faults + 1

\* publish: an event is published once; a produce that fails is only logged.
Publish(e) ==
  /\ Len(topic) < MaxTopic
  /\ e \notin Range(topic)
  /\ topic' = Append(topic, e)
  /\ UNCHANGED <<dlq, loop, replay, history, faults>>

Least(a, b) == IF a < b THEN a ELSE b

Fetch(to, then) ==
  /\ at' = position + 1
  /\ last' = to
  /\ position' = to
  /\ pc' = then
  /\ hnd' = 1 /\ allOk' = TRUE
  /\ UNCHANGED <<topic, dlq, committed, origin, counts, replay, history, faults>>

\* An empty batch is not followed by a commit.
PollNonEmpty ==
  /\ pc = "poll"
  /\ position < Len(topic)
  /\ Fetch(Least(position + BatchSize, Len(topic)), "handle")

\* getmany: the next batch.  An empty one is followed by a commit as well.
Poll ==
  /\ pc = "poll"
  /\ IF position < Len(topic)
       THEN Fetch(Least(position + BatchSize, Len(topic)), "handle")
       ELSE Fetch(position, "commit")

NextMessage ==
  /\ at' = at + 1
  /\ pc' = IF at < last THEN "handle" ELSE "commit"
  /\ hnd' = 1
  /\ allOk' = TRUE

\* event_deserialization_failed: on to the next message.
SkipPoison ==
  /\ pc = "handle"
  /\ topic[at] \in Poison
  /\ NextMessage
  /\ UNCHANGED <<topic, dlq, position, committed, origin, last, counts, replay, history, faults>>

\* A handler that fails ends the message.
AfterHandlerBreak(ok) == IF ok /\ hnd < Handlers THEN "handle" ELSE "settle"

\* A failed handler does not keep the others from being called.
AfterHandler(ok) == IF hnd < Handlers THEN "handle" ELSE "settle"

CallHandler(ok) ==
  /\ pc = "handle"
  /\ topic[at] \notin Poison
  /\ tried' = tried \cup {<<at, hnd>>}
  /\ allOk' = (allOk /\ ok)
  /\ hnd' = hnd + 1
  /\ pc' = AfterHandler(ok)
  /\ UNCHANGED <<topic, dlq, position, committed, origin, at, last, counts, replay,
                 failed, resent, lost, faults>>

\* Off by one in the retry limit.
ExhaustedEarly(e) == counts[e] + 2 >= MaxRetries

Exhausted(e) == counts[e] + 1 >= MaxRetries

SettleOk ==
  /\ pc = "settle"
  /\ allOk
  /\ counts' = [counts EXCEPT ![topic[at]] = 0]
  /\ NextMessage
  /\ UNCHANGED <<topic, dlq, position, committed, origin, last, replay, history, faults>>

\* Below the limit the failure is counted and nothing else happens.
SettleRetry ==
  /\ pc = "settle"
  /\ ~allOk
  /\ ~Exhausted(topic[at])
  /\ counts' = [counts EXCEPT ![topic[at]] = @ + 1]
  /\ failed' = [failed EXCEPT ![topic[at]] = @ + 1]
  /\ NextMessage
  /\ UNCHANGED <<topic, dlq, position, committed, origin, last, replay, tried, resent, lost, faults>>

CountDropped(e) == [counts EXCEPT ![e] = 0]

\* At the limit: the dead-letter topic; the count is dropped even if the
\* produce fails.
SettleDlq(sent) ==
  /\ pc = "settle"
  /\ ~allOk
  /\ Exhausted(topic[at])
  /\ dlq' = IF sent THEN Append(dlq, topic[at]) ELSE dlq
  /\ counts' = CountDropped(topic[at])
  /\ failed' = [failed EXCEPT ![topic[at]] = @ + 1]
  /\ IF sent THEN UNCHANGED faults ELSE Fault
  /\ NextMessage
  /\ UNCHANGED <<topic, position, committed, origin, last, replay, tried, resent, lost>>

\* The end of every batch, whatever the handlers did.
Commit ==
  /\ pc = "commit"
  /\ pc' = "poll"
  /\ committed' = position
  /\ UNCHANGED <<topic, dlq, position, origin, at, last, hnd, allOk, counts, replay, history, faults>>

\* kafka_commit_failed is logged; the position stays.
CommitFails ==
  /\ pc = "commit"
  /\ Fault
  /\ pc' = "poll"
  /\ UNCHANGED <<topic, dlq, position, committed, origin, at, last, hnd, allOk, counts, replay, history>>

\* The partition is assigned anew: on from the committed offset, or, before
\* the first commit, from the end of the topic (auto_offset_reset="latest").
Resume ==
  LET from == IF committed = -1 THEN Len(topic) ELSE committed
  IN  /\ position' = from
      /\ last' = from
      /\ origin' = IF committed = -1 THEN from ELSE origin

\* A group rebalance between two polls.
Rebalance ==
  /\ pc = "poll"
  /\ position # committed
  /\ Fault
  /\ Resume
  /\ UNCHANGED <<topic, dlq, committed, pc, at, hnd, allOk, counts, replay, history>>

\* The process dies: counts, position and a running replay go with it, and
\* what the replay's producer had not delivered.
Crash ==
  /\ Fault
  /\ Resume
  /\ pc' = "poll" /\ at' = 0 /\ hnd' = 1 /\ allOk' = TRUE
  /\ counts' = [e \in Events |-> 0]
  /\ rat' = 0 /\ rend' = 0 /\ rfailed' = FALSE /\ outbox' = {}
  /\ lost' = lost \cup outbox
  /\ UNCHANGED <<topic, dlq, committed, replayed, tried, failed, resent>>

-----------------------------------------------------------------------------
\* DlqManager.replay: one batch.  The one before has stopped its producer,
\* which waits for what is in the outbox.
ReplayStart ==
  /\ rat = 0 /\ outbox = {}
  /\ replayed < Len(dlq)
  /\ rat' = replayed + 1
  /\ rend' = Len(dlq)
  /\ rfailed' = FALSE
  /\ UNCHANGED <<topic, dlq, loop, replayed, outbox, history, faults>>

\* await producer.send: into the producer's buffer; the future of the delivery
\* is not awaited.
ReplaySend ==
  /\ rat \in 1..rend
  /\ outbox' = outbox \cup {rat}
  /\ rat' = rat + 1
  /\ UNCHANGED <<topic, dlq, loop, replayed, rend, rfailed, history, faults>>

ReplaySendFails ==
  /\ rat \in 1..rend
  /\ Fault
  /\ rfailed' = TRUE
  /\ rat' = rat + 1
  /\ UNCHANGED <<topic, dlq, loop, replayed, rend, outbox, history>>

\* The producer's task delivers in order, before or after the commit; no later
\* than in producer.stop.
Deliver(k) ==
  /\ \A j \in outbox : k <= j
  /\ Len(topic) < MaxTopic
  /\ topic' = Append(topic, dlq[k])
  /\ outbox' = outbox \ {k}
  /\ resent' = resent \cup {k}
  /\ UNCHANGED <<dlq, loop, replayed, rat, rend, rfailed, tried, failed, lost, faults>>

\* A delivery that fails shows only in the future that nobody awaits.
DeliverFails(k) ==
  /\ \A j \in outbox : k <= j
  /\ Fault
  /\ outbox' = outbox \ {k}
  /\ lost' = lost \cup {k}
  /\ UNCHANGED <<topic, dlq, loop, replayed, rat, rend, rfailed, tried, failed, resent>>

\* The offsets are committed whether or not every send succeeded.
CommitReplayAlways == TRUE

\* if batch and failed == 0
CommitReplay == ~rfailed

EndReplay(to) ==
  /\ rat > rend /\ rat # 0
  /\ replayed' = to
  /\ rat' = 0 /\ rend' = 0 /\ rfailed' = FALSE
  /\ UNCHANGED <<topic, dlq, loop, outbox, history>>

ReplayEnd ==
  /\ EndReplay(IF CommitReplay THEN rend ELSE replayed)
  /\ UNCHANGED faults

\* consumer.commit raises out of the replay.
ReplayCommitFails ==
  /\ CommitReplay
  /\ Fault
  /\ EndReplay(replayed)

Consume ==
  \/ Poll \/ SkipPoison \/ SettleOk \/ SettleRetry \/ SettleDlq(TRUE) \/ Commit
  \/ \E ok \in BOOLEAN : CallHandler(ok)

Next ==
  \/ \E e \in Events : Publish(e)
  \/ Consume
  \/ SettleDlq(FALSE) \/ CommitFails \/ Rebalance \/ Crash
  \/ ReplayStart \/ ReplaySend \/ ReplaySendFails \/ ReplayEnd \/ ReplayCommitFails
  \/ \E k \in outbox : Deliver(k) \/ DeliverFails(k)

Spec == Init /\ [][Next]_vars

\* The consumer task runs as long as the process does.
FairSpec == Spec /\ WF_vars(Consume)

-----------------------------------------------------------------------------
\* Offsets are committed only behind messages that every handler was called
\* with: a crash, a rebalance or a failing handler never makes the loop skip a
\* handler of a readable message behind the offset where the group began.
CommittedWasTried ==
  \A o \in (origin + 1)..committed, h \in 1..Handlers :
    topic[o] \notin Poison => <<o, h>> \in tried

\* Only events that failed on _dlq_max_retries deliveries for each time they
\* are in the dead-letter topic are dead-lettered.
DlqAfterRetries ==
  \A e \in Events :
    failed[e] >= MaxRetries * Cardinality({k \in DOMAIN dlq : dlq[k] = e})

\* A replay takes a dead letter off the queue only after it handed it to its
\* producer, although one send of several may fail: every letter taken off is
\* in the source topic again, or on its way there, or its delivery failed
\* afterwards, where DlqManager.replay does not look.
ReplayKeepsLetters == 1..replayed \subseteq resent \cup outbox \cup lost

\* The consumer gets to every event, past failing handlers, failed commits and
\* restarts: the committed offset passes it, and unless it is unreadable or was
\* published before the offset where the group began to read ("latest", as long
\* as nothing was committed), every handler was called with it.
EveryEventTried ==
  \A o \in 1..MaxTopic :
    o <= Len(topic) ~>
      /\ o <= committed
      /\ \/ o <= origin
         \/ topic[o] \in Poison
         \/ \A h \in 1..Handlers : <<o, h>> \in tried
=============================================================================
