------------------------ MODULE InfrastructureProofs ------------------------
(***************************************************************************)
(* What the shared infrastructure guarantees to the modules on top of it,  *)
(* for every value of the constants: the event bus, the idempotency keys of*)
(* the HTTP middleware and the circuit breaker.  The three have no state in*)
(* common.                                                                 *)
(***************************************************************************)
EXTENDS EventBus, IdempotencyMiddleware, CircuitBreaker,
        SequenceTheorems, FiniteSetTheorems, TLAPS

-----------------------------------------------------------------------------
(***************************************************************************)
(* The event bus                                                           *)
(***************************************************************************)

\* What the consume loop, its offsets and the replay range over.
BusTypes ==
  /\ topic \in Seq(Events) /\ dlq \in Seq(Events)
  /\ position \in 0..Len(topic) /\ committed \in -1..position /\ origin \in Nat
  /\ pc \in {"poll", "handle", "settle", "commit"}
  /\ at \in Nat /\ last \in Nat /\ hnd \in 1..(Handlers + 1)
  /\ counts \in [Events -> 0..(MaxRetries - 1)] /\ failed \in [Events -> Nat]
  /\ replayed \in 0..Len(dlq) /\ rat \in Nat /\ rend \in 0..Len(dlq)
  /\ faults \in Nat

\* Every handler was called with every readable message up to offset n.
Tried(n) ==
  \A o \in (origin + 1)..n, h \in 1..Handlers :
    topic[o] \notin Poison => <<o, h>> \in tried

\* The batch in progress ends at the position; a message that is being handled
\* is in it, and one that is settled went to every handler.
LoopInv ==
  /\ pc # "poll" => last = position
  /\ pc \in {"handle", "settle"} => at \in 1..last
  /\ pc = "handle" => hnd \in 1..Handlers
  /\ pc = "settle" => hnd = Handlers + 1

\* What was tried when the loop is where it is.
TriedInv ==
  /\ Tried(committed)
  /\ pc \in {"poll", "commit"} => Tried(position)
  /\ pc \in {"handle", "settle"} =>
       /\ Tried(at - 1)
       /\ topic[at] \notin Poison => \A h \in 1..(hnd - 1) : <<at, h>> \in tried

Letters(e) == {k \in DOMAIN dlq : dlq[k] = e}

\* Every dead letter has its own _dlq_max_retries failures, and the failures
\* that are still counted come on top of them.
CountInv ==
  \A e \in Events : failed[e] >= MaxRetries * Cardinality(Letters(e)) + counts[e]

\* What a replay has handed to its producer.
Sent == resent \cup outbox \cup lost

\* A replay that has not failed has sent everything behind its message.
ReplayInv ==
  /\ 1..replayed \subseteq Sent
  /\ outbox \subseteq 1..Len(dlq)
  /\ rat # 0 => replayed < rat /\ rat <= rend + 1
  /\ rat # 0 /\ ~rfailed => (replayed + 1)..(rat - 1) \subseteq Sent

BusInv == BusTypes /\ LoopInv /\ TriedInv /\ CountInv /\ ReplayInv

-----------------------------------------------------------------------------
\* Before the first event.
LEMMA BusInit == Init => BusInv
<1> SUFFICES ASSUME Init PROVE BusInv
  OBVIOUS
<1> USE BusAssumption
<1>1. BusTypes
  <2>1. /\ topic \in Seq(Events) /\ dlq \in Seq(Events)
        /\ Len(topic) = 0 /\ Len(dlq) = 0
    BY DEF Init
  <2>2. /\ position \in 0..Len(topic) /\ committed \in -1..position /\ origin \in Nat
        /\ at \in Nat /\ last \in Nat /\ hnd \in 1..(Handlers + 1)
        /\ counts \in [Events -> 0..(MaxRetries - 1)] /\ failed \in [Events -> Nat]
        /\ replayed \in 0..Len(dlq) /\ rat \in Nat /\ rend \in 0..Len(dlq)
        /\ faults \in Nat
    BY <2>1 DEF Init
  <2>3. pc \in {"poll", "handle", "settle", "commit"}
    BY DEF Init
  <2> QED
    BY <2>1, <2>2, <2>3 DEF BusTypes
<1>2. LoopInv /\ TriedInv /\ ReplayInv
  BY DEF Init, LoopInv, TriedInv, Tried, ReplayInv, Sent
<1>3. CountInv
  <2> SUFFICES ASSUME NEW e \in Events
               PROVE  failed[e] >= MaxRetries * Cardinality(Letters(e)) + counts[e]
    BY DEF CountInv
  <2>1. Letters(e) = {}
    BY DEF Init, Letters
  <2>2. Cardinality(Letters(e)) = 0
    BY <2>1, FS_EmptySet
  <2> QED
    BY <2>2 DEF Init
<1> QED
  BY <1>1, <1>2, <1>3 DEF BusInv

\* The message that is being handled is one of the topic.
LEMMA AtMessage ==
  ASSUME BusTypes, LoopInv, pc \in {"handle", "settle"}
  PROVE  at \in 1..Len(topic) /\ topic[at] \in Events
<1>1. at \in 1..last /\ last = position
  BY DEF LoopInv
<1>2. position \in 0..Len(topic) /\ Len(topic) \in Nat /\ topic \in Seq(Events)
  BY DEF BusTypes
<1>3. at \in 1..Len(topic)
  BY <1>1, <1>2
<1> QED
  BY <1>2, <1>3, ElementOfSeq

\* The next message of the batch, or the commit, once this one was tried.
LEMMA NextMessageTried ==
  ASSUME BusTypes, LoopInv, pc \in {"handle", "settle"}, NextMessage, Tried(at),
         Tried(committed),
         UNCHANGED <<topic, position, committed, origin, last, tried>>
  PROVE  LoopInv' /\ TriedInv'
<1> USE BusAssumption DEF BusTypes
<1>1. /\ at' = at + 1 /\ hnd' = 1
      /\ pc' = IF at < last THEN "handle" ELSE "commit"
      /\ last = position /\ at \in 1..last
  BY DEF NextMessage, LoopInv
<1>2. LoopInv'
  BY <1>1 DEF LoopInv
<1>3. ASSUME NEW n \in Int PROVE Tried(n)' <=> Tried(n)
  BY DEF Tried
<1>4. CASE at < last
  <2>1. pc' = "handle" /\ at' - 1 = at /\ hnd' - 1 = 0
    BY <1>1, <1>4
  <2>2. Tried(at - 1)' /\ Tried(committed)'
    BY <2>1, <1>1 DEF Tried
  <2> QED
    BY <1>2, <2>1, <2>2 DEF TriedInv
<1>5. CASE ~(at < last)
  <2>1. pc' = "commit" /\ position' = at
    BY <1>1, <1>5
  <2>2. Tried(position)' /\ Tried(committed)'
    BY <2>1, <1>1 DEF Tried
  <2> QED
    BY <1>2, <2>1, <2>2 DEF TriedInv
<1> QED
  BY <1>4, <1>5

\* A longer topic leaves what was tried alone.
LEMMA AppendTried ==
  ASSUME BusTypes, LoopInv, TriedInv, NEW e \in Events, topic' = Append(topic, e),
         UNCHANGED <<position, committed, origin, pc, at, last, hnd, tried>>
  PROVE  LoopInv' /\ TriedInv'
<1> USE DEF BusTypes
<1>1. \A o \in 1..Len(topic) : topic'[o] = topic[o]
  OBVIOUS
<1>2. LoopInv'
  BY DEF LoopInv
<1>3. Tried(committed)' /\ (Tried(position) => Tried(position)')
  <2>0. origin \in Nat /\ position \in 0..Len(topic) /\ committed \in -1..position
    OBVIOUS
  <2>1. \A o \in (origin + 1)..position : topic'[o] = topic[o]
    BY ONLY <1>1, <2>0, LenProperties
  <2>2. \A o \in (origin + 1)..committed : topic'[o] = topic[o]
    BY ONLY <1>1, <2>0, LenProperties
  <2>3. Tried(committed)
    BY DEF TriedInv
  <2> QED
    BY <2>1, <2>2, <2>3 DEF Tried
<1>4. CASE pc \in {"handle", "settle"}
  <2>1. at \in 1..Len(topic)
    BY <1>4 DEF LoopInv
  <2>2. Tried(at - 1)'
    BY <1>1, <1>4, <2>1 DEF Tried, TriedInv
  <2> QED
    BY <1>1, <1>2, <1>3, <1>4, <2>1, <2>2 DEF TriedInv
<1>5. CASE pc \in {"poll", "commit"}
  BY <1>2, <1>3, <1>5 DEF TriedInv
<1> QED
  BY <1>4, <1>5

\* A batch: the messages behind its first one were tried.
LEMMA FetchTried ==
  ASSUME BusTypes, TriedInv, pc = "poll", NEW to \in position..Len(topic),
         NEW then \in {"handle", "commit"}, Fetch(to, then),
         then = "handle" <=> position < to
  PROVE  LoopInv' /\ TriedInv'
<1> USE BusAssumption DEF BusTypes
<1>1. /\ at' = position + 1 /\ last' = to /\ position' = to /\ pc' = then /\ hnd' = 1
      /\ UNCHANGED <<topic, committed, origin, tried>>
  BY DEF Fetch, history
<1>2. LoopInv'
  BY <1>1 DEF LoopInv
<1>3. Tried(position) /\ Tried(committed)
  BY DEF TriedInv
<1>4. Tried(committed)' /\ Tried(at - 1)'
  <2>1. at' - 1 = position
    BY <1>1
  <2> QED
    BY <1>1, <1>3, <2>1 DEF Tried
<1>5. then = "commit" => Tried(position)'
  <2>1. then = "commit" => position' = position
    BY <1>1
  <2> QED
    BY <1>1, <1>3, <2>1 DEF Tried
<1> QED
  BY <1>1, <1>2, <1>4, <1>5 DEF TriedInv

\* The group goes on from an offset behind which everything was tried.
LEMMA ResumeTried ==
  ASSUME BusTypes, TriedInv, Resume, pc' = "poll", UNCHANGED <<topic, committed, tried>>
  PROVE  LoopInv' /\ TriedInv'
<1> USE DEF BusTypes
<1>1. CASE committed = -1
  BY <1>1 DEF Resume, LoopInv, TriedInv, Tried
<1>2. CASE committed # -1
  BY <1>2 DEF Resume, LoopInv, TriedInv, Tried
<1> QED
  BY <1>1, <1>2

\* Every step keeps the types.
LEMMA BusTypesStep == BusInv /\ [Next]_vars => BusTypes'
<1> SUFFICES ASSUME BusInv, [Next]_vars PROVE BusTypes'
  OBVIOUS
<1> USE BusAssumption DEF BusInv, BusTypes, loop, replay, history, Fault
<1>1. ASSUME NEW e \in Events, Publish(e) PROVE BusTypes'
  BY <1>1 DEF Publish
<1>2. CASE Poll
  <2>1. Least(position + BatchSize, Len(topic)) \in 0..Len(topic)
    BY DEF Least
  <2>2. PICK to \in 0..Len(topic), then \in {"handle", "commit"} : Fetch(to, then) /\ position <= to
    BY <1>2, <2>1 DEF Poll, Least
  <2> QED
    BY <2>2 DEF Fetch
<1>3. CASE SkipPoison
  BY <1>3 DEF SkipPoison, NextMessage
<1>4. CASE SettleOk
  <2>1. at \in 1..Len(topic) /\ topic[at] \in Events
    BY <1>4, AtMessage DEF SettleOk
  <2> QED
    BY <1>4, <2>1 DEF SettleOk, NextMessage
<1>5. CASE SettleRetry
  <2>1. at \in 1..Len(topic) /\ topic[at] \in Events
    BY <1>5, AtMessage DEF SettleRetry
  <2>2. counts' \in [Events -> 0..(MaxRetries - 1)] /\ failed' \in [Events -> Nat]
    <3>1. counts[topic[at]] \in 0..(MaxRetries - 1) /\ ~(counts[topic[at]] + 1 >= MaxRetries)
      BY <1>5, <2>1 DEF SettleRetry, Exhausted
    <3>2. counts[topic[at]] + 1 \in 0..(MaxRetries - 1) /\ failed[topic[at]] + 1 \in Nat
      <4>1. \A m \in Nat : \A n \in 0..(m - 1) : ~(n + 1 >= m) => n + 1 \in 0..(m - 1)
        OBVIOUS
      <4>2. MaxRetries \in Nat /\ failed[topic[at]] \in Nat
        BY <2>1
      <4> QED
        BY ONLY <3>1, <4>1, <4>2
    <3>3. /\ counts' = [counts EXCEPT ![topic[at]] = counts[topic[at]] + 1]
          /\ failed' = [failed EXCEPT ![topic[at]] = failed[topic[at]] + 1]
      BY <1>5 DEF SettleRetry
    <3> QED
      BY <3>2, <3>3
  <2>3. /\ at' = at + 1 /\ hnd' = 1 /\ pc' \in {"handle", "commit"}
        /\ UNCHANGED <<topic, dlq, position, committed, origin, last, replayed, rat, rend, faults>>
    BY <1>5 DEF SettleRetry, NextMessage
  <2> QED
    BY <2>2, <2>3
<1>6. ASSUME NEW sent \in BOOLEAN, SettleDlq(sent) PROVE BusTypes'
  <2>0. pc = "settle"
    BY <1>6 DEF SettleDlq
  <2>1. at \in 1..Len(topic) /\ topic[at] \in Events
    BY <2>0, AtMessage
  <2>2. counts' \in [Events -> 0..(MaxRetries - 1)] /\ failed' \in [Events -> Nat]
    <3>1. /\ counts' = [counts EXCEPT ![topic[at]] = 0]
          /\ failed' = [failed EXCEPT ![topic[at]] = failed[topic[at]] + 1]
      BY <1>6 DEF SettleDlq, CountDropped
    <3>2. 0 \in 0..(MaxRetries - 1)
      BY ONLY BusAssumption
    <3>3. failed[topic[at]] \in Nat
      BY <2>1
    <3>4. failed[topic[at]] + 1 \in Nat
      BY ONLY <3>3
    <3> QED
      BY <3>1, <3>2, <3>4
  <2>3. dlq' \in Seq(Events) /\ Len(dlq) <= Len(dlq')
    BY <1>6, <2>1 DEF SettleDlq
  <2>4. faults' \in Nat
    BY <1>6 DEF SettleDlq
  <2>5. /\ at' = at + 1 /\ hnd' = 1 /\ pc' \in {"handle", "commit"}
        /\ UNCHANGED <<topic, position, committed, origin, last, replayed, rat, rend>>
    BY <1>6 DEF SettleDlq, NextMessage
  <2> QED
    BY <2>2, <2>3, <2>4, <2>5
<1>7. CASE Commit
  BY <1>7 DEF Commit
<1>8. ASSUME NEW ok \in BOOLEAN, CallHandler(ok) PROVE BusTypes'
  <2>1. hnd' \in 1..(Handlers + 1) /\ pc' \in {"handle", "settle"}
    BY <1>8 DEF CallHandler, AfterHandler, LoopInv
  <2> QED
    BY <1>8, <2>1 DEF CallHandler
<1>9. CASE CommitFails
  BY <1>9 DEF CommitFails
<1>10. CASE Rebalance
  <2>1. /\ position' \in 0..Len(topic) /\ committed \in -1..position'
        /\ origin' \in Nat /\ last' \in Nat /\ faults' \in Nat
    BY <1>10 DEF Rebalance, Resume
  <2>2. UNCHANGED <<topic, dlq, committed, pc, at, hnd, counts, failed, replayed, rat, rend>>
    BY <1>10 DEF Rebalance
  <2> QED
    BY <2>1, <2>2
<1>11. CASE Crash
  <2>1. /\ position' \in 0..Len(topic) /\ committed \in -1..position'
        /\ origin' \in Nat /\ last' \in Nat /\ faults' \in Nat
    BY <1>11 DEF Crash, Resume
  <2>2. /\ pc' = "poll" /\ at' = 0 /\ hnd' = 1 /\ rat' = 0 /\ rend' = 0
        /\ counts' = [e \in Events |-> 0]
        /\ UNCHANGED <<topic, dlq, committed, failed, replayed>>
    BY <1>11 DEF Crash
  <2> QED
    BY <2>1, <2>2
<1>12. CASE ReplayStart
  BY <1>12 DEF ReplayStart
<1>13. CASE ReplaySend
  BY <1>13 DEF ReplaySend
<1>14. CASE ReplaySendFails
  BY <1>14 DEF ReplaySendFails
<1>15. CASE ReplayEnd \/ ReplayCommitFails
  <2>1. /\ replayed' \in {rend, replayed} /\ rat' = 0 /\ rend' = 0 /\ faults' \in Nat
        /\ UNCHANGED <<topic, dlq, position, committed, origin, pc, at, last, hnd, counts, failed>>
    BY <1>15 DEF ReplayEnd, ReplayCommitFails, EndReplay
  <2>2. replayed' \in 0..Len(dlq) /\ rend' \in 0..Len(dlq) /\ rat' \in Nat
    <3>1. rend \in 0..Len(dlq) /\ replayed \in 0..Len(dlq) /\ 0 \in 0..Len(dlq)
      BY LenProperties
    <3> QED
      BY ONLY <2>1, <3>1
  <2> QED
    BY <2>1, <2>2
<1>16. ASSUME NEW k \in outbox, Deliver(k) PROVE BusTypes'
  <2>1. dlq[k] \in Events
    BY DEF ReplayInv
  <2>2. topic' \in Seq(Events) /\ Len(topic') = Len(topic) + 1
    BY <1>16, <2>1 DEF Deliver
  <2>3. UNCHANGED <<dlq, position, committed, origin, pc, at, last, hnd, counts, failed, replayed, rat, rend, faults>>
    BY <1>16 DEF Deliver
  <2> QED
    BY <2>2, <2>3
<1>17. ASSUME NEW k \in outbox, DeliverFails(k) PROVE BusTypes'
  BY <1>17 DEF DeliverFails
<1>18. CASE UNCHANGED vars
  BY <1>18 DEF vars
<1> QED
  BY <1>1, <1>2, <1>3, <1>4, <1>5, <1>6, <1>7, <1>8, <1>9, <1>10, <1>11, <1>12, <1>13,
     <1>14, <1>15, <1>16, <1>17, <1>18 DEF Next, Consume

\* Every step keeps the account of what was tried.
LEMMA TriedStep == BusInv /\ [Next]_vars => LoopInv' /\ TriedInv'
<1> SUFFICES ASSUME BusInv, [Next]_vars PROVE LoopInv' /\ TriedInv'
  OBVIOUS
<1> USE BusAssumption DEF BusInv
<1>1. ASSUME NEW e \in Events, Publish(e) PROVE LoopInv' /\ TriedInv'
  BY <1>1, AppendTried DEF Publish, loop, history
<1>2. CASE Poll
  <2>1. CASE position < Len(topic)
    <3>1. /\ Least(position + BatchSize, Len(topic)) \in position..Len(topic)
          /\ position < Least(position + BatchSize, Len(topic))
      BY <2>1 DEF Least, BusTypes
    <3> QED
      BY <1>2, <2>1, <3>1, FetchTried DEF Poll
  <2>2. CASE ~(position < Len(topic))
    <3>1. position \in position..Len(topic) /\ ~(position < position)
      BY DEF BusTypes
    <3> QED
      BY <1>2, <2>2, <3>1, FetchTried DEF Poll
  <2> QED
    BY <2>1, <2>2
<1>3. CASE SkipPoison
  <2>1. Tried(at - 1) /\ topic[at] \in Poison /\ at \in Nat /\ origin \in Nat
    BY <1>3 DEF SkipPoison, TriedInv, BusTypes
  <2>2. Tried(at)
    BY <2>1 DEF Tried
  <2> QED
    BY <1>3, <2>2, NextMessageTried DEF SkipPoison, TriedInv, history
<1>4. ASSUME pc = "settle" PROVE Tried(at)
  <2>1. /\ Tried(at - 1) /\ at \in Nat /\ origin \in Nat
        /\ topic[at] \notin Poison => \A h \in 1..Handlers : <<at, h>> \in tried
    BY <1>4 DEF TriedInv, LoopInv, BusTypes
  <2> QED
    BY <2>1 DEF Tried
<1>5. CASE SettleOk
  BY <1>4, <1>5, NextMessageTried DEF SettleOk, TriedInv, history
<1>6. CASE SettleRetry
  BY <1>4, <1>6, NextMessageTried DEF SettleRetry, TriedInv
<1>7. ASSUME NEW sent \in BOOLEAN, SettleDlq(sent) PROVE LoopInv' /\ TriedInv'
  BY <1>4, <1>7, NextMessageTried DEF SettleDlq, TriedInv
<1>8. CASE Commit
  BY <1>8 DEF Commit, LoopInv, TriedInv, Tried, history, BusTypes
<1>9. ASSUME NEW ok \in BOOLEAN, CallHandler(ok) PROVE LoopInv' /\ TriedInv'
  <2>1. /\ pc = "handle" /\ hnd \in 1..Handlers /\ hnd' = hnd + 1
        /\ tried' = tried \cup {<<at, hnd>>}
        /\ pc' = IF hnd < Handlers THEN "handle" ELSE "settle"
        /\ UNCHANGED <<topic, position, committed, origin, at, last>>
    BY <1>9 DEF CallHandler, AfterHandler, LoopInv
  <2>2. LoopInv'
    BY <2>1 DEF LoopInv, BusTypes
  <2>3. Tried(committed)' /\ Tried(at - 1)'
    BY <2>1 DEF TriedInv, Tried
  <2>4. topic[at] \notin Poison => \A h \in 1..(hnd' - 1) : <<at, h>> \in tried'
    BY <2>1 DEF TriedInv, BusTypes
  <2> QED
    BY <2>1, <2>2, <2>3, <2>4 DEF TriedInv
<1>10. CASE CommitFails
  BY <1>10 DEF CommitFails, LoopInv, TriedInv, Tried, history
<1>11. CASE Rebalance
  BY <1>11, ResumeTried DEF Rebalance, history
<1>12. CASE Crash
  BY <1>12, ResumeTried DEF Crash, history
<1>13. ASSUME NEW k \in outbox, Deliver(k) PROVE LoopInv' /\ TriedInv'
  <2>1. dlq[k] \in Events
    BY DEF ReplayInv, BusTypes
  <2> QED
    BY <1>13, <2>1, AppendTried DEF Deliver, loop
<1>14. CASE UNCHANGED <<topic, loop, tried>>
  BY <1>14 DEF LoopInv, TriedInv, Tried, loop
<1> QED
  BY <1>1, <1>2, <1>3, <1>5, <1>6, <1>7, <1>8, <1>9, <1>10, <1>11, <1>12, <1>13, <1>14
     DEF Next, Consume, ReplayStart, ReplaySend, ReplaySendFails, DeliverFails, ReplayEnd,
         ReplayCommitFails, EndReplay, vars, history

\* One more dead letter of an event.
LEMMA LettersAppend ==
  ASSUME dlq \in Seq(Events), NEW e \in Events, dlq' = Append(dlq, e), NEW f \in Events
  PROVE  /\ Cardinality(Letters(f)) \in Nat
         /\ Cardinality(Letters(f))' = Cardinality(Letters(f)) + (IF f = e THEN 1 ELSE 0)
<1>1. IsFiniteSet(Letters(f))
  <2>1. IsFiniteSet(1..Len(dlq))
    BY FS_Interval
  <2>2. Letters(f) \in SUBSET (1..Len(dlq))
    BY DEF Letters
  <2> QED
    BY <2>1, <2>2, FS_Subset
<1>2. Cardinality(Letters(f)) \in Nat
  BY <1>1, FS_CardinalityType
<1>3. CASE f = e
  <2>1. Letters(f)' = Letters(f) \cup {Len(dlq) + 1} /\ Len(dlq) + 1 \notin Letters(f)
    BY <1>3 DEF Letters
  <2> QED
    BY <1>1, <1>2, <1>3, <2>1, FS_AddElement
<1>4. CASE f # e
  <2>1. Letters(f)' = Letters(f)
    BY <1>4 DEF Letters
  <2> QED
    BY <1>2, <1>4, <2>1
<1> QED
  BY <1>3, <1>4

\* The number of dead letters of an event is a number.
LEMMA LettersType ==
  ASSUME dlq \in Seq(Events), NEW e \in Events
  PROVE  Cardinality(Letters(e)) \in Nat /\ MaxRetries * Cardinality(Letters(e)) \in Nat
<1>1. IsFiniteSet(1..Len(dlq))
  BY FS_Interval
<1>2. Letters(e) \in SUBSET (1..Len(dlq))
  BY DEF Letters
<1>3. Cardinality(Letters(e)) \in Nat
  BY <1>1, <1>2, FS_Subset, FS_CardinalityType
<1> QED
  BY <1>3, BusAssumption

\* Every step keeps the account of failures.
LEMMA CountStep == BusInv /\ [Next]_vars => CountInv'
<1> SUFFICES ASSUME BusInv, [Next]_vars PROVE CountInv'
  OBVIOUS
<1> USE BusAssumption DEF BusInv
<1>1. CASE UNCHANGED <<dlq, counts, failed>>
  BY <1>1 DEF CountInv, Letters
<1>2. ASSUME UNCHANGED <<dlq, failed>>,
             \A e \in Events : counts'[e] <= counts[e] /\ counts'[e] \in Nat
      PROVE  CountInv'
  <2> SUFFICES ASSUME NEW e \in Events
               PROVE  failed'[e] >= MaxRetries * Cardinality(Letters(e))' + counts'[e]
    BY DEF CountInv
  <2>1. Letters(e)' = Letters(e)
    BY <1>2 DEF Letters
  <2>2. Cardinality(Letters(e))' = Cardinality(Letters(e))
    BY <2>1
  <2>3. failed[e] >= MaxRetries * Cardinality(Letters(e)) + counts[e]
    BY DEF CountInv
  <2>4. MaxRetries * Cardinality(Letters(e)) \in Nat /\ failed[e] \in Nat /\ counts[e] \in Nat
    BY LettersType DEF BusTypes
  <2>5. counts'[e] <= counts[e] /\ counts'[e] \in Nat /\ failed'[e] = failed[e]
    BY <1>2
  <2> QED
    BY <2>2, <2>3, <2>4, <2>5
<1>3. CASE SettleOk
  <2>1. at \in 1..Len(topic) /\ topic[at] \in Events
    BY <1>3, AtMessage DEF SettleOk
  <2>2. UNCHANGED <<dlq, failed>>
    BY <1>3 DEF SettleOk, history
  <2>3. \A e \in Events : counts'[e] <= counts[e] /\ counts'[e] \in Nat
    BY <1>3, <2>1 DEF SettleOk, BusTypes
  <2> QED
    BY <1>2, <2>2, <2>3
<1>4. CASE SettleRetry
  <2> SUFFICES ASSUME NEW e \in Events
               PROVE  failed'[e] >= MaxRetries * Cardinality(Letters(e))' + counts'[e]
    BY DEF CountInv
  <2>1. topic[at] \in Events
    BY <1>4, AtMessage DEF SettleRetry
  <2>2. Letters(e)' = Letters(e)
    BY <1>4 DEF SettleRetry, Letters
  <2>3. Cardinality(Letters(e))' = Cardinality(Letters(e))
    BY <2>2
  <2>4. failed[e] >= MaxRetries * Cardinality(Letters(e)) + counts[e]
    BY DEF CountInv
  <2>5. MaxRetries * Cardinality(Letters(e)) \in Nat /\ failed[e] \in Nat /\ counts[e] \in Nat
    BY LettersType DEF BusTypes
  <2>6. \/ failed'[e] = failed[e] + 1 /\ counts'[e] = counts[e] + 1
        \/ failed'[e] = failed[e] /\ counts'[e] = counts[e]
    BY <1>4, <2>1 DEF SettleRetry, BusTypes
  <2> QED
    BY <2>3, <2>4, <2>5, <2>6
<1>5. ASSUME NEW sent \in BOOLEAN, SettleDlq(sent) PROVE CountInv'
  <2> SUFFICES ASSUME NEW e \in Events
               PROVE  failed'[e] >= MaxRetries * Cardinality(Letters(e))' + counts'[e]
    BY DEF CountInv
  <2>1. topic[at] \in Events
    BY <1>5, AtMessage DEF SettleDlq
  <2>2. failed[e] >= MaxRetries * Cardinality(Letters(e)) + counts[e]
    BY DEF CountInv
  <2>3. /\ MaxRetries * Cardinality(Letters(e)) \in Nat /\ Cardinality(Letters(e)) \in Nat
        /\ failed[e] \in Nat /\ counts[e] \in 0..(MaxRetries - 1)
    BY LettersType DEF BusTypes
  <2>4. MaxRetries * (Cardinality(Letters(e)) + 1) = MaxRetries * Cardinality(Letters(e)) + MaxRetries
    BY <2>3
  <2>5. CASE e = topic[at]
    <3>1. counts[e] = MaxRetries - 1 /\ failed'[e] = failed[e] + 1 /\ counts'[e] = 0
      <4>1. Exhausted(e) /\ counts' = CountDropped(e)
        BY <1>5, <2>5 DEF SettleDlq
      <4>2. failed' = [failed EXCEPT ![e] = @ + 1]
        BY <1>5, <2>5 DEF SettleDlq
      <4>3. counts[e] + 1 >= MaxRetries
        BY <4>1 DEF Exhausted
      <4>4. counts[e] = MaxRetries - 1
        BY <4>3, <2>3
      <4>5. failed'[e] = failed[e] + 1 /\ counts'[e] = 0
        BY <4>1, <4>2 DEF CountDropped, BusTypes
      <4> QED
        BY <4>4, <4>5
    <3>2. \/ Cardinality(Letters(e))' = Cardinality(Letters(e)) + 1
          \/ Cardinality(Letters(e))' = Cardinality(Letters(e))
      <4>1. CASE sent
        BY <1>5, <2>1, <2>5, <4>1, LettersAppend DEF SettleDlq, BusTypes
      <4>2. CASE ~sent
        <5>1. Letters(e)' = Letters(e)
          BY <1>5, <4>2 DEF SettleDlq, Letters
        <5> QED
          BY <5>1
      <4> QED
        BY <4>1, <4>2
    <3> QED
      BY <2>2, <2>3, <2>4, <3>1, <3>2
  <2>6. CASE e # topic[at]
    <3>1. failed'[e] = failed[e] /\ counts'[e] = counts[e]
      BY <1>5, <2>1, <2>6 DEF SettleDlq, CountDropped, BusTypes
    <3>2. Cardinality(Letters(e))' = Cardinality(Letters(e))
      <4>1. CASE sent
        <5>1. dlq' = Append(dlq, topic[at]) /\ dlq \in Seq(Events)
          BY <1>5, <4>1 DEF SettleDlq, BusTypes
        <5>2. Cardinality(Letters(e))' = Cardinality(Letters(e)) + 0
          BY <2>1, <2>6, <5>1, LettersAppend
        <5> QED
          BY <2>3, <5>2
      <4>2. CASE ~sent
        <5>1. Letters(e)' = Letters(e)
          BY <1>5, <4>2 DEF SettleDlq, Letters
        <5> QED
          BY <5>1
      <4> QED
        BY <4>1, <4>2
    <3> QED
      BY <2>2, <3>1, <3>2
  <2> QED
    BY <2>5, <2>6
<1>6. CASE Crash
  <2>1. UNCHANGED <<dlq, failed>>
    BY <1>6 DEF Crash, history
  <2>2. \A e \in Events : counts'[e] <= counts[e] /\ counts'[e] \in Nat
    BY <1>6 DEF Crash, BusTypes
  <2> QED
    BY <1>2, <2>1, <2>2
<1> QED
  BY <1>1, <1>3, <1>4, <1>5, <1>6
     DEF Next, Consume, Publish, Poll, Fetch, SkipPoison, Commit, CallHandler, CommitFails,
         Rebalance, ReplayStart, ReplaySend, ReplaySendFails, Deliver, DeliverFails, ReplayEnd,
         ReplayCommitFails, EndReplay, vars, loop, history

\* Every step keeps the account of what was sent again.
LEMMA ReplayStep == BusInv /\ [Next]_vars => ReplayInv'
<1> SUFFICES ASSUME BusInv, [Next]_vars PROVE ReplayInv'
  OBVIOUS
<1> USE DEF BusInv, BusTypes, ReplayInv, Sent
<1>1. CASE UNCHANGED <<dlq, replayed, rat, rend, rfailed, outbox, resent, lost>>
  BY <1>1
<1>2. ASSUME NEW sent \in BOOLEAN, SettleDlq(sent) PROVE ReplayInv'
  <2>1. at \in 1..Len(topic) /\ topic[at] \in Events
    BY <1>2, AtMessage DEF SettleDlq
  <2>2. Len(dlq) <= Len(dlq') /\ Len(dlq) \in Nat /\ Len(dlq') \in Nat
    <3>1. dlq' = dlq \/ dlq' = Append(dlq, topic[at])
      BY <1>2 DEF SettleDlq
    <3>2. dlq \in Seq(Events)
      OBVIOUS
    <3> QED
      BY ONLY <2>1, <3>1, <3>2
  <2>3. UNCHANGED <<replayed, rat, rend, rfailed, outbox, resent, lost>>
    BY <1>2 DEF SettleDlq, replay
  <2> QED
    BY <2>2, <2>3
<1>3. CASE Crash
  BY <1>3 DEF Crash
<1>4. CASE ReplayStart
  BY <1>4 DEF ReplayStart, history
<1>5. CASE ReplaySend
  <2>1. /\ rat \in 1..rend /\ outbox' = outbox \cup {rat} /\ rat' = rat + 1
        /\ UNCHANGED <<dlq, replayed, rend, rfailed, resent, lost>>
    BY <1>5 DEF ReplaySend, history
  <2>2. rend \in 0..Len(dlq) /\ replayed \in Nat /\ Len(dlq) \in Nat
    BY LenProperties
  <2> HIDE DEF BusTypes
  <2> QED
    BY <2>1, <2>2
<1>6. CASE ReplaySendFails
  BY <1>6 DEF ReplaySendFails, history
<1>7. CASE ReplayEnd
  BY <1>7 DEF ReplayEnd, EndReplay, CommitReplay, history
<1>8. CASE ReplayCommitFails
  BY <1>8 DEF ReplayCommitFails, EndReplay, history
<1>9. ASSUME NEW k \in outbox, Deliver(k) \/ DeliverFails(k) PROVE ReplayInv'
  <2>1. /\ outbox' = outbox \ {k} /\ resent \subseteq resent' /\ lost \subseteq lost'
        /\ k \in resent' \cup lost'
        /\ UNCHANGED <<dlq, replayed, rat, rend, rfailed>>
    BY <1>9 DEF Deliver, DeliverFails
  <2>2. Sent \subseteq Sent'
    BY <2>1
  <2> HIDE DEF Sent
  <2> QED
    BY <2>1, <2>2
<1> QED
  BY <1>1, <1>2, <1>3, <1>4, <1>5, <1>6, <1>7, <1>8, <1>9
     DEF Next, Consume, Publish, Poll, Fetch, SkipPoison, SettleOk, SettleRetry,
         Commit, CallHandler, CommitFails, Rebalance, vars, replay, history

\* The invariant holds in every reachable state of the bus.
LEMMA BusInvariant == Spec => []BusInv
<1>1. BusInv /\ [Next]_vars => BusInv'
  BY BusTypesStep, TriedStep, CountStep, ReplayStep DEF BusInv
<1> QED
  BY <1>1, BusInit, PTL DEF Spec

\* Whatever crashes, rebalances, failed commits and failing handlers there are,
\* the consumer group never commits past a readable message that some handler
\* was not called with.
THEOREM CommitsAreTried == Spec => []CommittedWasTried
<1>1. BusInv => CommittedWasTried
  BY DEF BusInv, TriedInv, Tried, CommittedWasTried
<1> QED
  BY <1>1, BusInvariant, PTL

\* Every dead letter of an event stands for _dlq_max_retries failed deliveries
\* of its own, across restarts and replays.
THEOREM LettersWereRetried == Spec => []DlqAfterRetries
<1>1. BusInv => DlqAfterRetries
  <2> SUFFICES ASSUME BusInv, NEW e \in Events
               PROVE  failed[e] >= MaxRetries * Cardinality(Letters(e))
    BY DEF DlqAfterRetries, Letters
  <2>1. failed[e] >= MaxRetries * Cardinality(Letters(e)) + counts[e]
    BY DEF BusInv, CountInv
  <2>2. MaxRetries * Cardinality(Letters(e)) \in Nat /\ failed[e] \in Nat /\ counts[e] \in Nat
    BY LettersType, BusAssumption DEF BusInv, BusTypes
  <2> QED
    BY <2>1, <2>2
<1> QED
  BY <1>1, BusInvariant, PTL

\* DlqManager.replay takes no letter off the dead-letter topic that it has not
\* handed to its producer: such a letter is back in the source topic, still in
\* the producer's buffer, or its delivery failed after the send.
THEOREM ReplayIsSafe == Spec => []ReplayKeepsLetters
<1>1. BusInv => ReplayKeepsLetters
  BY DEF BusInv, ReplayInv, Sent, ReplayKeepsLetters
<1> QED
  BY <1>1, BusInvariant, PTL

-----------------------------------------------------------------------------
(***************************************************************************)
(* Idempotency keys                                                        *)
(***************************************************************************)

KeyTypes ==
  /\ stage \in [Requests -> {"new", "lock", "run", "store", "unlock", "done", "dead"}]
  /\ cache \in Nat /\ effects \in Nat /\ keyFaults \in Nat
  /\ lock \in BOOLEAN /\ overlap \in BOOLEAN
  /\ mine \in [Requests -> Nat]
  /\ reply \in [Requests -> Int]

\* Until something fails, the lock is set exactly while a request holds it.
LockInv ==
  keyFaults = 0 =>
    /\ \A r, s \in Requests : r \in Holding /\ s \in Holding => r = s
    /\ lock <=> \E r \in Requests : r \in Holding

\* No response is cached that could be replayed.
AllExpired == \A k \in 1..effects : k \in expired

\* Requests one after the other: where the only request in flight is says
\* whether the latest effect is cached or its response has expired.
SerialInv ==
  (~overlap /\ keyFaults = 0) =>
    /\ \A r, s \in Requests : r \in InFlight /\ s \in InFlight => r = s
    /\ \A r \in Requests : reply[r] \in 0..effects
    /\ \A k \in 1..(effects - 1) : k \in expired
    /\ cache = effects \/ cache = 0
    /\ \A r \in Requests : stage[r] \in {"lock", "run"} => cache = 0 /\ AllExpired
    /\ \A r \in Requests : stage[r] = "store" => cache = 0 /\ mine[r] = effects
    /\ \A r \in Requests : stage[r] = "unlock" => cache = effects \/ AllExpired
    /\ (\A r \in Requests : r \notin InFlight) => cache = effects \/ AllExpired

KeyInv == KeyTypes /\ LockInv /\ SerialInv

\* Before the first request the invariant holds.
LEMMA KeyStarts == KeyInit => KeyInv
<1> SUFFICES ASSUME KeyInit PROVE KeyInv
  OBVIOUS
<1>1. KeyTypes
  <2>1. /\ stage \in [Requests -> {"new", "lock", "run", "store", "unlock", "done", "dead"}]
        /\ cache \in Nat /\ effects \in Nat /\ keyFaults \in Nat
        /\ mine \in [Requests -> Nat]
        /\ reply \in [Requests -> Int]
    BY DEF KeyInit
  <2>2. lock \in BOOLEAN /\ overlap \in BOOLEAN
    BY Zenon DEF KeyInit
  <2> QED
    BY <2>1, <2>2, Zenon DEF KeyTypes
<1>2. \A r \in Requests : stage[r] = "new" /\ reply[r] = 0
  BY DEF KeyInit
<1>3. LockInv
  BY <1>2 DEF KeyInit, LockInv, Holding
<1>4. SerialInv
  BY <1>2 DEF KeyInit, SerialInv, InFlight, AllExpired
<1> QED
  BY <1>1, <1>3, <1>4 DEF KeyInv

\* Every step keeps the types.
LEMMA KeyTypesStep == KeyInv /\ [KeyNext]_keyVars => KeyTypes'
<1> SUFFICES ASSUME KeyInv, [KeyNext]_keyVars PROVE KeyTypes'
  OBVIOUS
<1> USE IdemAssumption DEF KeyInv, KeyTypes, Goto, Answer, KeyFault
<1>1. ASSUME NEW r \in Requests, Serve(r) PROVE KeyTypes'
  <2>1. CASE Get(r)      BY <2>1 DEF Get
  <2>2. CASE Acquire(r)  BY <2>2 DEF Acquire
  <2>3. CASE Conflict(r) BY <2>3 DEF Conflict
  <2>4. CASE Handle(r)   BY <2>4 DEF Handle
  <2>5. CASE Store(r)    BY <2>5 DEF Store, Stored
  <2>6. CASE Unlock(r)   BY <2>6 DEF Unlock
  <2> QED BY <1>1, <2>1, <2>2, <2>3, <2>4, <2>5, <2>6 DEF Serve
<1>2. ASSUME NEW r \in Requests, HandlerRaises(r) PROVE KeyTypes'
  <2>1. stage' \in [Requests -> {"new", "lock", "run", "store", "unlock", "done", "dead"}]
    BY <1>2 DEF HandlerRaises
  <2>2. effects' \in Nat /\ mine' \in [Requests -> Nat]
    BY <1>2 DEF HandlerRaises
  <2>3. UNCHANGED <<cache, lock, overlap>> /\ keyFaults' \in Nat /\ reply' \in [Requests -> Int]
    BY <1>2 DEF HandlerRaises
  <2> QED
    BY <2>1, <2>2, <2>3
<1>3. ASSUME NEW r \in Requests, RequestDies(r) PROVE KeyTypes'
  BY <1>3 DEF RequestDies
<1>4. CASE Expire
  BY <1>4 DEF Expire
<1>5. CASE ExpireInFlight
  <2>1. keyFaults' \in Nat
    BY <1>5 DEF ExpireInFlight
  <2>2. lock' \in BOOLEAN
    BY <1>5, Zenon DEF ExpireInFlight
  <2>3. UNCHANGED <<stage, cache, effects, mine, reply, overlap>>
    BY <1>5, Zenon DEF ExpireInFlight
  <2> QED
    BY <2>1, <2>2, <2>3
<1>6. ASSUME NEW r \in Requests, RedisFails(r) PROVE KeyTypes'
  <2>1. stage' \in [Requests -> {"new", "lock", "run", "store", "unlock", "done", "dead"}]
    BY <1>6 DEF RedisFails
  <2>2. cache' \in Nat /\ reply' \in [Requests -> Int] /\ keyFaults' \in Nat
    <3>1. /\ cache' = cache \/ cache' = mine[r]
          /\ reply' = reply \/ reply' = [reply EXCEPT ![r] = -2]
          /\ keyFaults' = keyFaults + 1
      BY <1>6, Zenon DEF RedisFails, Stored
    <3> QED
      BY <3>1
  <2>3. lock' \in BOOLEAN
    <3>1. (lock \/ stage[r] = "lock") \in BOOLEAN
      BY Zenon
    <3>2. lock' \in {lock, lock \/ stage[r] = "lock", FALSE}
      BY <1>6, Zenon DEF RedisFails
    <3> QED
      BY <3>1, <3>2, Zenon
  <2>4. UNCHANGED <<effects, mine, overlap>>
    BY <1>6 DEF RedisFails
  <2> QED
    BY <2>1, <2>2, <2>3, <2>4
<1>7. CASE CacheExpires
  BY <1>7 DEF CacheExpires
<1>8. CASE UNCHANGED keyVars
  BY <1>8 DEF keyVars
<1> QED
  BY <1>1, <1>2, <1>3, <1>4, <1>5, <1>6, <1>7, <1>8 DEF KeyNext

\* A fault ends what the invariants promise.
LEMMA KeyFaultStep ==
  ASSUME KeyInv, KeyFault
  PROVE  LockInv' /\ SerialInv'
BY DEF KeyInv, KeyTypes, KeyFault, LockInv, SerialInv

\* Every step keeps the lock with its holder.
LEMMA LockStep == KeyInv /\ [KeyNext]_keyVars => LockInv'
<1> SUFFICES ASSUME KeyInv, [KeyNext]_keyVars PROVE LockInv'
  OBVIOUS
<1> USE DEF KeyInv, KeyTypes, LockInv, Holding, Goto
<1>1. ASSUME NEW r \in Requests, Serve(r) PROVE LockInv'
  <2>1. CASE Get(r)      BY <2>1 DEF Get
  <2>2. CASE Acquire(r)  BY <2>2 DEF Acquire, LockFree
  <2>3. CASE Conflict(r) BY <2>3 DEF Conflict
  <2>4. CASE Handle(r)   BY <2>4 DEF Handle
  <2>5. CASE Store(r)    BY <2>5 DEF Store
  <2>6. CASE Unlock(r)   BY <2>6 DEF Unlock
  <2> QED BY <1>1, <2>1, <2>2, <2>3, <2>4, <2>5, <2>6 DEF Serve
<1>2. ASSUME NEW r \in Requests, HandlerRaises(r) PROVE LockInv'
  BY <1>2, KeyFaultStep DEF HandlerRaises
<1>3. ASSUME NEW r \in Requests, RequestDies(r) PROVE LockInv'
  BY <1>3, KeyFaultStep DEF RequestDies
<1>4. CASE Expire
  BY <1>4 DEF Expire
<1>5. CASE ExpireInFlight
  BY <1>5, KeyFaultStep DEF ExpireInFlight
<1>6. ASSUME NEW r \in Requests, RedisFails(r) PROVE LockInv'
  BY <1>6, KeyFaultStep DEF RedisFails
<1>7. CASE CacheExpires
  BY <1>7 DEF CacheExpires
<1>8. CASE UNCHANGED keyVars
  BY <1>8 DEF keyVars
<1> QED
  BY <1>1, <1>2, <1>3, <1>4, <1>5, <1>6, <1>7, <1>8 DEF KeyNext

\* Every step keeps the account of effects and cached answers.
LEMMA SerialStep == KeyInv /\ [KeyNext]_keyVars => SerialInv'
<1> SUFFICES ASSUME KeyInv, [KeyNext]_keyVars PROVE SerialInv'
  OBVIOUS
<1> USE DEF KeyInv, KeyTypes, SerialInv, AllExpired, InFlight, Goto, Answer
<1>1. ASSUME NEW r \in Requests, Serve(r) PROVE SerialInv'
  <2>1. CASE Get(r)
    <3> SUFFICES ASSUME ~overlap', keyFaults' = 0 PROVE SerialInv'
      BY DEF SerialInv
    <3>1. ~overlap /\ keyFaults = 0 /\ \A s \in Requests : s \notin InFlight
      BY <2>1 DEF Get
    <3>2. CASE cache # 0
      BY <2>1, <3>1, <3>2, SMTT(30) DEF Get
    <3>3. CASE cache = 0
      BY <2>1, <3>1, <3>3, SMTT(30) DEF Get
    <3> QED
      BY <3>2, <3>3
  <2>2. CASE Acquire(r)  BY <2>2 DEF Acquire
  <2>3. CASE Conflict(r)
    <3>1. lock /\ stage[r] = "lock"
      BY <2>3 DEF Conflict, LockFree
    <3>2. keyFaults = 0 => \E s \in Requests : s \in Holding
      BY <3>1 DEF LockInv
    <3>3. keyFaults = 0 => overlap
      BY <3>1, <3>2 DEF Holding
    <3> QED
      BY <2>3, <3>3 DEF Conflict
  <2>4. CASE Handle(r)   BY <2>4 DEF Handle
  <2>5. CASE Store(r)    BY <2>5 DEF Store, Stored
  <2>6. CASE Unlock(r)   BY <2>6 DEF Unlock
  <2> QED BY <1>1, <2>1, <2>2, <2>3, <2>4, <2>5, <2>6 DEF Serve
<1>2. ASSUME NEW r \in Requests, HandlerRaises(r) PROVE SerialInv'
  BY <1>2, KeyFaultStep DEF HandlerRaises
<1>3. ASSUME NEW r \in Requests, RequestDies(r) PROVE SerialInv'
  BY <1>3, KeyFaultStep DEF RequestDies
<1>4. CASE Expire
  BY <1>4 DEF Expire
<1>5. CASE ExpireInFlight
  BY <1>5, KeyFaultStep DEF ExpireInFlight
<1>6. ASSUME NEW r \in Requests, RedisFails(r) PROVE SerialInv'
  BY <1>6, KeyFaultStep DEF RedisFails
<1>7. CASE CacheExpires
  <2>1. AllExpired'  \/ overlap \/ keyFaults # 0
    BY <1>7 DEF CacheExpires
  <2> QED
    BY <1>7, <2>1 DEF CacheExpires
<1>8. CASE UNCHANGED keyVars
  BY <1>8 DEF keyVars
<1> QED
  BY <1>1, <1>2, <1>3, <1>4, <1>5, <1>6, <1>7, <1>8 DEF KeyNext

\* The invariant of the key holds in every reachable state.
LEMMA KeyInvariant == KeySpec => []KeyInv
<1>1. KeyInv /\ [KeyNext]_keyVars => KeyInv'
  BY KeyTypesStep, LockStep, SerialStep DEF KeyInv
<1> QED
  BY KeyStarts, <1>1, PTL DEF KeySpec

\* Until something fails, one request with the key is in the handler at a time.
THEOREM OneRequestRuns == KeySpec => []OneInHandler
<1>1. KeyInv => OneInHandler
  BY DEF KeyInv, LockInv, OneInHandler, Holding
<1> QED
  BY KeyInvariant, <1>1, PTL

\* Retries that do not overlap run the handler again only when the response of
\* its run before has expired, and are answered from the cache until then.
THEOREM KeyIsRespected == KeySpec => []RetryIsReplayed
<1>1. KeyInv => RetryIsReplayed
  BY DEF KeyInv, KeyTypes, SerialInv, RetryIsReplayed
<1> QED
  BY KeyInvariant, <1>1, PTL

-----------------------------------------------------------------------------
(***************************************************************************)
(* The circuit breaker.  The inductive invariant adds to the checked       *)
(* invariants that _opened_at is the time of the last opening.             *)
(***************************************************************************)

BreakerInv ==
  /\ BreakerTypeOK
  /\ ClosedBelowThreshold
  /\ openedAt = trippedAt

\* The breaker starts CLOSED with an empty _failures list.
LEMMA BreakerStarts == BreakerInit => BreakerInv
<1> SUFFICES ASSUME BreakerInit PROVE BreakerInv
  OBVIOUS
<1>1. Cardinality({}) = 0
  BY FS_EmptySet
<1> QED
  BY <1>1, BreakerAssumption DEF BreakerInit, BreakerInv, BreakerTypeOK, ClosedBelowThreshold

\* Every critical section of the breaker preserves the inductive invariant.
LEMMA BreakerSteps == BreakerInv /\ [BreakerNext]_breakerVars => BreakerInv'
<1> SUFFICES ASSUME BreakerInv, [BreakerNext]_breakerVars PROVE BreakerInv'
  OBVIOUS
<1> USE BreakerAssumption DEF BreakerInv, BreakerTypeOK, ClosedBelowThreshold
<1>1. ASSUME NEW c \in Calls, Refuse(c) PROVE BreakerInv'
  BY <1>1 DEF Refuse, breakerVars
<1>2. ASSUME NEW c \in Calls, Admit(c) PROVE BreakerInv'
  BY <1>2 DEF Admit
<1>3. ASSUME NEW c \in Calls, OnSuccess(c) PROVE BreakerInv'
  <2>1. Cardinality({}) = 0
    BY FS_EmptySet
  <2>2. call' \in [Calls -> {"idle", "CLOSED", "HALF_OPEN"}]
    BY <1>3 DEF OnSuccess, Return
  <2>3. CASE state = "HALF_OPEN"
    BY <1>3, <2>1, <2>2, <2>3 DEF OnSuccess, Reset
  <2>4. CASE state # "HALF_OPEN"
    BY <1>3, <2>2, <2>4 DEF OnSuccess
  <2> QED
    BY <2>3, <2>4
<1>4. ASSUME NEW c \in Calls, OnFailure(c) PROVE BreakerInv'
  <2>1. CASE ProbeFailed
    BY <1>4, <2>1 DEF OnFailure, Return, ProbeFailed
  <2>2. CASE Count
    <3>1. BreakerTypeOK'
      <4>1. call' \in [Calls -> {"idle", "CLOSED", "HALF_OPEN"}]
        BY <1>4 DEF OnFailure, Return
      <4>2. failures' \subseteq 0..MaxTime
        BY <2>2 DEF Count, Recent
      <4>3. /\ state' \in {"CLOSED", "OPEN"}
            /\ openedAt' \in 0..MaxTime
            /\ trippedAt' \in 0..MaxTime
        BY <2>2 DEF Count
      <4>4. now' \in 0..MaxTime
        BY <1>4 DEF OnFailure
      <4> QED
        BY <4>1, <4>2, <4>3, <4>4
    <3>2. ClosedBelowThreshold'
      <4>1. IsFiniteSet(failures')
        <5>1. IsFiniteSet(0..MaxTime)
          BY FS_Interval
        <5>2. failures' \in SUBSET (0..MaxTime)
          BY <3>1
        <5> QED
          BY ONLY <5>1, <5>2, FS_Subset
      <4>2. Cardinality(failures') \in Nat
        BY <4>1, FS_CardinalityType
      <4> QED
        BY <4>2, <2>2 DEF Count
    <3> QED
      BY <3>1, <3>2, <2>2 DEF Count
  <2>3. CASE Ignore
    BY <1>4, <2>3 DEF OnFailure, Return, Ignore
  <2> QED
    BY <1>4, <2>1, <2>2, <2>3 DEF OnFailure
<1>5. ASSUME NEW c \in Calls, OnUntracked(c) PROVE BreakerInv'
  BY <1>5 DEF OnUntracked, Return
<1>6. CASE Tick
  BY <1>6 DEF Tick
<1>7. CASE UNCHANGED breakerVars
  BY <1>7 DEF breakerVars
<1> QED
  BY <1>1, <1>2, <1>3, <1>4, <1>5, <1>6, <1>7 DEF BreakerNext

\* A recovered breaker counts afresh: CLOSED always holds fewer failures than
\* the threshold, whatever calls are in flight.
THEOREM BreakerInvariant == BreakerSpec => [](BreakerTypeOK /\ ClosedBelowThreshold)
<1>1. BreakerInv => BreakerTypeOK /\ ClosedBelowThreshold
  BY DEF BreakerInv
<1> QED
  BY <1>1, BreakerStarts, BreakerSteps, PTL DEF BreakerSpec

\* No request passes an OPEN breaker before the recovery timeout has elapsed
\* since its last opening, the opening by a failed probe included.
THEOREM BreakerBackoff == BreakerSpec => BackoffRespected
<1>1. BreakerInv /\ [BreakerNext]_breakerVars =>
        [\A c \in Calls : state = "OPEN" /\ call[c] = "idle" /\ call'[c] # "idle"
           => now - trippedAt >= RecoveryTimeout]_breakerVars
  <2> SUFFICES ASSUME BreakerInv, BreakerNext, NEW c \in Calls,
                      state = "OPEN", call[c] = "idle", call'[c] # "idle"
               PROVE  now - trippedAt >= RecoveryTimeout
    OBVIOUS
  <2> USE DEF BreakerInv, BreakerTypeOK
  <2>1. PICK d \in Calls : \/ Admit(d)
                           \/ Return(d)
                           \/ UNCHANGED call
    BY DEF BreakerNext, Refuse, OnSuccess, OnFailure, OnUntracked, Tick, breakerVars
  <2>2. CASE Admit(d)
    BY <2>2 DEF Admit, Elapsed
  <2>3. CASE Return(d)
    BY <2>3 DEF Return
  <2> QED
    BY <2>1, <2>2, <2>3
<1> QED
  BY <1>1, BreakerStarts, BreakerSteps, PTL DEF BreakerSpec, BackoffRespected

\* A CLOSED breaker opens only on a full threshold of failures of one window.
THEOREM BreakerTrip == BreakerSpec => TripNeedsWindow
<1>1. BreakerInv /\ [BreakerNext]_breakerVars =>
        [state = "CLOSED" /\ state' = "OPEN" =>
           Cardinality({f \in failures' : f > now - WindowSeconds})
             >= FailureThreshold]_breakerVars
  <2> SUFFICES ASSUME BreakerInv, BreakerNext, state = "CLOSED", state' = "OPEN"
               PROVE  Cardinality({f \in failures' : f > now - WindowSeconds})
                        >= FailureThreshold
    OBVIOUS
  <2> USE BreakerAssumption DEF BreakerInv, BreakerTypeOK
  <2>1. Count
    BY DEF BreakerNext, Refuse, Admit, OnSuccess, OnFailure, OnUntracked, Tick, breakerVars,
           Reset, ProbeFailed, Ignore
  <2>2. {f \in failures' : f > now - WindowSeconds} = failures'
    BY <2>1 DEF Count, Recent
  <2> QED
    BY <2>1, <2>2 DEF Count
<1> QED
  BY <1>1, BreakerStarts, BreakerSteps, PTL DEF BreakerSpec, TripNeedsWindow
=============================================================================
