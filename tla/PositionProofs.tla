---------------------------- MODULE PositionProofs ----------------------------
(***************************************************************************)
(* The store of PositionStore implements the log of PositionLog, for any   *)
(* trades, number of attempts and number of restarts; and without          *)
(* overlapping transactions its read model is complete and a retried trade *)
(* is applied once.  The lots of PositionAggregate carry the position, its *)
(* P&L and their FIFO order through any number of trades and splits.       *)
(***************************************************************************)
EXTENDS PositionStore, PositionAggregate, SequenceTheorems, SumTheorems, TLAPS

Messages == Orders \cup Actions
Events == [trade : Trades, key : Keys]
Places == {"new", "load", "max", "commit", "publish", "done", "failed"}

\* What consumer c is ever sent.
Source(c) == IF c = "trades" THEN Orders \cup Actions \cup Direct ELSE Actions

\* What is logged at most once: fills, which one consumer is sent, and as long
\* as no two transactions were open together, actions.
Once == IF overlap THEN Orders ELSE Messages

Types ==
  /\ log \in Seq(Events)
  /\ pc \in [Workers -> Places]
  /\ base \in [Workers -> Seq(Events)]
  /\ topic \in [Consumers -> Seq(Trades)]
  /\ next \in [Consumers -> Nat]
  /\ offset \in [Consumers -> Nat]

\* A consumer that has opened a transaction has a message to apply.
QueueInv ==
  \A c \in Consumers :
    /\ offset[c] <= next[c]
    /\ next[c] <= Len(topic[c])
    /\ c \in Open => next[c] < Len(topic[c])
    /\ \A k \in 1..Len(topic[c]) : topic[c][k] \in Source(c)

\* A message is logged under its own id, which is what redelivery looks for.
KeyInv ==
  \A k \in 1..Len(log) : log[k].trade \in Messages => log[k].key = log[k].trade

\* The message of an open transaction is not in the log: no other transaction
\* is about it, and this one looked for its key.
FreshInv ==
  \A w \in Open : Job(w) \in Once =>
    \A k \in 1..Len(log) : log[k].trade # Job(w)

\* What a transaction loaded is a beginning of the log.
BaseInv ==
  \A w \in Workers :
    /\ Len(base[w]) <= Len(log)
    /\ base[w] = SubSeq(log, 1, Len(base[w]))

\* No two transactions are open together until it shows in overlap.
AloneInv == ~overlap => \A v, w \in Open : v = w

StoreInv == Types /\ QueueInv /\ KeyInv /\ FreshInv /\ AloneInv /\ BaseInv

-----------------------------------------------------------------------------
\* A beginning of a sequence stays one when the sequence grows.
LEMMA PrefixKept ==
  ASSUME NEW S, NEW s \in Seq(S), NEW e \in S, NEW n \in 0..Len(s)
  PROVE  SubSeq(Append(s, e), 1, n) = SubSeq(s, 1, n)
<1>1. CASE n = 0
  BY <1>1, SubSeqEmpty
<1>2. CASE n # 0
  <2>1. n \in 1..Len(s)
    BY <1>2
  <2>2. Append(s, e) = s \o <<e>> /\ <<e>> \in Seq(S)
    BY AppendIsConcat
  <2> QED
    BY <2>1, <2>2, SubSeqOfConcat1
<1> QED
  BY <1>1, <1>2

\* What a task applies is a trade, and a message has its own id as its key.
LEMMA JobIsTrade ==
  ASSUME Types, QueueInv, NEW w \in Workers,
         w \in Consumers => next[w] < Len(topic[w])
  PROVE  /\ Job(w) \in Trades /\ Key(w) \in Keys
         /\ w \in Consumers => Key(w) = Job(w) /\ Job(w) \in Source(w)
         /\ w \notin Consumers => Job(w) \in Direct
<1>1. CASE w \in Consumers
  <2>1. next[w] + 1 \in 1..Len(topic[w])
    BY <1>1, LenProperties DEF Types
  <2>2. topic[w][next[w] + 1] \in Source(w)
    BY <1>1, <2>1 DEF QueueInv
  <2>3. w \notin Direct
    BY <1>1, StoreAssumption DEF Consumers
  <2> QED
    BY <1>1, <2>2, <2>3 DEF Job, Key, Source, Trades, Keys
<1>2. CASE w \notin Consumers
  BY <1>2 DEF Workers, Job, Key, Trades, Keys
<1> QED
  BY <1>1, <1>2

\* No two tasks apply the same message, if it is one to be logged once.
LEMMA JobIsUnique ==
  ASSUME Types, QueueInv, AloneInv, NEW v \in Open, NEW w \in Open,
         Job(v) = Job(w), Job(w) \in Once
  PROVE  v = w
<1>a. CASE ~overlap
  BY <1>a DEF AloneInv
<1>b. Job(w) \in Orders \/ ~overlap
  BY DEF Once
<1> SUFFICES ASSUME Job(w) \in Orders PROVE v = w
  BY <1>a, <1>b
<1>1. v \in Workers /\ w \in Workers
  BY DEF Open
<1>2. /\ v \in Consumers => next[v] < Len(topic[v])
      /\ w \in Consumers => next[w] < Len(topic[w])
  BY DEF QueueInv
<1>3. Direct \cap Orders = {}
  BY StoreAssumption
<1>4. v \in Consumers /\ Job(v) \in Source(v)
  BY <1>1, <1>2, <1>3, JobIsTrade
<1>5. w \in Consumers /\ Job(w) \in Source(w)
  BY <1>1, <1>2, <1>3, JobIsTrade
<1> QED
  BY <1>4, <1>5, StoreAssumption DEF Consumers, Source

\* The empty store satisfies the invariant.
LEMMA InitStore == Init => StoreInv
<1> SUFFICES ASSUME Init PROVE StoreInv
  OBVIOUS
<1>1. <<>> \in Seq(Events) /\ <<>> \in Seq(Trades)
  BY EmptySeq
<1>2. Types
  BY <1>1 DEF Init, Types, Places
<1>3. Open = {}
  BY DEF Init, Open
<1>4. QueueInv
  BY <1>3 DEF Init, QueueInv
<1>5. KeyInv
  BY DEF Init, KeyInv
<1>6. FreshInv /\ AloneInv
  BY <1>3 DEF FreshInv, AloneInv
<1>7. BaseInv
  BY <1>1, SubSeqEmpty DEF Init, BaseInv
<1> QED
  BY <1>2, <1>4, <1>5, <1>6, <1>7 DEF StoreInv

-----------------------------------------------------------------------------
\* A session that opens or closes keeps what the log needs.
LEMMA CheckStep ==
  ASSUME StoreInv, NEW w \in Workers, Check(w)
  PROVE  StoreInv'
<1> USE DEF StoreInv
<1>1. /\ UNCHANGED <<log, topic, offset>>
      /\ pc[w] = "new"
      /\ w \in Consumers => next[w] < Len(topic[w])
  BY DEF Check
<1>2. <<>> \in Seq(Events)
  BY EmptySeq
<1>2a. (~overlap' => ~overlap /\ Open = {}) /\ Once' \subseteq Once
  BY DEF Check, Once, Messages
<1>3. CASE Duplicate(w)
  <2>1. Finish(w, "done")
    BY <1>3 DEF Check
  <2>2. /\ base' = [base EXCEPT ![w] = <<>>]
        /\ pc' = [pc EXCEPT ![w] = IF w \in Consumers THEN "new" ELSE "done"]
        /\ next' = IF w \in Consumers THEN [next EXCEPT ![w] = @ + 1] ELSE next
    BY <2>1 DEF Finish, Close, Goto
  <2>3. Types'
    BY <1>1, <1>2, <2>2 DEF Types, Places
  <2>4. Open' = Open
    BY <1>1, <2>2 DEF Open, Types
  <2>5. QueueInv'
    BY <1>1, <2>2, <2>4 DEF QueueInv, Types, Open
  <2>6. \A v \in Open : Job(v)' = Job(v)
    BY <1>1, <2>2 DEF Job, Open, Types
  <2>7. KeyInv' /\ FreshInv' /\ AloneInv'
    BY <1>1, <1>2a, <2>4, <2>6 DEF KeyInv, FreshInv, AloneInv
  <2>8. BaseInv'
    BY <1>1, <2>2, SubSeqEmpty, EmptySeq, LenProperties DEF BaseInv, Types
  <2> QED
    BY <2>3, <2>5, <2>7, <2>8
<1>4. CASE ~Duplicate(w)
  <2>1. pc' = [pc EXCEPT ![w] = "load"] /\ UNCHANGED <<next, base>>
    BY <1>4 DEF Check, Goto
  <2>2. Types'
    BY <1>1, <2>1 DEF Types, Places
  <2>3. Open' = Open \cup {w} /\ \A v \in Workers : Job(v)' = Job(v)
    BY <1>1, <2>1 DEF Open, Types, Job
  <2>4. QueueInv'
    BY <1>1, <2>1, <2>3 DEF QueueInv
  <2>5. ASSUME Job(w) \in Messages, NEW k \in 1..Len(log) PROVE log[k].trade # Job(w)
    <3>1. Key(w) = Job(w)
      BY <1>1, <2>5, JobIsTrade, StoreAssumption DEF Messages
    <3>2. Key(w) # "none"
      BY <2>5, <3>1, StoreAssumption DEF Messages
    <3>3. k \in DOMAIN log
      BY LenProperties DEF Types
    <3>4. log[k].key # Job(w)
      BY <1>4, <3>1, <3>2, <3>3 DEF Duplicate
    <3> QED
      BY <2>5, <3>4 DEF KeyInv
  <2>6. KeyInv'
    BY <1>1 DEF KeyInv
  <2>7. FreshInv'
    <3> SUFFICES ASSUME NEW v \in Open \cup {w}, Job(v) \in Once,
                        NEW k \in 1..Len(log)
                 PROVE  log[k].trade # Job(v)
      <4>1. \A v \in Open \cup {w} : Job(v)' = Job(v)
        BY <2>3 DEF Open
      <4> QED
        BY <1>1, <1>2a, <2>3, <4>1 DEF FreshInv
    <3>1. CASE v = w
      BY <2>5, <3>1 DEF Once, Messages
    <3>2. CASE v \in Open
      BY <3>2 DEF FreshInv
    <3> QED
      BY <3>1, <3>2
  <2>8. BaseInv'
    BY <1>1, <2>1 DEF BaseInv
  <2>9. AloneInv'
    BY <1>2a, <2>3 DEF AloneInv
  <2> QED
    BY <2>2, <2>4, <2>6, <2>7, <2>8, <2>9
<1> QED
  BY <1>3, <1>4

\* A commit adds one event, which no other open transaction is about.
LEMMA CommitStep ==
  ASSUME StoreInv, NEW w \in Workers, Commit(w)
  PROVE  StoreInv'
<1> USE DEF StoreInv
<1> DEFINE e == [trade |-> Job(w), key |-> Key(w)]
<1>1. /\ w \in Open
      /\ log' = Append(log, e)
      /\ base' = [base EXCEPT ![w] = <<>>]
      /\ pc' = [pc EXCEPT ![w] = IF w \in Consumers THEN "new" ELSE "publish"]
      /\ next' = IF w \in Consumers THEN [next EXCEPT ![w] = @ + 1] ELSE next
      /\ UNCHANGED <<topic, offset, overlap>>
  BY DEF Commit, Finish, Close, Goto, Open
<1>2. w \in Consumers => next[w] < Len(topic[w])
  BY <1>1 DEF QueueInv
<1>3. /\ e \in Events
      /\ Job(w) \in Messages => Key(w) = Job(w)
  BY <1>2, JobIsTrade, StoreAssumption DEF Events, Messages
<1>4. /\ log' \in Seq(Events)
      /\ Len(log') = Len(log) + 1
      /\ Len(log) \in Nat
      /\ \A k \in 1..Len(log) : log'[k] = log[k]
      /\ log'[Len(log) + 1] = e
  BY <1>1, <1>3, AppendProperties, LenProperties DEF Types
<1>5. Types'
  <2>1. <<>> \in Seq(Events)
    BY EmptySeq
  <2> HIDE DEF e
  <2> QED
    BY <1>1, <1>4, <2>1 DEF Types, Places
<1>6. Open' = Open \ {w}
  BY <1>1 DEF Open, Types
<1>7. \A v \in Open \ {w} : Job(v)' = Job(v)
  BY <1>1 DEF Job, Open, Types
<1>8. QueueInv'
  BY <1>1, <1>2, <1>6 DEF QueueInv, Types
<1>9. \A k \in 1..Len(log') : k \in 1..Len(log) \/ k = Len(log) + 1
  BY <1>4
<1>10. KeyInv'
  BY <1>3, <1>4, <1>9 DEF KeyInv
<1>11. FreshInv'
  <2> SUFFICES ASSUME NEW v \in Open \ {w}, Job(v) \in Once,
                      NEW k \in 1..Len(log')
               PROVE  log'[k].trade # Job(v)
    BY <1>1, <1>6, <1>7 DEF FreshInv, Once
  <2>1. CASE k \in 1..Len(log)
    BY <1>4, <2>1 DEF FreshInv
  <2>2. CASE k = Len(log) + 1
    BY <1>1, <1>4, <2>2, JobIsUnique
  <2> QED
    BY <1>9, <2>1, <2>2
<1>12. BaseInv'
  <2> SUFFICES ASSUME NEW v \in Workers
               PROVE  /\ Len(base'[v]) <= Len(log')
                      /\ base'[v] = SubSeq(log', 1, Len(base'[v]))
    BY DEF BaseInv
  <2>1. CASE v = w
    BY <1>1, <1>4, <2>1, SubSeqEmpty, EmptySeq DEF Types
  <2>2. CASE v # w
    <3>1. base'[v] = base[v] /\ base[v] = SubSeq(log, 1, Len(base[v]))
      BY <1>1, <2>2 DEF BaseInv, Types
    <3>2. Len(base[v]) \in 0..Len(log)
      BY <1>4, LenProperties DEF BaseInv, Types
    <3>3. SubSeq(log', 1, Len(base[v])) = SubSeq(log, 1, Len(base[v]))
      BY <1>1, <1>3, <3>2, PrefixKept DEF Types
    <3> QED
      BY <1>4, <3>1, <3>2, <3>3
  <2> QED
    BY <2>1, <2>2
<1>13. AloneInv'
  BY <1>1, <1>6 DEF AloneInv
<1> QED
  BY <1>5, <1>8, <1>10, <1>11, <1>12, <1>13

\* After a restart no transaction is open.
LEMMA CrashCloses ==
  ASSUME Crash
  PROVE  \A w \in Workers : pc'[w] \in {"new", "done", "failed"}
<1> DEFINE at(w) == CASE w \in Consumers -> "new"
                      [] pc[w] = "done" \/ (pc[w] = "new" /\ attempt[w] = 1) -> pc[w]
                      [] OTHER -> "failed"
<1>1. pc' = [w \in Workers |-> at(w)]
  BY DEF Crash
<1>2. ASSUME NEW w \in Workers PROVE at(w) \in {"new", "done", "failed"}
  <2>1. CASE w \in Consumers
    <3> QED BY <2>1
  <2>2. CASE w \notin Consumers /\ (pc[w] = "done" \/ (pc[w] = "new" /\ attempt[w] = 1))
    <3> QED BY <2>2
  <2>3. CASE w \notin Consumers /\ ~(pc[w] = "done" \/ (pc[w] = "new" /\ attempt[w] = 1))
    <3> QED BY <2>3
  <2> QED
    BY <2>1, <2>2, <2>3
<1> HIDE DEF at
<1> QED
  BY <1>1, <1>2

\* The steps that neither open a session nor add to the log: they close
\* sessions, load the log, or send and acknowledge messages.
LEMMA OtherSteps ==
  ASSUME StoreInv,
         \/ \E c \in Consumers, t \in Trades : Send(c, t)
         \/ \E w \in Workers : Load(w) \/ ReadMax(w) \/ Abort(w)
         \/ \E w \in Direct : Publish(w)
         \/ \E c \in Consumers : CommitOffset(c)
         \/ Crash
  PROVE  StoreInv'
<1> USE DEF StoreInv
<1>1. <<>> \in Seq(Events)
  BY EmptySeq
<1>2. \A w \in Workers : Len(base[w]) \in Nat
  BY LenProperties DEF Types
<1>3. ASSUME NEW c \in Consumers, NEW t \in Source(c), t \in Trades,
             topic' = [topic EXCEPT ![c] = Append(@, t)],
             Open' = Open, UNCHANGED <<log, base, next, offset, overlap>>,
             pc' \in [Workers -> Places]
      PROVE  StoreInv'
  <2>1. /\ Append(topic[c], t) \in Seq(Trades)
        /\ Len(Append(topic[c], t)) = Len(topic[c]) + 1
        /\ Len(topic[c]) \in Nat
        /\ \A k \in 1..Len(topic[c]) : Append(topic[c], t)[k] = topic[c][k]
        /\ Append(topic[c], t)[Len(topic[c]) + 1] = t
    BY <1>3, AppendProperties, LenProperties DEF Types
  <2>2. Types'
    BY <1>3, <2>1 DEF Types
  <2>3. \A d \in Consumers : topic'[d] = IF d = c THEN Append(topic[c], t) ELSE topic[d]
    BY <1>3 DEF Types
  <2>4. \A k \in 1..Len(topic[c]) + 1 : Append(topic[c], t)[k] \in Source(c)
    <3>1. \A k \in 1..Len(topic[c]) + 1 : k \in 1..Len(topic[c]) \/ k = Len(topic[c]) + 1
      BY <2>1
    <3> QED
      BY <1>3, <2>1, <3>1 DEF QueueInv
  <2>5. QueueInv'
    <3> SUFFICES ASSUME NEW d \in Consumers
                 PROVE  /\ offset[d] <= next[d]
                        /\ next[d] <= Len(topic'[d])
                        /\ d \in Open => next[d] < Len(topic'[d])
                        /\ \A k \in 1..Len(topic'[d]) : topic'[d][k] \in Source(d)
      BY <1>3 DEF QueueInv
    <3>1. CASE d = c
      <4>1. topic'[d] = Append(topic[c], t) /\ Len(topic'[d]) = Len(topic[c]) + 1
        BY <2>1, <2>3, <3>1
      <4>2. /\ offset[d] <= next[d] /\ next[d] <= Len(topic[c]) /\ next[d] \in Nat
            /\ d \in Open => next[d] < Len(topic[c])
        BY <3>1 DEF QueueInv, Types
      <4> QED
        BY <2>1, <2>4, <3>1, <4>1, <4>2
    <3>2. CASE d # c
      BY <2>3, <3>2 DEF QueueInv
    <3> QED
      BY <3>1, <3>2
  <2>6. \A v \in Open : Job(v)' = Job(v)
    <3> SUFFICES ASSUME NEW v \in Open PROVE Job(v)' = Job(v)
      OBVIOUS
    <3>1. CASE v = c
      <4>1. next[c] + 1 \in 1..Len(topic[c])
        BY <2>1, <3>1 DEF QueueInv, Types
      <4> QED
        BY <1>3, <2>1, <2>3, <3>1, <4>1 DEF Job
    <3>2. CASE v # c
      BY <1>3, <2>3, <3>2 DEF Job, Open, Workers
    <3> QED
      BY <3>1, <3>2
  <2>7. KeyInv' /\ FreshInv' /\ AloneInv' /\ BaseInv'
    BY <1>3, <2>6 DEF KeyInv, FreshInv, Once, AloneInv, BaseInv
  <2> QED
    BY <2>2, <2>5, <2>7
<1>4. ASSUME NEW c \in Consumers, NEW t \in Trades, Send(c, t) PROVE StoreInv'
  <2>1. t \in Source(c)
    BY <1>4 DEF Send, Source
  <2>2. Open' = Open
    BY <1>4 DEF Send, tx, Open
  <2> QED
    BY <1>3, <1>4, <2>1, <2>2 DEF Send, tx, Types
<1>5. ASSUME NEW w \in Direct, Publish(w) PROVE StoreInv'
  <2>1. Open' = Open
    BY <1>5 DEF Publish, Goto, Open, Types, Workers
  <2>2. pc' \in [Workers -> Places]
    BY <1>5 DEF Publish, Goto, Types, Places
  <2> QED
    BY <1>3, <1>5, <2>1, <2>2 DEF Publish, Source, Consumers, Trades
<1>6. ASSUME UNCHANGED <<log, topic, next, offset, overlap>>, Open' = Open, Types', BaseInv'
      PROVE  StoreInv'
  <2>1. \A w \in Workers : Job(w)' = Job(w)
    BY <1>6 DEF Job
  <2>2. QueueInv' /\ KeyInv'
    BY <1>6 DEF QueueInv, KeyInv
  <2>3. FreshInv' /\ AloneInv'
    BY <1>6, <2>1 DEF FreshInv, Once, AloneInv, Open
  <2> QED
    BY <1>6, <2>2, <2>3
<1>7. ASSUME NEW w \in Workers, Load(w) PROVE StoreInv'
  <2>1. Types' /\ Open' = Open
    BY <1>7 DEF Load, Goto, queues, Types, Places, Open
  <2>2. BaseInv'
    BY <1>7, SubSeqFull, LenProperties DEF Load, BaseInv, Types
  <2> QED
    BY <1>6, <1>7, <2>1, <2>2 DEF Load, queues
<1>8. ASSUME NEW w \in Workers, ReadMax(w) PROVE StoreInv'
  <2>1. Types' /\ Open' = Open
    BY <1>8 DEF ReadMax, Goto, queues, Types, Places, Open
  <2>2. BaseInv'
    BY <1>8 DEF ReadMax, BaseInv
  <2> QED
    BY <1>6, <1>8, <2>1, <2>2 DEF ReadMax, queues
<1>9. ASSUME NEW w \in Workers, Abort(w) PROVE StoreInv'
  <2>1. /\ w \in Open
        /\ base' = [base EXCEPT ![w] = <<>>]
        /\ pc' = [pc EXCEPT ![w] = IF LastAttempt(w) /\ w \notin Consumers
                                     THEN "failed" ELSE "new"]
        /\ next' = IF LastAttempt(w) /\ w \in Consumers
                     THEN [next EXCEPT ![w] = @ + 1] ELSE next
        /\ UNCHANGED <<log, topic, offset, overlap>>
    BY <1>9 DEF Abort, Finish, Close, Goto, Open
  <2>2. Types'
    BY <1>1, <2>1 DEF Types, Places
  <2>3. Open' = Open \ {w}
    BY <2>1 DEF Open, Types
  <2>4. \A v \in Open \ {w} : Job(v)' = Job(v)
    BY <2>1 DEF Job, Open, Types
  <2>5. QueueInv'
    BY <2>1, <2>3 DEF QueueInv, Types
  <2>6. KeyInv' /\ FreshInv' /\ AloneInv'
    BY <2>1, <2>3, <2>4 DEF KeyInv, FreshInv, Once, AloneInv
  <2>7. BaseInv'
    BY <1>2, <2>1, SubSeqEmpty, EmptySeq, LenProperties DEF BaseInv, Types
  <2> QED
    BY <2>2, <2>5, <2>6, <2>7
<1>10. ASSUME NEW c \in Consumers, CommitOffset(c) PROVE StoreInv'
  <2>1. /\ offset' = [offset EXCEPT ![c] = next[c]]
        /\ UNCHANGED <<log, pc, base, topic, next, overlap>>
    BY <1>10 DEF CommitOffset, tx
  <2>2. Types' /\ QueueInv'
    BY <2>1 DEF Types, QueueInv, Open
  <2>3. KeyInv' /\ FreshInv' /\ AloneInv' /\ BaseInv'
    BY <2>1 DEF KeyInv, FreshInv, Once, AloneInv, BaseInv, Open, Job
  <2> QED
    BY <2>2, <2>3
<1>11. CASE Crash
  <2>1. /\ next' = offset
        /\ base' = [w \in Workers |-> <<>>]
        /\ UNCHANGED <<log, topic, offset>>
    BY <1>11 DEF Crash
  <2>2. \A w \in Workers : pc'[w] \in {"new", "done", "failed"}
    BY <1>11, CrashCloses
  <2>3. Types'
    <3>1. DOMAIN pc' = Workers /\ pc' = [w \in Workers |-> pc'[w]]
      BY <1>11 DEF Crash
    <3>2. pc' \in [Workers -> Places]
      BY <2>2, <3>1 DEF Places
    <3> QED
      BY <1>1, <2>1, <3>2 DEF Types
  <2>4. Open' = {}
    BY <2>2 DEF Open
  <2>5. QueueInv'
    BY <2>1, <2>4, LenProperties DEF QueueInv, Types
  <2>6. KeyInv' /\ FreshInv' /\ AloneInv'
    BY <2>1, <2>4 DEF KeyInv, FreshInv, AloneInv
  <2>7. BaseInv'
    BY <2>1, SubSeqEmpty, EmptySeq, LenProperties DEF BaseInv, Types
  <2> QED
    BY <2>3, <2>5, <2>6, <2>7
<1> QED
  BY <1>4, <1>5, <1>7, <1>8, <1>9, <1>10, <1>11

\* Every step keeps the invariant.
LEMMA StoreStep == StoreInv /\ [Next]_vars => StoreInv'
<1> SUFFICES ASSUME StoreInv, [Next]_vars PROVE StoreInv'
  OBVIOUS
<1>1. ASSUME NEW w \in Workers, Check(w) PROVE StoreInv'
  BY <1>1, CheckStep
<1>2. ASSUME NEW w \in Workers, Commit(w) PROVE StoreInv'
  BY <1>2, CommitStep
<1>3. CASE UNCHANGED vars
  BY <1>3 DEF vars, tx, queues, StoreInv, Types, QueueInv, KeyInv, FreshInv, Once, AloneInv, BaseInv,
         Open, Job
<1> QED
  BY <1>1, <1>2, <1>3, OtherSteps DEF Next, Apply

-----------------------------------------------------------------------------
\* The store is the log of PositionLog (event_store.py append and the read
\* model that trade_handler.py writes with it): whatever overlaps, is tried
\* again, is delivered again or restarts, events are only added, a fill of the
\* order service at most once, a corporate action at most once unless two
\* transactions were open together, and the read model is rebuilt from a
\* beginning of the log and the event that was just added.
THEOREM StoreImplementsLog == Spec => ImplementsLog
<1>1. Init => Log!Init
  BY DEF Init, Log!Init
<1>2. StoreInv /\ [Next]_vars => [Log!Next]_<<log, projected, overlap>>
  <2> SUFFICES ASSUME StoreInv, [Next]_vars
               PROVE  Log!Next \/ UNCHANGED <<log, projected, overlap>>
    OBVIOUS
  <2>1. ASSUME NEW w \in Workers, Commit(w) PROVE Log!Next
    <3> DEFINE e == [trade |-> Job(w), key |-> Key(w)]
    <3>1. /\ w \in Open /\ log' = Append(log, e) /\ projected' = Append(base[w], e)
          /\ overlap' = overlap
      BY <2>1 DEF Commit, Projected, Open
    <3>2. e.trade = Job(w)
      OBVIOUS
    <3>3. Job(w) \in Trades /\ Key(w) \in Keys
      BY <3>1, JobIsTrade DEF StoreInv, QueueInv
    <3>4. e.trade \in Orders \/ (e.trade \in Actions /\ ~overlap) =>
            \A k \in DOMAIN log : log[k].trade # e.trade
      BY <3>1, <3>2, LenProperties DEF StoreInv, Types, FreshInv, Once, Messages
    <3>5. Len(base[w]) \in 0..Len(log) /\ base[w] = SubSeq(log, 1, Len(base[w]))
      BY LenProperties DEF StoreInv, Types, BaseInv
    <3>6. Log!Record(e)
      BY <3>1, <3>4, <3>5 DEF Log!Record
    <3> QED
      BY <3>3, <3>6 DEF Log!Next
  <2>2. ASSUME NEW w \in Workers, Load(w) \/ ReadMax(w) \/ Abort(w)
        PROVE  UNCHANGED <<log, projected, overlap>>
    BY <2>2 DEF Load, ReadMax, Abort
  <2>4. ASSUME NEW w \in Workers, Check(w)
        PROVE  Log!Next \/ UNCHANGED <<log, projected, overlap>>
    <3>1. UNCHANGED <<log, projected>> /\ (overlap' = TRUE \/ overlap' = overlap)
      BY <2>4 DEF Check
    <3> QED
      BY <3>1 DEF Log!Next, Log!Contend
  <2>3. ASSUME \/ \E c \in Consumers, t \in Trades : Send(c, t)
               \/ \E w \in Direct : Publish(w)
               \/ \E c \in Consumers : CommitOffset(c)
               \/ Crash
               \/ UNCHANGED vars
        PROVE  UNCHANGED <<log, projected, overlap>>
    BY <2>3 DEF Send, Publish, CommitOffset, Crash, vars
  <2> QED
    BY <2>1, <2>2, <2>3, <2>4 DEF Next, Apply
<1> QED
  BY <1>1, <1>2, InitStore, StoreStep, PTL DEF Spec, ImplementsLog, Log!Spec

-----------------------------------------------------------------------------
\* Without overlap the only open transaction has loaded all of the log, and
\* the read model holds all of it.
SerialInv ==
  ~overlap =>
    /\ \A v, w \in Open : v = w
    /\ \A w \in Open : pc[w] \in {"max", "commit"} => base[w] = log
    /\ projected = log

\* Nothing is stored at first.
LEMMA InitSerial == Init => SerialInv
BY DEF Init, SerialInv, Open

\* Every step keeps that too.
LEMMA SerialStep == StoreInv /\ SerialInv /\ [Next]_vars => SerialInv'
<1> SUFFICES ASSUME StoreInv, SerialInv, [Next]_vars, ~overlap'
             PROVE  SerialInv'
  BY DEF SerialInv
<1> USE DEF StoreInv, Types
<1>1. ASSUME NEW w \in Workers, Check(w) PROVE SerialInv'
  <2>1. /\ ~overlap /\ Open = {} /\ UNCHANGED <<log, projected>>
        /\ \E at \in Places \ {"max", "commit"} : pc' = [pc EXCEPT ![w] = at]
    BY <1>1 DEF Check, Finish, Goto, Places
  <2>2. \A v \in Open' : v = w /\ pc'[v] \notin {"max", "commit"}
    BY <2>1 DEF Open
  <2> QED
    BY <2>1, <2>2 DEF SerialInv
<1>2. ASSUME NEW w \in Workers, Load(w) \/ ReadMax(w) PROVE SerialInv'
  <2>1. w \in Open /\ Open' = Open /\ UNCHANGED <<log, projected, overlap>>
    BY <1>2 DEF Load, ReadMax, Goto, Open
  <2>2. base'[w] = log
    BY <1>2, <2>1 DEF Load, ReadMax, SerialInv
  <2> QED
    BY <2>1, <2>2 DEF SerialInv
<1>3. ASSUME NEW w \in Workers, Commit(w) PROVE SerialInv'
  <2>1. /\ w \in Open /\ ~overlap /\ pc[w] = "commit" /\ overlap' = overlap
        /\ pc' = [pc EXCEPT ![w] = IF w \in Consumers THEN "new" ELSE "publish"]
    BY <1>3 DEF Commit, Finish, Goto, Open
  <2>2. base[w] = log
    BY <2>1 DEF SerialInv
  <2>3. projected' = log'
    BY <1>3, <2>2 DEF Commit, Projected
  <2>4. Open' = {}
    BY <2>1 DEF Open, SerialInv
  <2> QED
    BY <2>3, <2>4 DEF SerialInv
<1>4. ASSUME NEW w \in Workers, Abort(w) PROVE SerialInv'
  <2>1. /\ w \in Open /\ UNCHANGED <<log, projected, overlap>>
        /\ pc' = [pc EXCEPT ![w] = IF LastAttempt(w) /\ w \notin Consumers
                                     THEN "failed" ELSE "new"]
    BY <1>4 DEF Abort, Finish, Goto, Open
  <2>2. Open' = Open \ {w}
    BY <2>1 DEF Open
  <2>3. Open' = {}
    BY <2>1, <2>2 DEF SerialInv
  <2> QED
    BY <2>1, <2>3 DEF SerialInv
<1>5. ASSUME NEW w \in Direct, Publish(w) PROVE SerialInv'
  <2>1. /\ pc[w] = "publish" /\ pc' = [pc EXCEPT ![w] = "done"]
        /\ UNCHANGED <<log, projected, overlap, base>>
    BY <1>5 DEF Publish, Goto
  <2>2. Open' = Open /\ \A v \in Open : pc'[v] = pc[v]
    BY <2>1 DEF Open, Workers
  <2> QED
    BY <2>1, <2>2 DEF SerialInv
<1>6. CASE Crash
  <2>1. UNCHANGED <<log, projected, overlap>>
    BY <1>6 DEF Crash
  <2>2. Open' = {}
    BY <1>6, CrashCloses DEF Open
  <2> QED
    BY <2>1, <2>2 DEF SerialInv
<1>7. ASSUME UNCHANGED <<log, projected, overlap, pc, base>> PROVE SerialInv'
  BY <1>7 DEF SerialInv, Open
<1>8. ASSUME NEW c \in Consumers, NEW t \in Trades, Send(c, t) PROVE SerialInv'
  BY <1>7, <1>8 DEF Send, tx
<1>9. ASSUME NEW c \in Consumers, CommitOffset(c) PROVE SerialInv'
  BY <1>7, <1>9 DEF CommitOffset, tx
<1>10. CASE UNCHANGED vars
  BY <1>7, <1>10 DEF vars, tx
<1> HIDE DEF StoreInv, Types
<1> QED
  BY <1>1, <1>2, <1>3, <1>4, <1>5, <1>6, <1>8, <1>9, <1>10 DEF Next, Apply

\* Without overlapping transactions the read model that position_projector.py
\* writes holds every event, whatever is tried or delivered again.
THEOREM ReadModelFollows == Spec => []ProjectionFollows
<1>1. SerialInv => ProjectionFollows
  BY DEF SerialInv, ProjectionFollows
<1> QED
  BY <1>1, InitSerial, SerialStep, InitStore, StoreStep, PTL DEF Spec

-----------------------------------------------------------------------------
\* g folds the events of s over the subsets of S, the last event outermost.
LotsFold(s, S, g) ==
  g = [T \in SUBSET S |->
         IF T = {} THEN <<>> ELSE LET x == Max(T) IN ApplyToLots(g[T \ {x}], s[x])]

\* A nonempty finite set of naturals has a largest element, which Max picks.
LEMMA MaxIn ==
  ASSUME NEW n \in Nat, NEW T \in SUBSET (1..n), T # {}
  PROVE  Max(T) \in T /\ \A y \in T : Max(T) >= y
<1> DEFINE N == {m \in Nat : \A y \in T : m >= y}
<1>1. N \in SUBSET Nat /\ N # {}
  <2>1. n \in N
    OBVIOUS
  <2> QED
    BY <2>1
<1>2. PICK m \in N : \A k \in N : m <= k
  <2> HIDE DEF N
  <2> QED
    BY <1>1, LeastNat
<1>3. m \in T
  <2> SUFFICES ASSUME m \notin T PROVE FALSE
    OBVIOUS
  <2>1. m \in Nat /\ \A y \in T : y \in Nat /\ m >= y /\ y # m /\ y > 0
    OBVIOUS
  <2>2. m - 1 \in Nat
    <3>1. PICK y \in T : TRUE
      OBVIOUS
    <3> QED
      BY <2>1, <3>1
  <2>3. m - 1 \in N
    BY <2>1, <2>2
  <2> QED
    BY <1>2, <2>1, <2>3
<1>4. \A y \in T : m >= y
  OBVIOUS
<1> HIDE DEF N
<1> QED
  BY <1>3, <1>4 DEF Max

\* Every sequence has a fold over its indices.
LEMMA LotsFoldExists ==
  ASSUME NEW s, NEW n \in Nat
  PROVE  \E g : LotsFold(s, 1..n, g)
<1> DEFINE D == {m \in Nat : ~ \E g : LotsFold(s, 1..m, g)}
<1> SUFFICES ASSUME D # {} PROVE FALSE
  OBVIOUS
<1>1. PICK m \in D : \A k \in D : m <= k
  <2>1. D \in SUBSET Nat
    OBVIOUS
  <2> HIDE DEF D
  <2> QED
    BY <2>1, LeastNat
<1> DEFINE S == 1..m
           P == 1..(m - 1)
<1>2. CASE m = 0
  <2> DEFINE g == [T \in SUBSET S |-> <<>>]
  <2>1. S = {} /\ SUBSET S = {{}}
    BY <1>2
  <2>2. \A T \in SUBSET S :
          (IF T = {} THEN <<>> ELSE LET x == Max(T) IN ApplyToLots(g[T \ {x}], s[x])) = <<>>
    BY <2>1
  <2>3. LotsFold(s, S, g)
    BY <2>2 DEF LotsFold
  <2> QED
    BY <2>3, <1>1
<1>3. CASE m # 0
  <2>1. m - 1 \in Nat /\ m - 1 \notin D /\ m \in Nat
    BY <1>1, <1>3
  <2>2. PICK h : LotsFold(s, P, h)
    BY <2>1
  <2> DEFINE g == [T \in SUBSET S |->
                     IF T = {} THEN <<>>
                     ELSE IF m \in T THEN ApplyToLots(h[T \ {m}], s[m]) ELSE h[T]]
  <2>3. \A T \in SUBSET S : (T \ {m}) \in SUBSET P /\ (m \notin T => T \in SUBSET P)
    BY <2>1
  <2>4. \A T \in SUBSET P : m \notin T /\ T \in SUBSET S /\ g[T] = h[T]
    <3>1. h[{}] = <<>>
      BY <2>2 DEF LotsFold
    <3>2. \A T \in SUBSET P : m \notin T /\ T \in SUBSET S
      BY <2>1
    <3> QED
      BY <3>1, <3>2
  <2>5. ASSUME NEW T \in SUBSET S, T # {}
        PROVE  g[T] = ApplyToLots(g[T \ {Max(T)}], s[Max(T)])
    <3>1. Max(T) \in T /\ \A y \in T : Max(T) >= y
      BY <2>1, <2>5, MaxIn
    <3>2. CASE m \in T
      <4>1. Max(T) = m
        <5>1. Max(T) \in 1..m /\ Max(T) >= m
          BY <3>1, <3>2
        <5> QED
          BY <2>1, <5>1
      <4>2. g[T \ {m}] = h[T \ {m}]
        BY <2>3, <2>4
      <4>3. g[T] = ApplyToLots(h[T \ {m}], s[m])
        BY <2>5, <3>2
      <4> QED
        BY <4>1, <4>2, <4>3
    <3>3. CASE m \notin T
      <4>1. T \in SUBSET P /\ T \ {Max(T)} \in SUBSET P
        BY <2>3, <3>3
      <4>2. g[T] = h[T] /\ g[T \ {Max(T)}] = h[T \ {Max(T)}]
        BY <2>4, <4>1
      <4>3. h[T] = ApplyToLots(h[T \ {Max(T)}], s[Max(T)])
        <5>1. \A W \in SUBSET P : W # {} => h[W] = ApplyToLots(h[W \ {Max(W)}], s[Max(W)])
          BY <2>2 DEF LotsFold
        <5> QED
          BY <2>5, <4>1, <5>1
      <4> QED
        BY <4>2, <4>3
    <3> QED
      BY <3>2, <3>3
  <2>6. g = [T \in SUBSET S |->
               IF T = {} THEN <<>> ELSE LET x == Max(T) IN ApplyToLots(g[T \ {x}], s[x])]
    <3> DEFINE k == [T \in SUBSET S |->
               IF T = {} THEN <<>> ELSE LET x == Max(T) IN ApplyToLots(g[T \ {x}], s[x])]
    <3>1. ASSUME NEW T \in SUBSET S PROVE g[T] = k[T]
      <4>1. CASE T = {}
        BY <4>1
      <4>2. CASE T # {}
        <5>1. k[T] = ApplyToLots(g[T \ {Max(T)}], s[Max(T)])
          <6> HIDE DEF g
          <6> QED
            BY <4>2
        <5> HIDE DEF g, k
        <5> QED
          BY <2>5, <4>2, <5>1
      <4> QED
        BY <4>1, <4>2
    <3> QED
      BY <3>1
  <2>7. LotsFold(s, S, g)
    <3> HIDE DEF g
    <3> QED
      BY <2>6 DEF LotsFold
  <2> QED
    BY <2>7, <1>1
<1> QED
  BY <1>2, <1>3

\* The lots of some events are their fold's last value.
LEMMA LotsIsFold ==
  ASSUME NEW E, NEW s \in Seq(E)
  PROVE  \E g : LotsFold(s, 1..Len(s), g) /\ Lots(s) = g[1..Len(s)]
<1> DEFINE g == CHOOSE g : LotsFold(s, 1..Len(s), g)
<1>1. DOMAIN s = 1..Len(s) /\ Len(s) \in Nat
  BY LenProperties
<1>2. Lots(s) = g[1..Len(s)]
  BY <1>1 DEF Lots, FoldLeft, MapThenFoldSet, LotsFold
<1>3. LotsFold(s, 1..Len(s), g)
  <2> QED
    BY <1>1, LotsFoldExists
<1> QED
  BY <1>2, <1>3

\* No event, no lot.
LEMMA LotsEmpty == Lots(<<>>) = <<>>
<1>1. <<>> \in Seq({}) /\ Len(<<>>) = 0 /\ 1..0 = {}
  OBVIOUS
<1>2. PICK g : LotsFold(<<>>, {}, g) /\ Lots(<<>>) = g[{}]
  BY <1>1, LotsIsFold
<1> QED
  BY <1>2 DEF LotsFold

\* One more event is applied to the lots of the events before it.
LEMMA LotsAppend ==
  ASSUME NEW E, NEW s \in Seq(E), NEW e \in E
  PROVE  Lots(Append(s, e)) = ApplyToLots(Lots(s), e)
<1> DEFINE t == Append(s, e)
           n == Len(s)
<1>1. /\ t \in Seq(E) /\ Len(t) = n + 1 /\ n \in Nat
      /\ \A x \in 1..n : t[x] = s[x]
      /\ t[n + 1] = e
  BY AppendProperties, LenProperties
<1> HIDE DEF t, n
<1>2. PICK h : LotsFold(s, 1..n, h) /\ Lots(s) = h[1..n]
  BY LotsIsFold DEF n
<1>3. PICK g : LotsFold(t, 1..(n + 1), g) /\ Lots(t) = g[1..(n + 1)]
  BY <1>1, LotsIsFold
<1>4. /\ g[{}] = <<>> /\ h[{}] = <<>>
      /\ \A W \in SUBSET (1..(n + 1)) :
           W # {} => g[W] = ApplyToLots(g[W \ {Max(W)}], t[Max(W)])
      /\ \A W \in SUBSET (1..n) :
           W # {} => h[W] = ApplyToLots(h[W \ {Max(W)}], s[Max(W)])
  <2>1. g[{}] = <<>> /\ \A W \in SUBSET (1..(n + 1)) :
           W # {} => g[W] = ApplyToLots(g[W \ {Max(W)}], t[Max(W)])
    BY <1>3 DEF LotsFold
  <2>2. h[{}] = <<>> /\ \A W \in SUBSET (1..n) :
           W # {} => h[W] = ApplyToLots(h[W \ {Max(W)}], s[Max(W)])
    BY <1>2 DEF LotsFold
  <2> QED
    BY <2>1, <2>2
<1>5. g[1..n] = h[1..n]
  <2> DEFINE S == 1..n
             F == {U \in SUBSET S : g[U] # h[U]}
  <2> SUFFICES ASSUME F # {} PROVE FALSE
    OBVIOUS
  <2>1. F \in SUBSET SUBSET S /\ IsFiniteSet(S)
    BY <1>1, FS_Interval
  <2>2. PICK U \in F : \A V \in SUBSET U : V \in F => V = U
    <3> HIDE DEF F, S
    <3> QED
      BY <2>1, LeastSubset
  <2>3. U \in SUBSET (1..n) /\ U \in SUBSET (1..(n + 1)) /\ g[U] # h[U]
    BY <1>1
  <2>4. U # {}
    BY <1>4, <2>3
  <2>5. Max(U) \in U
    BY <1>1, <2>3, <2>4, MaxIn
  <2>6. g[U \ {Max(U)}] = h[U \ {Max(U)}]
    BY <2>2, <2>3, <2>5
  <2>7. t[Max(U)] = s[Max(U)]
    BY <1>1, <2>3, <2>5
  <2> HIDE DEF F
  <2>8. g[U] = ApplyToLots(g[U \ {Max(U)}], t[Max(U)])
    BY <1>4, <2>3, <2>4
  <2>9. h[U] = ApplyToLots(h[U \ {Max(U)}], s[Max(U)])
    BY <1>4, <2>3, <2>4
  <2> QED
    BY <2>3, <2>6, <2>7, <2>8, <2>9
<1>6. Max(1..(n + 1)) = n + 1 /\ 1..(n + 1) # {} /\ (1..(n + 1)) \ {n + 1} = 1..n
  <2>1. n + 1 \in Nat /\ n + 1 \in 1..(n + 1) /\ (1..(n + 1)) \ {n + 1} = 1..n
    BY <1>1
  <2>2. Max(1..(n + 1)) \in 1..(n + 1) /\ \A y \in 1..(n + 1) : Max(1..(n + 1)) >= y
    BY <2>1, MaxIn
  <2>3. Max(1..(n + 1)) >= n + 1
    BY <2>1, <2>2
  <2> QED
    BY <1>1, <2>1, <2>2, <2>3
<1>7. g[1..(n + 1)] = ApplyToLots(g[(1..(n + 1)) \ {Max(1..(n + 1))}], t[Max(1..(n + 1))])
  BY <1>4, <1>6
<1>8. g[1..(n + 1)] = ApplyToLots(g[1..n], e)
  BY <1>1, <1>6, <1>7
<1>9. Lots(t) = ApplyToLots(Lots(s), e)
  BY <1>2, <1>3, <1>5, <1>8
<1> QED
  BY <1>9 DEF t

-----------------------------------------------------------------------------
\* Without sells, an event that is no corporate action adds its lot.
LEMMA LotsGrow ==
  ASSUME NEW s \in Seq(Events), NEW e \in Events, e.trade \notin Sells
  PROVE  Lots(Append(s, e)) = IF e.trade \in Actions THEN Lots(s) ELSE Append(Lots(s), e.trade)
<1>1. Lots(Append(s, e)) = ApplyToLots(Lots(s), e)
  BY LotsAppend
<1>2. ApplyToLots(Lots(s), e) = IF e.trade \in Actions THEN Lots(s) ELSE Append(Lots(s), e.trade)
  BY DEF ApplyToLots
<1> QED
  BY <1>1, <1>2

\* What is published, and so what the trades consumer is handed of the posted
\* trades, is in the log.
PublishedInv ==
  /\ \A w \in Direct : pc[w] = "publish" => \E k \in 1..Len(log) : log[k].trade = w
  /\ \A m \in 1..Len(topic["trades"]) :
       topic["trades"][m] \in Direct => \E k \in 1..Len(log) : log[k].trade = topic["trades"][m]

NoSells(events) == \A k \in 1..Len(events) : events[k].trade \notin Sells

\* Every trade of the log has a lot.
LotsHold(events) ==
  /\ Lots(events) \in Seq(Trades)
  /\ \A k \in 1..Len(events) :
       events[k].trade \notin Actions =>
         \E j \in 1..Len(Lots(events)) : Lots(events)[j] = events[k].trade

\* One retry at most is in the log, under the client's key, and none while
\* another one is at work.
OneRetry(events) ==
  /\ \A k \in 1..Len(events) : events[k].trade \in Retries => events[k].key = "key"
  /\ \A j, k \in 1..Len(events) :
       events[j].trade \in Retries /\ events[k].trade \in Retries => j = k

RetryInv ==
  (~overlap /\ NoSells(log)) =>
    /\ LotsHold(log)
    /\ OneRetry(log)
    /\ \A w \in Open : w \in Retries => \A k \in 1..Len(log) : log[k].trade \notin Retries

\* Nothing is published at first.
LEMMA InitRetry == Init => PublishedInv /\ RetryInv
<1> SUFFICES ASSUME Init PROVE PublishedInv /\ RetryInv
  OBVIOUS
<1>1. PublishedInv
  BY DEF Init, PublishedInv, Workers, Consumers
<1>2. Lots(log) = <<>> /\ Len(log) = 0
  BY LotsEmpty DEF Init
<1>3. LotsHold(log)
  BY <1>2, EmptySeq DEF LotsHold
<1>4. OneRetry(log) /\ \A w \in Open : \A k \in 1..Len(log) : log[k].trade \notin Retries
  BY <1>2 DEF OneRetry
<1> QED
  BY <1>1, <1>3, <1>4 DEF RetryInv

\* The log only grows, and what is published was committed.
LEMMA PublishedStep == StoreInv /\ PublishedInv /\ [Next]_vars => PublishedInv'
<1> SUFFICES ASSUME StoreInv, PublishedInv, [Next]_vars PROVE PublishedInv'
  OBVIOUS
<1> USE DEF StoreInv, Types
<1>0. "trades" \in Consumers /\ Direct \subseteq Workers
  BY DEF Consumers, Workers
<1>1. ASSUME log' = log, topic' = topic,
             \A w \in Direct : pc'[w] = "publish" => pc[w] = "publish"
      PROVE  PublishedInv'
  BY <1>1 DEF PublishedInv
<1>2. ASSUME NEW w \in Workers, Check(w) PROVE PublishedInv'
  <2>1. UNCHANGED <<log, topic>> /\ \E at \in {"new", "done", "load"} : pc' = [pc EXCEPT ![w] = at]
    BY <1>2 DEF Check, Finish, Goto
  <2>2. \A v \in Direct : pc'[v] = "publish" => pc[v] = "publish"
    BY <1>0, <2>1
  <2> QED
    BY <1>1, <2>1, <2>2
<1>3. ASSUME NEW w \in Workers, Load(w) \/ ReadMax(w) \/ Abort(w) PROVE PublishedInv'
  <2>1. UNCHANGED <<log, topic>>
        /\ \E at \in {"max", "commit", "new", "failed"} : pc' = [pc EXCEPT ![w] = at]
    BY <1>3 DEF Load, ReadMax, Abort, Finish, Goto, queues
  <2>2. \A v \in Direct : pc'[v] = "publish" => pc[v] = "publish"
    BY <1>0, <2>1
  <2> QED
    BY <1>1, <2>1, <2>2
<1>4. ASSUME NEW w \in Workers, Commit(w) PROVE PublishedInv'
  <2> DEFINE e == [trade |-> Job(w), key |-> Key(w)]
  <2>1. /\ w \in Open /\ log' = Append(log, e) /\ topic' = topic
        /\ pc' = [pc EXCEPT ![w] = IF w \in Consumers THEN "new" ELSE "publish"]
    BY <1>4 DEF Commit, Finish, Goto, Open
  <2>2. e \in Events
    BY <2>1, JobIsTrade DEF QueueInv, Events
  <2>3. /\ Len(log') = Len(log) + 1 /\ Len(log) \in Nat
        /\ \A k \in 1..Len(log) : log'[k] = log[k]
        /\ log'[Len(log) + 1] = e
    BY <2>1, <2>2, AppendProperties, LenProperties
  <2>4. w \in Direct => e.trade = w
    BY DEF Job
  <2> HIDE DEF e
  <2>5. \A k \in 1..Len(log) : k \in 1..Len(log') /\ log'[k] = log[k]
    BY <2>3
  <2>6. Len(log) + 1 \in 1..Len(log')
    BY <2>3
  <2>7. \A v \in Direct : pc'[v] = "publish" => pc[v] = "publish" \/ v = w
    BY <1>0, <2>1
  <2>8. \A v \in Direct : pc'[v] = "publish" => \E k \in 1..Len(log') : log'[k].trade = v
    BY <2>3, <2>4, <2>5, <2>6, <2>7 DEF PublishedInv
  <2>9. ASSUME NEW m \in 1..Len(topic["trades"]), topic["trades"][m] \in Direct
        PROVE  \E k \in 1..Len(log') : log'[k].trade = topic["trades"][m]
    <3>1. PICK k \in 1..Len(log) : log[k].trade = topic["trades"][m]
      BY <2>9 DEF PublishedInv
    <3> QED
      BY <2>5, <3>1
  <2> QED
    BY <2>1, <2>8, <2>9 DEF PublishedInv
<1>5. ASSUME NEW c \in Consumers, NEW t \in Trades, topic' = [topic EXCEPT ![c] = Append(@, t)],
             log' = log, \A w \in Direct : pc'[w] = "publish" => pc[w] = "publish",
             t \in Direct => \E k \in 1..Len(log) : log[k].trade = t
      PROVE  PublishedInv'
  <2>1. CASE c = "trades"
    <3>1. /\ topic'["trades"] = Append(topic["trades"], t) /\ Len(topic["trades"]) \in Nat
          /\ Len(topic'["trades"]) = Len(topic["trades"]) + 1
          /\ \A m \in 1..Len(topic["trades"]) : topic'["trades"][m] = topic["trades"][m]
          /\ topic'["trades"][Len(topic["trades"]) + 1] = t
      BY <1>5, <2>1, AppendProperties, LenProperties
    <3>2. \A m \in 1..Len(topic'["trades"]) :
             m \in 1..Len(topic["trades"]) \/ m = Len(topic["trades"]) + 1
      BY <3>1
    <3> QED
      BY <1>5, <3>1, <3>2 DEF PublishedInv
  <2>2. CASE c # "trades"
    <3>1. topic'["trades"] = topic["trades"]
      BY <1>0, <1>5, <2>2
    <3> QED
      BY <1>5, <3>1 DEF PublishedInv
  <2> QED
    BY <2>1, <2>2
<1>6. ASSUME NEW c \in Consumers, NEW t \in Trades, Send(c, t) PROVE PublishedInv'
  <2>1. t \notin Direct
    BY <1>6, StoreAssumption DEF Send
  <2> QED
    BY <1>5, <1>6, <2>1 DEF Send, tx
<1>7. ASSUME NEW w \in Direct, Publish(w) PROVE PublishedInv'
  <2>1. /\ pc[w] = "publish" /\ pc' = [pc EXCEPT ![w] = "done"] /\ log' = log
        /\ topic' = [topic EXCEPT !["trades"] = Append(@, w)]
    BY <1>7 DEF Publish, Goto
  <2>2. \A v \in Direct : pc'[v] = "publish" => pc[v] = "publish"
    BY <1>0, <2>1
  <2>3. w \in Trades /\ \E k \in 1..Len(log) : log[k].trade = w
    BY <2>1 DEF PublishedInv, Trades
  <2> QED
    BY <1>0, <1>5, <2>1, <2>2, <2>3
<1>8. ASSUME \/ \E c \in Consumers : CommitOffset(c)
             \/ UNCHANGED vars
      PROVE  PublishedInv'
  BY <1>8 DEF CommitOffset, vars, tx, queues, PublishedInv
<1>9. CASE Crash
  <2>1. \A w \in Direct : pc'[w] # "publish"
    BY <1>0, <1>9, CrashCloses
  <2> QED
    BY <1>1, <1>9, <2>1 DEF Crash
<1> QED
  BY <1>2, <1>3, <1>4, <1>6, <1>7, <1>8, <1>9 DEF Next, Apply

\* The steps that do not commit.
LEMMA RetryKept ==
  ASSUME RetryInv, log' = log, overlap => overlap', Open' \subseteq Open
  PROVE  RetryInv'
BY DEF RetryInv

\* A commit of a retry is the first one.
LEMMA RetryCommit ==
  ASSUME StoreInv, SerialInv, PublishedInv, RetryInv, NEW w \in Workers, Commit(w)
  PROVE  RetryInv'
<1> USE DEF StoreInv, Types
<1> DEFINE e == [trade |-> Job(w), key |-> Key(w)]
<1>1. /\ w \in Open /\ log' = Append(log, e) /\ pc[w] = "commit" /\ NoConflict(w)
      /\ overlap' = overlap
      /\ pc' = [pc EXCEPT ![w] = IF w \in Consumers THEN "new" ELSE "publish"]
  BY DEF Commit, Finish, Goto, Open
<1>2. w \in Consumers => next[w] < Len(topic[w])
  BY <1>1 DEF QueueInv
<1>3. /\ e \in Events /\ e.trade = Job(w) /\ e.key = Key(w)
      /\ w \in Consumers => Job(w) \in Source(w)
      /\ w \notin Consumers => Job(w) = w /\ w \in Direct
  BY <1>2, JobIsTrade DEF Events, Job, Workers
<1> HIDE DEF e
<1>4. /\ Len(log') = Len(log) + 1 /\ Len(log) \in Nat
      /\ \A k \in 1..Len(log) : log'[k] = log[k]
      /\ log'[Len(log) + 1] = e
  BY <1>1, <1>3, AppendProperties, LenProperties
<1>5. /\ \A k \in 1..Len(log) : k \in 1..Len(log')
      /\ Len(log) + 1 \in 1..Len(log')
      /\ \A k \in 1..Len(log') : k \in 1..Len(log) \/ k = Len(log) + 1
  BY <1>4
<1> SUFFICES ASSUME ~overlap, NoSells(log')
             PROVE  /\ LotsHold(log')
                    /\ OneRetry(log')
                    /\ \A v \in Open' : v \in Retries =>
                         \A k \in 1..Len(log') : log'[k].trade \notin Retries
  BY <1>1 DEF RetryInv
<1>6. NoSells(log) /\ e.trade \notin Sells
  BY <1>4, <1>5 DEF NoSells
<1>7. LotsHold(log) /\ OneRetry(log)
      /\ (w \in Retries => \A k \in 1..Len(log) : log[k].trade \notin Retries)
  BY <1>1, <1>6 DEF RetryInv
<1>8. Lots(log') = IF e.trade \in Actions THEN Lots(log) ELSE Append(Lots(log), e.trade)
  BY <1>1, <1>3, <1>6, LotsGrow
<1>9. e.trade \notin Actions =>
        /\ Lots(log') \in Seq(Trades) /\ Len(Lots(log)) \in Nat
        /\ Len(Lots(log')) = Len(Lots(log)) + 1
        /\ \A j \in 1..Len(Lots(log)) : Lots(log')[j] = Lots(log)[j]
        /\ Lots(log')[Len(Lots(log)) + 1] = e.trade
  BY <1>3, <1>7, <1>8, AppendProperties, LenProperties DEF LotsHold, Events
<1>10. LotsHold(log')
  <2>1. CASE e.trade \in Actions
    BY <1>4, <1>5, <1>7, <1>8, <2>1 DEF LotsHold
  <2>2. CASE e.trade \notin Actions
    <3>1. ASSUME NEW k \in 1..Len(log'), log'[k].trade \notin Actions
          PROVE  \E j \in 1..Len(Lots(log')) : Lots(log')[j] = log'[k].trade
      <4>1. CASE k \in 1..Len(log)
        <5>1. PICK j \in 1..Len(Lots(log)) : Lots(log)[j] = log[k].trade
          BY <1>4, <1>7, <3>1, <4>1 DEF LotsHold
        <5>2. j \in 1..Len(Lots(log')) /\ Lots(log')[j] = log[k].trade
          BY <1>9, <2>2, <5>1
        <5> QED
          BY <1>4, <4>1, <5>2
      <4>2. CASE k = Len(log) + 1
        <5>1. Len(Lots(log)) + 1 \in 1..Len(Lots(log'))
          BY <1>9, <2>2
        <5> QED
          BY <1>4, <1>9, <2>2, <4>2, <5>1
      <4> QED
        BY <1>5, <4>1, <4>2
    <3> QED
      BY <1>9, <2>2, <3>1 DEF LotsHold
  <2> QED
    BY <2>1, <2>2
<1>11. e.trade \in Retries => w \notin Consumers
  <2> SUFFICES ASSUME e.trade \in Retries, w \in Consumers PROVE FALSE
    OBVIOUS
  <2>1. e.trade \in Direct /\ e.trade \notin Actions
    BY StoreAssumption
  <2>2. w = "trades"
    BY <1>3, <2>1, StoreAssumption DEF Source, Consumers
  <2>3. w \notin Direct /\ e.trade = topic["trades"][next["trades"] + 1]
    BY <1>3, <2>2, StoreAssumption DEF Job
  <2>4. next["trades"] + 1 \in 1..Len(topic["trades"])
    BY <1>2, <2>2, LenProperties
  <2>5. PICK k \in 1..Len(log) : log[k].trade = e.trade
    BY <2>1, <2>3, <2>4 DEF PublishedInv
  <2>6. PICK j \in 1..Len(Lots(log)) : Lots(log)[j] = e.trade
    BY <1>7, <2>1, <2>5 DEF LotsHold
  <2>7. base[w] = log
    BY <1>1 DEF SerialInv
  <2>8. \A x, y \in DOMAIN Lots(log') : Lots(log')[x] = Lots(log')[y] => x = y
    BY <1>1, <2>7 DEF NoConflict, e
  <2>9. /\ j \in 1..Len(Lots(log')) /\ Len(Lots(log)) + 1 \in 1..Len(Lots(log'))
        /\ DOMAIN Lots(log') = 1..Len(Lots(log'))
        /\ Lots(log')[j] = Lots(log')[Len(Lots(log)) + 1] /\ j # Len(Lots(log)) + 1
    BY <1>9, <2>1, <2>6, LenProperties
  <2> QED
    BY <2>8, <2>9
<1>12. e.trade \in Retries =>
         e.key = "key" /\ \A k \in 1..Len(log) : log[k].trade \notin Retries
  BY <1>3, <1>7, <1>11 DEF Key
<1>13. OneRetry(log')
  BY <1>4, <1>5, <1>7, <1>12 DEF OneRetry
<1>14. Open' = {}
  BY <1>1 DEF Open, SerialInv
<1> QED
  BY <1>10, <1>13, <1>14

\* Every step keeps RetryInv.
LEMMA RetryStep ==
  StoreInv /\ SerialInv /\ PublishedInv /\ RetryInv /\ [Next]_vars => RetryInv'
<1> SUFFICES ASSUME StoreInv, SerialInv, PublishedInv, RetryInv, [Next]_vars PROVE RetryInv'
  OBVIOUS
<1>1. ASSUME NEW w \in Workers, Check(w) PROVE RetryInv'
  <2>1. log' = log /\ (overlap => overlap')
    BY <1>1 DEF Check
  <2>2. CASE Duplicate(w)
    <3>1. pc' = [pc EXCEPT ![w] = IF w \in Consumers THEN "new" ELSE "done"]
      BY <1>1, <2>2 DEF Check, Finish, Goto
    <3>2. Open' \subseteq Open
      BY <3>1 DEF Open, StoreInv, Types
    <3> QED
      BY <2>1, <3>2, RetryKept
  <2>3. CASE ~Duplicate(w)
    <3>1. Open' \subseteq Open \cup {w}
      BY <1>1, <2>3 DEF Check, Goto, Open, StoreInv, Types
    <3>2. ASSUME w \in Retries, OneRetry(log), NEW k \in 1..Len(log) PROVE log[k].trade \notin Retries
      <4>1. Key(w) = "key"
        BY <3>2, StoreAssumption DEF Key, Consumers
      <4>2. log[k].key # "key"
        BY <2>3, <4>1, LenProperties DEF Duplicate, StoreInv, Types
      <4> QED
        BY <3>2, <4>2 DEF OneRetry
    <3> QED
      BY <2>1, <3>1, <3>2 DEF RetryInv
  <2> QED
    BY <2>2, <2>3
<1>2. ASSUME NEW w \in Workers, Load(w) \/ ReadMax(w) \/ Abort(w) PROVE RetryInv'
  <2>1. log' = log /\ overlap' = overlap /\ w \in Open
        /\ \E at \in Places : pc' = [pc EXCEPT ![w] = at]
    BY <1>2 DEF Load, ReadMax, Abort, Finish, Goto, Open, Places
  <2>2. Open' \subseteq Open
    BY <2>1 DEF Open, StoreInv, Types
  <2> QED
    BY <2>1, <2>2, RetryKept
<1>3. ASSUME NEW w \in Direct, Publish(w) PROVE RetryInv'
  <2>1. Open' \subseteq Open
    BY <1>3 DEF Publish, Goto, Open, StoreInv, Types, Workers
  <2> QED
    BY <1>3, <2>1, RetryKept DEF Publish
<1>4. ASSUME \/ \E c \in Consumers, t \in Trades : Send(c, t)
             \/ \E c \in Consumers : CommitOffset(c)
             \/ UNCHANGED vars
      PROVE  RetryInv'
  <2>1. log' = log /\ overlap' = overlap /\ pc' = pc
    BY <1>4 DEF Send, CommitOffset, vars, tx
  <2>2. Open' \subseteq Open
    BY <2>1 DEF Open
  <2> QED
    BY <2>1, <2>2, RetryKept
<1>5. CASE Crash
  <2>1. Open' \subseteq Open
    BY <1>5, CrashCloses DEF Open
  <2> QED
    BY <1>5, <2>1, RetryKept DEF Crash
<1>6. ASSUME NEW w \in Workers, Commit(w) PROVE RetryInv'
  BY <1>6, RetryCommit
<1> QED
  BY <1>1, <1>2, <1>3, <1>4, <1>5, <1>6 DEF Next, Apply

\* Posted buys with one key are applied once, although the trades consumer is
\* handed each of them again under its own id: has_idempotency_key stops a
\* second post, and the primary key of lots the consumer.
THEOREM RetriesAreAppliedOnce == Spec => []RetryAppliedOnce
<1>1. StoreInv /\ RetryInv => RetryAppliedOnce
  <2> SUFFICES ASSUME StoreInv, RetryInv, ~overlap, \A k \in DOMAIN log : log[k].trade \notin Sells
               PROVE  Cardinality({k \in DOMAIN log : log[k].trade \in Retries}) <= 1
    BY DEF RetryAppliedOnce
  <2> DEFINE R == {k \in DOMAIN log : log[k].trade \in Retries}
  <2>1. DOMAIN log = 1..Len(log)
    BY LenProperties DEF StoreInv, Types
  <2>2. \A j, k \in R : j = k
    BY <2>1 DEF RetryInv, NoSells, OneRetry
  <2>3. CASE R = {}
    BY <2>3, FS_EmptySet
  <2>4. CASE R # {}
    <3>1. PICK k \in R : TRUE
      BY <2>4
    <3>2. R = {k}
      BY <2>2, <3>1
    <3> HIDE DEF R
    <3>3. Cardinality({k}) = 1
      BY FS_Singleton
    <3>4. Cardinality(R) = 1
      BY <3>2, <3>3
    <3> QED
      BY <3>4 DEF R
  <2> QED
    BY <2>3, <2>4
<1> QED
  BY <1>1, InitRetry, InitSerial, InitStore, RetryStep, PublishedStep, SerialStep, StoreStep, PTL
     DEF Spec

-----------------------------------------------------------------------------
(* The aggregate: the lots of a position that was never short. *)

LotRows == [qty : Nat \ {0}, orig : Nat \ {0}, price : Nat \ {0}]

\* Every lot is long, and the splits still to come divide its price.
LongLots ==
  /\ DOMAIN lots \subseteq 1..version
  /\ \A k \in DOMAIN lots : lots[k] \in LotRows /\ Exact(lots[k].price, MaxSplits - splits)

\* What the lots add up to.
Sums ==
  /\ quantity \in Int /\ cost \in Int /\ realized \in Int
  /\ spent \in Int /\ proceeds \in Int /\ income \in Int
  /\ quantity = LotsQty(lots)
  /\ cost = LotsCost(lots)
  /\ realized = proceeds - spent + cost + income

\* Only the oldest lot is partly sold.
PartlySold == \A j, k \in DOMAIN lots : j < k => lots[k].qty = lots[k].orig

\* The inductive invariant.
AggregateInv ==
  /\ version \in Nat /\ splits \in 0..MaxSplits /\ wasShort \in BOOLEAN
  /\ ~wasShort => LongLots /\ Sums /\ PartlySold

\* There are finitely many lots, and the next event opens one of its own.
LEMMA LotsFinite ==
  ASSUME version \in Nat, LongLots
  PROVE  /\ IsFiniteSet(DOMAIN lots) /\ version + 1 \notin DOMAIN lots
         /\ \A k \in DOMAIN lots : k \in 1..version /\ Abs(lots[k].qty) = lots[k].qty
<1>1. IsFiniteSet(1..version)
  <2>1. 1 \in Int /\ version \in Int
    OBVIOUS
  <2> QED
    BY ONLY <2>1, FS_Interval
<1>2. DOMAIN lots \in SUBSET (1..version)
  BY DEF LongLots
<1>3. IsFiniteSet(DOMAIN lots)
  BY <1>1, <1>2, FS_Subset
<1>4. version + 1 \notin DOMAIN lots
  BY <1>2
<1>5. ASSUME NEW k \in DOMAIN lots PROVE Abs(lots[k].qty) = lots[k].qty
  BY DEF LongLots, LotRows, Abs
<1> QED
  BY <1>2, <1>3, <1>4, <1>5

\* A new aggregate has no lots.
LEMMA AggregateStarts == AggregateInit => AggregateInv
<1> SUFFICES ASSUME AggregateInit PROVE AggregateInv
  OBVIOUS
<1>1. lots = <<>> /\ DOMAIN lots = {}
  BY DEF AggregateInit
<1>2. LotsQty(lots) = 0 /\ LotsCost(lots) = 0
  <2>1. ASSUME NEW g, DOMAIN g = {} PROVE SumFunction(g) = 0
    BY <2>1, SumEmpty DEF SumFunction
  <2> QED
    BY <1>1, <2>1 DEF LotsQty, LotsCost
<1>3. LongLots /\ PartlySold
  BY <1>1 DEF LongLots, PartlySold
<1>4. Sums
  <2>1. quantity = 0 /\ cost = 0 /\ realized = 0 /\ spent = 0 /\ proceeds = 0 /\ income = 0
    BY DEF AggregateInit
  <2>2. realized = proceeds - spent + cost + income
    BY <2>1
  <2>3. /\ quantity \in Int /\ cost \in Int /\ realized \in Int
        /\ spent \in Int /\ proceeds \in Int /\ income \in Int
    BY <2>1
  <2> QED
    BY <1>2, <2>1, <2>2, <2>3, Zenon DEF Sums
<1>5. version \in Nat /\ splits \in 0..MaxSplits
  BY AggregateAssumption DEF AggregateInit
<1>6. wasShort \in BOOLEAN
  BY Zenon DEF AggregateInit
<1> QED
  BY <1>3, <1>4, <1>5, <1>6 DEF AggregateInv

\* A buy opens a lot.
LEMMA BuyStep ==
  ASSUME AggregateInv, NEW q \in Quantities, NEW p \in Prices, Buy(q, p)
  PROVE  AggregateInv'
<1>0. q \in Nat \ {0} /\ p \in Nat \ {0} /\ q * p \in Nat
  <2>1. q \in Nat \ {0} /\ p \in Nat \ {0}
    BY AggregateAssumption
  <2> QED
    BY <2>1
<1>1. /\ version' = version + 1 /\ UNCHANGED <<realized, splits, proceeds, income, wasShort>>
      /\ quantity' = quantity + q /\ cost' = cost + q * p /\ spent' = spent + q * p
      /\ lots' = Opened(lots, Lot(q, p))
  BY DEF Buy, Bump
<1>2. version' \in Nat /\ splits' \in 0..MaxSplits /\ wasShort' \in BOOLEAN
  BY <1>1 DEF AggregateInv
<1> SUFFICES ASSUME ~wasShort PROVE LongLots' /\ Sums' /\ PartlySold'
  BY <1>1, <1>2 DEF AggregateInv
<1>3. version \in Nat /\ splits \in 0..MaxSplits /\ LongLots /\ Sums /\ PartlySold
  BY DEF AggregateInv
<1> DEFINE n == version + 1
           D == DOMAIN lots
<1>4. /\ IsFiniteSet(D) /\ n \notin D
      /\ \A k \in D : k \in 1..version /\ Abs(lots[k].qty) = lots[k].qty /\ lots[k] \in LotRows
  BY <1>3, LotsFinite DEF LongLots
<1>5. /\ DOMAIN lots' = D \cup {n}
      /\ lots'[n] = Lot(q, p)
      /\ \A k \in D : lots'[k] = lots[k]
  BY <1>1, <1>4 DEF Opened
<1>6. Lot(q, p).qty = q /\ Lot(q, p).orig = q /\ Lot(q, p).price = p /\ Lot(q, p) \in LotRows
  BY <1>0 DEF Lot, LotRows
<1>7. Abs(q) = q
  BY <1>0 DEF Abs
<1> HIDE DEF n, D
<1>8. LotsQty(lots') = LotsQty(lots) + q
  <2> DEFINE f == [k \in D |-> lots[k].qty]
             g == [k \in D \cup {n} |-> lots'[k].qty]
  <2>1. DOMAIN f = D /\ DOMAIN g = D \cup {n} /\ g[n] = q
    BY <1>5, <1>6
  <2>2. \A y \in D : f[y] \in Int /\ g[y] = f[y]
    BY <1>4, <1>5 DEF LotRows
  <2> HIDE DEF f, g
  <2>3. SumFunction(g) = SumFunction(f) + q
    BY <1>0, <1>4, <2>1, <2>2, SumOneMore
  <2> QED
    BY <1>5, <2>3 DEF LotsQty, f, g, D
<1>9. LotsCost(lots') = LotsCost(lots) + q * p
  <2> DEFINE f == [k \in D |-> Abs(lots[k].qty) * lots[k].price]
             g == [k \in D \cup {n} |-> Abs(lots'[k].qty) * lots'[k].price]
  <2>1. DOMAIN f = D /\ DOMAIN g = D \cup {n} /\ g[n] = q * p
    BY <1>5, <1>6, <1>7
  <2>2. \A y \in D : f[y] \in Int /\ g[y] = f[y]
    BY <1>4, <1>5 DEF LotRows
  <2> HIDE DEF f, g
  <2>3. SumFunction(g) = SumFunction(f) + q * p
    BY <1>0, <1>4, <2>1, <2>2, SumOneMore
  <2> QED
    BY <1>5, <2>3 DEF LotsCost, f, g, D
<1>10. LongLots'
  <2>1. MaxSplits - splits \in 0..MaxSplits
    BY <1>3, AggregateAssumption
  <2>2. Exact(p, MaxSplits - splits)
    BY <2>1, AggregateAssumption
  <2>3. ASSUME NEW k \in DOMAIN lots' PROVE lots'[k] \in LotRows /\ Exact(lots'[k].price, MaxSplits - splits)
    BY <1>3, <1>4, <1>5, <1>6, <2>2 DEF LongLots, D
  <2>4. DOMAIN lots' \subseteq 1..version'
    <3>1. ASSUME NEW k \in D PROVE k \in 1..version'
      BY <1>1, <1>3, <1>4
    <3>2. n \in 1..version'
      BY <1>1, <1>3 DEF n
    <3> QED
      BY <1>5, <3>1, <3>2
  <2> QED
    BY <1>1, <2>3, <2>4 DEF LongLots, Exact, Quotients
<1>11. Sums'
  <2>1. /\ quantity' = quantity + q /\ cost' = cost + q * p /\ spent' = spent + q * p
        /\ quantity \in Int /\ cost \in Int /\ realized \in Int
        /\ spent \in Int /\ proceeds \in Int /\ income \in Int
        /\ realized = proceeds - spent + cost + income /\ q * p \in Int
    BY <1>0, <1>1, <1>3 DEF Sums
  <2>2. /\ quantity' \in Int /\ cost' \in Int /\ realized' \in Int
        /\ spent' \in Int /\ proceeds' \in Int /\ income' \in Int
    BY <1>0, <1>1, <2>1
  <2>3. realized' = proceeds' - spent' + cost' + income'
    BY <1>1, <2>1
  <2>4. quantity' = LotsQty(lots') /\ cost' = LotsCost(lots')
    BY <1>1, <1>3, <1>8, <1>9 DEF Sums
  <2> QED
    BY <2>2, <2>3, <2>4 DEF Sums, LotsQty, LotsCost
<1>12. PartlySold'
  <2> SUFFICES ASSUME NEW j \in DOMAIN lots', NEW k \in DOMAIN lots', j < k
               PROVE  lots'[k].qty = lots'[k].orig
    BY DEF PartlySold
  <2>1. CASE k = n
    BY <1>5, <1>6, <2>1
  <2>2. CASE k \in D
    <3>1. j \in D
      <4>1. j # n
        BY <1>3, <1>4, <2>2 DEF n
      <4> QED
        BY <1>5, <4>1
    <3> QED
      BY <1>3, <1>5, <2>2, <3>1 DEF PartlySold, D
  <2> QED
    BY <1>5, <2>1, <2>2
<1> QED
  BY <1>10, <1>11, <1>12

\* A price that n + 1 splits can divide.
LEMMA ExactQuotient ==
  ASSUME NEW p \in Nat \ {0}, NEW n \in Nat, Exact(p, n + 1), NEW r \in Ratios
  PROVE  /\ p \div r \in Nat \ {0} /\ p = r * (p \div r)
         /\ Exact(p \div r, n)
<1>0. r \in Nat \ {0} /\ Quotients \subseteq Nat \ {0}
  <2>1. r \in Nat \ {0} /\ \A x \in Prices : x \in Nat
    BY AggregateAssumption
  <2> QED
    BY <2>1 DEF Quotients
<1>1. ASSUME NEW f \in [1..n -> Ratios]
      PROVE  \E d \in [0..n -> Quotients] :
               /\ p = r * d[0]
               /\ \A k \in 1..n : d[k - 1] = f[k] * d[k]
  <2> DEFINE g == [k \in 1..(n + 1) |-> IF k = 1 THEN r ELSE f[k - 1]]
  <2>1. g \in [1..(n + 1) -> Ratios]
    BY <1>1
  <2>2. g[1] = r /\ \A k \in 1..n : g[k + 1] = f[k]
    BY <1>1
  <2> HIDE DEF g
  <2>3. PICK c \in [0..(n + 1) -> Quotients] :
          c[0] = p /\ \A k \in 1..(n + 1) : c[k - 1] = g[k] * c[k]
    BY <2>1 DEF Exact
  <2> DEFINE d == [k \in 0..n |-> c[k + 1]]
  <2>4. d \in [0..n -> Quotients] /\ \A k \in 0..n : d[k] = c[k + 1]
    OBVIOUS
  <2>5. p = r * d[0]
    <3>1. 1 \in 1..(n + 1) /\ 1 - 1 = 0 /\ d[0] = c[1]
      BY <2>4
    <3> QED
      BY <2>2, <2>3, <3>1
  <2>6. ASSUME NEW k \in 1..n PROVE d[k - 1] = f[k] * d[k]
    <3>1. k + 1 \in 1..(n + 1) /\ (k + 1) - 1 = k /\ k - 1 \in 0..n /\ k \in 0..n /\ (k - 1) + 1 = k
      OBVIOUS
    <3>2. c[k] = g[k + 1] * c[k + 1]
      BY <2>3, <3>1
    <3> QED
      BY <2>2, <2>4, <3>1, <3>2
  <2> HIDE DEF d
  <2> QED
    BY <2>4, <2>5, <2>6
<1>2. ASSUME NEW x \in Quotients, p = r * x PROVE p \div r = x
  <2>1. x \in Nat
    BY <1>0
  <2>2. ASSUME NEW s \in Nat \ {0}, NEW y \in Nat PROVE (s * y) \div s = y
    OBVIOUS
  <2> QED
    BY <1>0, <1>2, <2>1, <2>2
<1>3. [k \in 1..n |-> r] \in [1..n -> Ratios]
  OBVIOUS
<1>4. PICK x \in Quotients : p = r * x
  <2>1. 0 \in 0..n
    OBVIOUS
  <2> QED
    BY <1>1, <1>3, <2>1
<1>5. Exact(p \div r, n)
  <2> SUFFICES ASSUME NEW f \in [1..n -> Ratios]
               PROVE  \E c \in [0..n -> Quotients] :
                        c[0] = p \div r /\ \A k \in 1..n : c[k - 1] = f[k] * c[k]
    BY DEF Exact
  <2>1. PICK d \in [0..n -> Quotients] : p = r * d[0] /\ \A k \in 1..n : d[k - 1] = f[k] * d[k]
    BY <1>1
  <2>2. d[0] \in Quotients
    <3>1. 0 \in 0..n
      OBVIOUS
    <3> QED
      BY <3>1
  <2>3. d[0] = p \div r
    BY <1>2, <2>1, <2>2
  <2> QED
    BY <2>1, <2>3
<1> QED
  BY <1>0, <1>2, <1>4, <1>5

\* A split multiplies every quantity and keeps every cost.
LEMMA SplitStep ==
  ASSUME AggregateInv, NEW r \in Ratios, Split(r)
  PROVE  AggregateInv'
<1>0. r \in Nat \ {0}
  BY AggregateAssumption
<1>1. /\ version' = version + 1 /\ splits < MaxSplits /\ splits' = splits + 1
      /\ quantity' = quantity * r /\ lots' = SplitLots(r)
      /\ UNCHANGED <<cost, realized, spent, proceeds, income, wasShort>>
  BY DEF Split, Bump
<1>2. version' \in Nat /\ splits' \in 0..MaxSplits /\ wasShort' \in BOOLEAN
  BY <1>1, AggregateAssumption DEF AggregateInv
<1> SUFFICES ASSUME ~wasShort PROVE LongLots' /\ Sums' /\ PartlySold'
  BY <1>1, <1>2 DEF AggregateInv
<1>3. version \in Nat /\ splits \in 0..MaxSplits /\ LongLots /\ Sums /\ PartlySold
  BY DEF AggregateInv
<1> DEFINE D == DOMAIN lots
<1>4. /\ IsFiniteSet(D)
      /\ \A k \in D : k \in 1..version /\ Abs(lots[k].qty) = lots[k].qty /\ lots[k] \in LotRows
  BY <1>3, LotsFinite DEF LongLots
<1>5. /\ DOMAIN lots' = D
      /\ \A k \in D : /\ lots'[k].qty = lots[k].qty * r /\ lots'[k].orig = lots[k].orig * r
                      /\ lots'[k].price = lots[k].price \div r
                      /\ lots'[k] = [qty |-> lots[k].qty * r, orig |-> lots[k].orig * r,
                                     price |-> lots[k].price \div r]
  BY <1>1 DEF SplitLots
<1>6. PICK n \in Nat : MaxSplits - splits = n + 1 /\ MaxSplits - splits' = n
  <2>1. MaxSplits - splits - 1 \in Nat
    BY <1>1, <1>3, AggregateAssumption
  <2> QED
    BY <1>1, <1>3, <2>1, AggregateAssumption
<1>7. ASSUME NEW k \in D
      PROVE  /\ lots'[k].price \in Nat \ {0} /\ lots[k].price = r * lots'[k].price
             /\ Exact(lots'[k].price, n) /\ lots[k].price \in Nat \ {0}
             /\ lots[k].qty \in Nat \ {0} /\ lots[k].orig \in Nat \ {0}
  <2>1. /\ lots[k].price \in Nat \ {0} /\ lots[k].qty \in Nat \ {0} /\ lots[k].orig \in Nat \ {0}
    BY <1>4 DEF LotRows
  <2>2. Exact(lots[k].price, n + 1)
    BY <1>3, <1>6 DEF LongLots
  <2>3. PICK x \in Nat \ {0} : x = lots[k].price
    BY <2>1
  <2>4. x \div r \in Nat \ {0} /\ x = r * (x \div r) /\ Exact(x \div r, n)
    BY <2>2, <2>3, ExactQuotient
  <2>5. lots'[k].price = x \div r
    BY <1>5, <2>3
  <2> QED
    BY <2>1, <2>3, <2>4, <2>5
<1> HIDE DEF D
<1>8. \A x, y \in Nat \ {0} : x * y \in Nat \ {0}
  OBVIOUS
<1>9. LongLots'
  <2>1. ASSUME NEW k \in D PROVE lots'[k] \in LotRows
    <3>1. /\ lots[k].qty * r \in Nat \ {0} /\ lots[k].orig * r \in Nat \ {0}
          /\ lots[k].price \div r \in Nat \ {0}
      BY <1>0, <1>5, <1>7, <1>8
    <3> QED
      BY <1>5, <3>1 DEF LotRows
  <2>2. D \subseteq 1..version'
    BY <1>1, <1>3, <1>4
  <2>3. \A k \in D : Exact(lots'[k].price, MaxSplits - splits')
    BY <1>6, <1>7
  <2> QED
    BY <1>5, <2>1, <2>2, <2>3 DEF LongLots, Exact, Quotients
<1>10. LotsQty(lots') = LotsQty(lots) * r
  <2> DEFINE f == [k \in D |-> lots[k].qty]
             g == [k \in D |-> lots'[k].qty]
  <2>1. DOMAIN f = D /\ DOMAIN g = D
    OBVIOUS
  <2>2. \A x \in D : f[x] \in Int /\ g[x] = r * f[x]
    <3>1. \A x \in Nat : x * r = r * x
      BY <1>0
    <3> QED
      BY <1>5, <1>7, <3>1
  <2> HIDE DEF f, g
  <2>3. SumFunctionOnSet(g, D) = r * SumFunctionOnSet(f, D)
    <3>1. r \in Int
      BY <1>0
    <3> QED
      BY <1>4, <2>2, <3>1, SumScale
  <2>4. SumFunctionOnSet(f, D) \in Int
    BY <1>4, <2>2, SumInt
  <2>5. SumFunctionOnSet(g, D) = SumFunctionOnSet(f, D) * r
    BY <1>0, <2>3, <2>4
  <2>6. SumFunction(g) = SumFunction(f) * r
    BY <2>1, <2>5 DEF SumFunction
  <2> QED
    BY <1>5, <2>6 DEF LotsQty, f, g, D
<1>11. LotsCost(lots') = LotsCost(lots)
  <2> DEFINE f == [k \in D |-> Abs(lots[k].qty) * lots[k].price]
             g == [k \in D |-> Abs(lots'[k].qty) * lots'[k].price]
  <2>1. DOMAIN f = D /\ DOMAIN g = D
    OBVIOUS
  <2>2. ASSUME NEW x \in D PROVE f[x] = g[x]
    <3>1. f[x] = lots[x].qty * lots[x].price
      BY <1>4
    <3>2. g[x] = (lots[x].qty * r) * lots'[x].price
      <4>1. lots[x].qty * r \in Nat
        BY <1>0, <1>7, <1>8
      <4>2. Abs(lots[x].qty * r) = lots[x].qty * r
        BY <4>1 DEF Abs
      <4> QED
        BY <1>5, <4>2
    <3>3. \A u, v, w \in Nat : (u * v) * w = u * (v * w)
      OBVIOUS
    <3> QED
      BY <1>0, <1>7, <3>1, <3>2, <3>3
  <2> HIDE DEF f, g
  <2>3. SumFunction(g) = SumFunction(f)
    BY <1>4, <2>1, <2>2, SumSame DEF SumFunction
  <2> QED
    BY <1>5, <2>3 DEF LotsCost, f, g, D
<1>12. Sums'
  <2>1. /\ quantity \in Int /\ cost \in Int /\ realized \in Int
        /\ spent \in Int /\ proceeds \in Int /\ income \in Int
        /\ realized = proceeds - spent + cost + income
        /\ quantity = LotsQty(lots) /\ cost = LotsCost(lots)
    BY <1>3 DEF Sums
  <2>2. quantity' \in Int
    BY <1>0, <1>1, <2>1
  <2> QED
    BY <1>1, <1>10, <1>11, <2>1, <2>2 DEF Sums, LotsQty, LotsCost
<1>13. PartlySold'
  BY <1>3, <1>5 DEF PartlySold, D
<1> QED
  BY <1>9, <1>12, <1>13

\* A dividend is realized at once.
LEMMA DividendStep ==
  ASSUME AggregateInv, NEW a \in Amounts, Dividend(a)
  PROVE  AggregateInv'
<1>1. /\ version' = version + 1 /\ realized' = realized + a /\ income' = income + a
      /\ UNCHANGED <<quantity, cost, lots, splits, spent, proceeds, wasShort>>
  BY DEF Dividend, Bump
<1>2. version' \in Nat /\ splits' \in 0..MaxSplits /\ wasShort' \in BOOLEAN
  BY <1>1 DEF AggregateInv
<1> SUFFICES ASSUME ~wasShort PROVE LongLots' /\ Sums' /\ PartlySold'
  BY <1>1, <1>2 DEF AggregateInv
<1>3. version \in Nat /\ LongLots /\ Sums /\ PartlySold /\ a \in Nat
  BY AggregateAssumption DEF AggregateInv
<1>4. LongLots'
  <2>1. DOMAIN lots \subseteq 1..version'
    BY <1>1, <1>3 DEF LongLots
  <2>2. \A k \in DOMAIN lots' : lots'[k] \in LotRows /\ Exact(lots'[k].price, MaxSplits - splits')
    BY <1>1, <1>3 DEF LongLots
  <2>3. DOMAIN lots' = DOMAIN lots
    BY <1>1
  <2> QED
    BY <2>1, <2>2, <2>3 DEF LongLots, Exact, Quotients
<1>5. PartlySold'
  BY <1>1, <1>3 DEF PartlySold
<1>6. Sums'
  <2>1. realized' = proceeds' - spent' + cost' + income'
    BY <1>1, <1>3 DEF Sums
  <2>2. realized' \in Int /\ income' \in Int
    BY <1>1, <1>3 DEF Sums
  <2> QED
    BY <1>1, <1>3, <2>1, <2>2 DEF Sums, LotsQty, LotsCost
<1> QED
  BY <1>4, <1>5, <1>6

\* The quantity in the lots that are older than lot k.
Older(k) == QtyIn({j \in DOMAIN lots : j < k})

\* What a sell takes from one of a long position's lots.
LEMMA SoldFromLot ==
  ASSUME version \in Nat, LongLots, NEW q \in Nat, NEW k \in DOMAIN lots
  PROVE  /\ Older(k) \in Nat
         /\ lots[k].qty \in Nat \ {0}
         /\ Sold(q, k) = IF q <= Older(k) THEN 0 ELSE Least(q - Older(k), lots[k].qty)
         /\ Sold(q, k) \in 0..lots[k].qty
<1>1. IsFiniteSet(DOMAIN lots)
  BY LotsFinite
<1>2. \A j \in DOMAIN lots : lots[j].qty \in Nat \ {0}
  BY DEF LongLots, LotRows
<1>3. Older(k) \in Nat
  <2> DEFINE f == [j \in DOMAIN lots |-> lots[j].qty]
             S == {j \in DOMAIN lots : j < k}
  <2>1. IsFiniteSet(S) /\ \A x \in S : f[x] \in Nat
    BY <1>1, <1>2, FS_Subset
  <2> HIDE DEF f, S
  <2>2. SumFunctionOnSet(f, S) \in Nat
    BY <2>1, SumNat
  <2> QED
    BY <2>2 DEF Older, QtyIn, f, S
<1>4. ~ \E j \in DOMAIN lots : j <= k /\ lots[j].qty <= 0
  BY <1>2
<1>5. Sold(q, k) = IF q <= Older(k) THEN 0 ELSE Least(q - Older(k), lots[k].qty)
  BY <1>4, Zenon DEF Sold, Older
<1>6. Sold(q, k) \in 0..lots[k].qty
  BY <1>2, <1>3, <1>5 DEF Least
<1> QED
  BY <1>2, <1>3, <1>5, <1>6

\* What a sell takes from the lots 1..n together.
LEMMA SoldUpTo ==
  ASSUME version \in Nat, LongLots, NEW q \in Nat, NEW n \in Nat
  PROVE  SumFunctionOnSet([k \in DOMAIN lots |-> Sold(q, k)], {j \in DOMAIN lots : j <= n})
           = Least(q, QtyIn({j \in DOMAIN lots : j <= n}))
<1> DEFINE D == DOMAIN lots
           s == [k \in D |-> Sold(q, k)]
           f == [k \in D |-> lots[k].qty]
           Upto(m) == {j \in D : j <= m}
           Good(m) == SumFunctionOnSet(s, Upto(m)) = Least(q, SumFunctionOnSet(f, Upto(m)))
           N == {m \in Nat : ~Good(m)}
<1>1. /\ IsFiniteSet(D)
      /\ \A k \in D : k \in 1..version
  BY LotsFinite
<1>2. ASSUME NEW k \in D
      PROVE  /\ f[k] \in Nat /\ s[k] \in Nat /\ Older(k) \in Nat
             /\ s[k] = IF q <= Older(k) THEN 0 ELSE Least(q - Older(k), f[k])
  BY SoldFromLot
<1>3. \A m \in Nat : IsFiniteSet(Upto(m))
  BY <1>1, FS_Subset
<1>4. SUFFICES N = {}
  BY DEF QtyIn
<1> SUFFICES ASSUME N # {} PROVE FALSE
  OBVIOUS
<1>5. PICK m \in N : \A i \in N : m <= i
  <2>1. N \in SUBSET Nat
    OBVIOUS
  <2> HIDE DEF N
  <2> QED
    BY <2>1, LeastNat
<1>6. Good(0)
  <2>1. Upto(0) = {}
    BY <1>1
  <2>2. SumFunctionOnSet(s, Upto(0)) = 0 /\ SumFunctionOnSet(f, Upto(0)) = 0
    BY <2>1, SumEmpty, Zenon
  <2>3. Least(q, 0) = 0
    BY DEF Least
  <2> HIDE DEF s, f, Upto
  <2> QED
    BY <2>2, <2>3
<1>7. m # 0 /\ m \in Nat
  BY <1>6
<1>8. PICK i \in Nat : m = i + 1
  <2>1. m - 1 \in Nat /\ m = (m - 1) + 1
    BY <1>7
  <2> QED
    BY <2>1
<1>9. Good(i)
  BY <1>5, <1>8
<1> HIDE DEF Good, N
<1>10. CASE m \notin D
  <2>1. Upto(m) = Upto(i)
    BY <1>1, <1>8, <1>10
  <2> QED
    BY <1>5, <1>9, <2>1 DEF Good, N
<1>11. CASE m \in D
  <2>1. Upto(m) = Upto(i) \cup {m} /\ m \notin Upto(i) /\ {j \in D : j < m} = Upto(i)
    BY <1>1, <1>8, <1>11
  <2>2. Older(m) = SumFunctionOnSet(f, Upto(i))
    BY <2>1, Zenon DEF Older, QtyIn
  <2>3. /\ \A y \in Upto(i) \cup {m} : s[y] \in Int /\ f[y] \in Int
        /\ IsFiniteSet(Upto(i))
    BY <1>2, <1>3, <1>11
  <2>4. /\ f[m] \in Nat /\ s[m] \in Nat /\ Older(m) \in Nat
        /\ s[m] = IF q <= Older(m) THEN 0 ELSE Least(q - Older(m), f[m])
    BY <1>2, <1>11
  <2>5. SumFunctionOnSet(s, Upto(i)) = Least(q, Older(m))
    BY <1>9, <2>2 DEF Good
  <2> HIDE DEF s, f, Upto, D
  <2>6. SumFunctionOnSet(s, Upto(i) \cup {m}) = s[m] + SumFunctionOnSet(s, Upto(i))
    BY <2>1, <2>3, SumAdd
  <2>7. SumFunctionOnSet(f, Upto(i) \cup {m}) = f[m] + SumFunctionOnSet(f, Upto(i))
    BY <2>1, <2>3, SumAdd
  <2>8. SumFunctionOnSet(s, Upto(m)) = s[m] + Least(q, Older(m))
    BY <2>1, <2>5, <2>6, Zenon
  <2>9. SumFunctionOnSet(f, Upto(m)) = f[m] + Older(m)
    BY <2>1, <2>2, <2>7, Zenon
  <2>10. s[m] + Least(q, Older(m)) = Least(q, f[m] + Older(m))
    BY <2>4 DEF Least
  <2> QED
    BY <1>5, <2>8, <2>9, <2>10 DEF Good, N
<1> QED
  BY <1>10, <1>11

\* A sell takes what it asks for, or all there is.
LEMMA SoldInAll ==
  ASSUME version \in Nat, LongLots, NEW q \in Nat
  PROVE  SoldTotal(q) = Least(q, LotsQty(lots))
<1>1. {j \in DOMAIN lots : j <= version} = DOMAIN lots
  <2>1. \A j \in DOMAIN lots : j \in 1..version
    BY LotsFinite
  <2>2. \A j \in DOMAIN lots : j <= version
    BY <2>1
  <2> QED
    BY <2>2
<1>2. SumFunctionOnSet([k \in DOMAIN lots |-> Sold(q, k)], DOMAIN lots) = Least(q, QtyIn(DOMAIN lots))
  BY <1>1, SoldUpTo
<1> QED
  BY <1>2, Zenon DEF SoldTotal, LotsQty, QtyIn, SumFunction

\* A lot that a sell leaves something in, and every lot after it.
LEMMA SoldInOrder ==
  ASSUME version \in Nat, LongLots, NEW q \in Nat, NEW j \in DOMAIN lots, NEW k \in DOMAIN lots,
         j < k, Sold(q, j) < lots[j].qty
  PROVE  Sold(q, k) = 0
<1> DEFINE D == DOMAIN lots
           f == [i \in D |-> lots[i].qty]
           A == {i \in D : i < j}
           B == {i \in D : i < k}
<1>1. /\ IsFiniteSet(D)
      /\ \A i \in D : i \in 1..version
  BY LotsFinite
<1>2. /\ Older(j) \in Nat /\ Older(k) \in Nat /\ lots[j].qty \in Nat
      /\ Sold(q, j) = IF q <= Older(j) THEN 0 ELSE Least(q - Older(j), lots[j].qty)
      /\ Sold(q, k) = IF q <= Older(k) THEN 0 ELSE Least(q - Older(k), lots[k].qty)
  BY SoldFromLot
<1>3. \A i \in D : f[i] \in Nat
  BY SoldFromLot
<1>4. A \cup {j} \in SUBSET B /\ j \notin A
  BY <1>1
<1>5. IsFiniteSet(A) /\ IsFiniteSet(B)
  BY <1>1, FS_Subset
<1>6. /\ \A y \in A \cup {j} : f[y] \in Int
      /\ \A y \in B : f[y] \in Nat
  BY <1>3
<1>7. Older(j) = SumFunctionOnSet(f, A) /\ Older(k) = SumFunctionOnSet(f, B) /\ f[j] = lots[j].qty
  BY DEF Older, QtyIn
<1> HIDE DEF f, A, B, D
<1>8. SumFunctionOnSet(f, A \cup {j}) = f[j] + SumFunctionOnSet(f, A)
  BY <1>4, <1>5, <1>6, SumAdd
<1>9. SumFunctionOnSet(f, A \cup {j}) <= SumFunctionOnSet(f, B)
  BY <1>4, <1>5, <1>6, SumSubset
<1>10. lots[j].qty + Older(j) <= Older(k)
  BY <1>7, <1>8, <1>9
<1>11. q <= lots[j].qty + Older(j)
  BY <1>2 DEF Least
<1>12. q <= Older(k)
  BY <1>2, <1>10, <1>11
<1> QED
  BY <1>2, <1>12

\* A sell that the lots cover takes the oldest ones.
LEMMA SellStep ==
  ASSUME AggregateInv, NEW q \in Quantities, NEW p \in Prices, Sell(q, p)
  PROVE  AggregateInv'
<1>0. q \in Nat \ {0} /\ p \in Nat \ {0}
  BY AggregateAssumption
<1>1. /\ version' = version + 1 /\ UNCHANGED <<splits, spent, income>>
      /\ quantity' = quantity - q /\ lots' = AfterSell(q, p) /\ cost' = LotsCost(lots')
      /\ realized' = realized + Realized(q, p) /\ proceeds' = proceeds + q * p
  BY DEF Sell, Bump
<1>2. /\ wasShort' \in BOOLEAN
      /\ ~wasShort' => ~wasShort /\ ~(q > SoldTotal(q))
  BY Zenon DEF Sell
<1>3. version' \in Nat /\ splits' \in 0..MaxSplits
  BY <1>1 DEF AggregateInv
<1> SUFFICES ASSUME ~wasShort, ~(q > SoldTotal(q)) PROVE LongLots' /\ Sums' /\ PartlySold'
  BY <1>2, <1>3 DEF AggregateInv
<1>4. version \in Nat /\ splits \in 0..MaxSplits /\ LongLots /\ Sums /\ PartlySold
  BY DEF AggregateInv
<1>5. lots' = Reduced(q)
  BY <1>1 DEF AfterSell
<1> DEFINE D == DOMAIN lots
           K == {j \in D : lots[j].qty - Sold(q, j) > 0}
           s == [k \in D |-> Sold(q, k)]
           f == [k \in D |-> lots[k].qty]
           g == [k \in D |-> lots[k].qty - Sold(q, k)]
<1>6. IsFiniteSet(D) /\ IsFiniteSet(K) /\ K \in SUBSET D
      /\ \A k \in D : k \in 1..version
  BY <1>4, LotsFinite, FS_Subset
<1>7. ASSUME NEW k \in D
      PROVE  /\ lots[k].qty \in Nat \ {0} /\ Sold(q, k) \in Nat /\ Sold(q, k) <= lots[k].qty
             /\ lots[k] \in LotRows /\ lots[k].price \in Nat \ {0}
             /\ lots[k].qty - Sold(q, k) \in Nat
  <2>1. lots[k].qty \in Nat \ {0} /\ Sold(q, k) \in 0..lots[k].qty
    BY <1>0, <1>4, SoldFromLot
  <2>2. lots[k] \in LotRows
    BY <1>4 DEF LongLots
  <2> QED
    BY <2>1, <2>2 DEF LotRows
<1>8. ASSUME NEW k \in K
      PROVE  /\ lots'[k] = [lots[k] EXCEPT !.qty = lots[k].qty - Sold(q, k)]
             /\ lots'[k].qty = lots[k].qty - Sold(q, k) /\ lots'[k].price = lots[k].price
             /\ lots'[k].orig = lots[k].orig /\ lots'[k] \in LotRows
             /\ lots'[k].qty \in Nat \ {0}
  <2>1. lots'[k] = [lots[k] EXCEPT !.qty = lots[k].qty - Sold(q, k)]
    BY <1>5 DEF Reduced
  <2>2. lots[k] \in LotRows /\ lots[k].qty - Sold(q, k) \in Nat \ {0}
    BY <1>7
  <2> HIDE DEF K
  <2> QED
    BY <2>1, <2>2 DEF LotRows
<1>9. DOMAIN lots' = K
  BY <1>5 DEF Reduced
<1>10. SoldTotal(q) = q
  <2>1. SoldTotal(q) = Least(q, LotsQty(lots))
    BY <1>0, <1>4, SoldInAll
  <2>2. LotsQty(lots) \in Int
    BY <1>4 DEF Sums
  <2> QED
    BY <1>0, <2>1, <2>2 DEF Least
<1>11. ASSUME NEW k \in D \ K PROVE lots[k].qty - Sold(q, k) = 0
  BY <1>7
<1>12. SumFunctionOnSet(s, D) = q
  BY <1>10 DEF SoldTotal, SumFunction
<1> HIDE DEF D, K
<1>13. LotsQty(lots') = LotsQty(lots) - q
  <2> DEFINE h == [k \in K |-> lots'[k].qty]
  <2>1. SumFunctionOnSet(g, D) = SumFunctionOnSet(f, D) - SumFunctionOnSet(s, D)
    <3>1. \A x \in D : f[x] \in Int /\ s[x] \in Int /\ g[x] = f[x] - s[x]
      BY <1>7
    <3> HIDE DEF f, s, g
    <3> QED
      BY <1>6, <3>1, SumMinus
  <2>2. SumFunctionOnSet(g, D) = SumFunctionOnSet(g, K)
    <3>1. /\ \A x \in D : g[x] \in Int
          /\ \A x \in D \ K : g[x] = 0
      BY <1>7, <1>11
    <3> HIDE DEF g
    <3> QED
      BY <1>6, <3>1, SumDrop
  <2>3. SumFunctionOnSet(g, K) = SumFunctionOnSet(h, K)
    <3>1. \A x \in K : g[x] = h[x]
      BY <1>6, <1>8
    <3> HIDE DEF g, h
    <3> QED
      BY <1>6, <3>1, SumSame
  <2>4. LotsQty(lots) = SumFunctionOnSet(f, D)
    BY DEF LotsQty, SumFunction, D
  <2>5. LotsQty(lots') = SumFunctionOnSet(h, K)
    BY <1>9 DEF LotsQty, SumFunction
  <2> HIDE DEF f, g, s, h
  <2> QED
    BY <1>12, <2>1, <2>2, <2>3, <2>4, <2>5
<1> DEFINE c == [k \in D |-> Abs(lots[k].qty) * lots[k].price]
           e == [k \in D |-> Sold(q, k) * lots[k].price]
           m == [k \in D |-> Sold(q, k) * p]
<1>14. \A x, y \in Int : x * y \in Int
  BY ONLY TRUE
<1>15. ASSUME NEW x \in D
       PROVE  /\ c[x] = lots[x].qty * lots[x].price /\ c[x] \in Int
              /\ e[x] \in Int /\ m[x] \in Int
              /\ m[x] = p * s[x] /\ s[x] \in Int
  <2>1. Abs(lots[x].qty) = lots[x].qty
    BY <1>7 DEF Abs
  <2>2. lots[x].qty * lots[x].price \in Int /\ Sold(q, x) * lots[x].price \in Int
        /\ Sold(q, x) * p \in Int
    BY <1>0, <1>7, <1>14
  <2>3. ASSUME NEW y \in Nat, NEW z \in Nat PROVE y * z = z * y
    BY ONLY TRUE, y \in Nat, z \in Nat
  <2>4. Sold(q, x) * p = p * Sold(q, x)
    BY <1>0, <1>7, <2>3
  <2> QED
    BY <1>7, <2>1, <2>2, <2>4
<1>16. SumFunctionOnSet(c, D) \in Int /\ SumFunctionOnSet(e, D) \in Int
  <2> HIDE DEF c, e, m, s
  <2> QED
    BY <1>6, <1>15, SumInt
<1>17. LotsCost(lots) = SumFunctionOnSet(c, D)
  BY DEF LotsCost, SumFunction, D
<1>18. LotsCost(lots') = LotsCost(lots) - SumFunctionOnSet(e, D)
  <2> DEFINE d == [k \in D |-> (lots[k].qty - Sold(q, k)) * lots[k].price]
             h == [k \in K |-> Abs(lots'[k].qty) * lots'[k].price]
  <2>1. ASSUME NEW x \in D PROVE d[x] = c[x] - e[x] /\ d[x] \in Int
    <3>1. d[x] = (lots[x].qty - Sold(q, x)) * lots[x].price
          /\ c[x] = lots[x].qty * lots[x].price /\ e[x] = Sold(q, x) * lots[x].price
      BY <1>15
    <3>2. ASSUME NEW y \in Int, NEW z \in Int, NEW w \in Int PROVE (y - z) * w = y * w - z * w
      BY ONLY y \in Int, z \in Int, w \in Int
    <3>3. (lots[x].qty - Sold(q, x)) * lots[x].price
             = lots[x].qty * lots[x].price - Sold(q, x) * lots[x].price
      BY <1>7, <3>2
    <3>4. (lots[x].qty - Sold(q, x)) * lots[x].price \in Int
      BY <1>7, <1>14
    <3> HIDE DEF d, c, e
    <3> QED
      BY <3>1, <3>3, <3>4
  <2>2. ASSUME NEW x \in D \ K PROVE d[x] = 0
    <3>1. d[x] = (lots[x].qty - Sold(q, x)) * lots[x].price
      OBVIOUS
    <3>2. lots[x].qty - Sold(q, x) = 0 /\ lots[x].price \in Int
      BY <1>7, <1>11
    <3>3. \A y \in Int : 0 * y = 0
      BY ONLY TRUE
    <3> HIDE DEF d
    <3> QED
      BY <3>1, <3>2, <3>3
  <2>3. ASSUME NEW x \in K PROVE d[x] = h[x]
    <3>1. x \in D
      BY <1>6
    <3>2. lots'[x].qty \in Nat
      BY <1>8
    <3>3. Abs(lots'[x].qty) = lots'[x].qty
      BY <3>2 DEF Abs
    <3> QED
      BY <1>8, <3>1, <3>3
  <2>4. LotsCost(lots') = SumFunctionOnSet(h, K)
    BY <1>9 DEF LotsCost, SumFunction
  <2> HIDE DEF c, e, d, h
  <2>5. SumFunctionOnSet(d, D) = SumFunctionOnSet(c, D) - SumFunctionOnSet(e, D)
    BY <1>6, <1>15, <2>1, SumMinus
  <2>6. SumFunctionOnSet(d, D) = SumFunctionOnSet(d, K)
    BY <1>6, <2>1, <2>2, SumDrop
  <2>7. SumFunctionOnSet(d, K) = SumFunctionOnSet(h, K)
    BY <1>6, <2>3, SumSame
  <2> QED
    BY <1>17, <2>4, <2>5, <2>6, <2>7
<1>19. Realized(q, p) = q * p - SumFunctionOnSet(e, D)
  <2> DEFINE r == [k \in D |-> Sold(q, k) * (p - lots[k].price)]
  <2>1. ASSUME NEW x \in D PROVE r[x] = m[x] - e[x]
    <3>1. r[x] = Sold(q, x) * (p - lots[x].price) /\ m[x] = Sold(q, x) * p
          /\ e[x] = Sold(q, x) * lots[x].price
      OBVIOUS
    <3>2. ASSUME NEW y \in Int, NEW z \in Int, NEW w \in Int PROVE y * (z - w) = y * z - y * w
      BY ONLY y \in Int, z \in Int, w \in Int
    <3>3. Sold(q, x) * (p - lots[x].price) = Sold(q, x) * p - Sold(q, x) * lots[x].price
      BY <1>0, <1>7, <3>2
    <3> HIDE DEF r, m, e
    <3> QED
      BY <3>1, <3>3
  <2>2. Realized(q, p) = SumFunctionOnSet(r, D)
    BY DEF Realized, SumFunction, D
  <2> HIDE DEF r, m, e, s
  <2>3. SumFunctionOnSet(r, D) = SumFunctionOnSet(m, D) - SumFunctionOnSet(e, D)
    BY <1>6, <1>15, <2>1, SumMinus
  <2>4. SumFunctionOnSet(m, D) = p * SumFunctionOnSet(s, D)
    <3>1. p \in Int
      BY <1>0
    <3>2. \A x \in D : s[x] \in Int /\ m[x] = p * s[x]
      BY <1>15
    <3> QED
      BY <1>6, <3>1, <3>2, SumScale
  <2>5. p * q = q * p
    BY <1>0
  <2> QED
    BY <1>12, <2>2, <2>3, <2>4, <2>5
<1> HIDE DEF c, e, m, s, f, g
<1>20. LongLots'
  <2>1. K \subseteq 1..version'
    <3>1. ASSUME NEW k \in K PROVE k \in 1..version'
      BY <1>1, <1>4, <1>6
    <3> QED
      BY <3>1
  <2>2. ASSUME NEW k \in K PROVE Exact(lots'[k].price, MaxSplits - splits')
    BY <1>1, <1>4, <1>6, <1>8 DEF LongLots, D
  <2>3. \A k \in K : lots'[k] \in LotRows
    BY <1>8
  <2> QED
    BY <1>9, <2>1, <2>2, <2>3 DEF LongLots, Exact, Quotients
<1>21. Sums'
  <2>1. /\ quantity \in Int /\ cost \in Int /\ realized \in Int
        /\ spent \in Int /\ proceeds \in Int /\ income \in Int
        /\ realized = proceeds - spent + cost + income
        /\ quantity = LotsQty(lots) /\ cost = LotsCost(lots)
    BY <1>4 DEF Sums
  <2>2. PICK x \in Int : x = q * p
    BY <1>0
  <2>3. PICK y \in Int : y = SumFunctionOnSet(e, D)
    BY <1>16
  <2>4. /\ cost' = cost - y /\ realized' = realized + (x - y) /\ proceeds' = proceeds + x
        /\ spent' = spent /\ income' = income
    BY <1>1, <1>18, <1>19, <2>1, <2>2, <2>3
  <2>5. realized' = proceeds' - spent' + cost' + income'
    BY <2>1, <2>4
  <2>6. /\ quantity' \in Int /\ cost' \in Int /\ realized' \in Int
        /\ spent' \in Int /\ proceeds' \in Int /\ income' \in Int
    BY <1>0, <1>1, <2>1, <2>4
  <2>7. quantity' = LotsQty(lots') /\ cost' = LotsCost(lots')
    BY <1>1, <1>13, <2>1
  <2> QED
    BY <2>5, <2>6, <2>7 DEF Sums, LotsQty, LotsCost
<1>22. PartlySold'
  <2> SUFFICES ASSUME NEW j \in K, NEW k \in K, j < k PROVE lots'[k].qty = lots'[k].orig
    BY <1>9 DEF PartlySold
  <2>1. j \in D /\ k \in D /\ lots[k].qty = lots[k].orig
    BY <1>4, <1>6 DEF PartlySold, D
  <2>2. Sold(q, j) < lots[j].qty
    BY <1>7, <2>1 DEF K
  <2>3. Sold(q, k) = 0
    BY <1>0, <1>4, <2>1, <2>2, SoldInOrder DEF D
  <2>4. lots'[k].qty = lots[k].qty - 0 /\ lots'[k].orig = lots[k].orig /\ lots[k].qty \in Nat
    BY <1>7, <1>8, <2>1, <2>3
  <2> QED
    BY <2>1, <2>4
<1> QED
  BY <1>20, <1>21, <1>22

\* The invariant holds from event to event.
LEMMA AggregateSteps == AggregateInv /\ [AggregateNext]_aggregateVars => AggregateInv'
<1> SUFFICES ASSUME AggregateInv, [AggregateNext]_aggregateVars PROVE AggregateInv'
  OBVIOUS
<1>1. CASE AggregateNext
  BY <1>1, BuyStep, SellStep, SplitStep, DividendStep DEF AggregateNext
<1>2. CASE UNCHANGED aggregateVars
  BY <1>2, Zenon DEF aggregateVars, AggregateInv, LongLots, Sums, PartlySold, LotsQty, LotsCost
<1> QED
  BY <1>1, <1>2

\* However buys, partial sells and splits are mixed, the lots of a position that was
\* never short add up to its quantity.
THEOREM LotsFollowPosition == AggregateSpec => []LotsCarryPosition
<1>1. AggregateInv => LotsCarryPosition
  BY DEF AggregateInv, Sums, LotsCarryPosition
<1> QED
  BY <1>1, AggregateStarts, AggregateSteps, PTL DEF AggregateSpec

\* No P&L is made or lost by the matching of _apply_sell, whatever the prices, the lots
\* and the splits: realized P&L is cash in, minus cash out, plus the cost of the open lots.
THEOREM PnlIsConserved == AggregateSpec => []PnlConserved
<1>1. AggregateInv => PnlConserved
  BY DEF AggregateInv, Sums, PnlConserved
<1> QED
  BY <1>1, AggregateStarts, AggregateSteps, PTL DEF AggregateSpec

\* _apply_sell takes the lots in the order they were opened: all but the oldest are whole.
THEOREM OldestLotFirst == AggregateSpec => []FifoMatching
<1>1. AggregateInv => FifoMatching
  BY DEF AggregateInv, PartlySold, FifoMatching
<1> QED
  BY <1>1, AggregateStarts, AggregateSteps, PTL DEF AggregateSpec
=============================================================================
