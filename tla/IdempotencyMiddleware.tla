------------------------ MODULE IdempotencyMiddleware ------------------------
(***************************************************************************)
(* app/middleware/idempotency.py: requests that carry the same             *)
(* Idempotency-Key, and the cached response and the processing lock that   *)
(* Redis keeps for that key.  The routed handler is an effect that is      *)
(* either done or not; a response is the number of the effect it reports.  *)
(***************************************************************************)
EXTENDS Integers, FiniteSets

CONSTANTS
  Requests,     \* requests with the key: the first one and its retries
  MaxKeyFaults  \* bound on crashes, raising handlers, failing calls of Redis
                \* and expiries of the lock in flight

ASSUME IdemAssumption == MaxKeyFaults \in Nat

VARIABLES
  stage,      \* per request: where it is in __call__
  cache,      \* the cached response, 0 when there is none
  lock,       \* the lock key exists
  effects,    \* executions of the handler
  mine,       \* per request: the effect it ran, 0 when it ran none
  reply,      \* per request: 0 none yet, -1 a 409, -2 an error, or an effect
  expired,    \* history: the effects whose cached response expired
  overlap,    \* history: two requests were in flight together
  keyFaults

keyVars == <<stage, cache, lock, effects, mine, reply, expired, overlap, keyFaults>>

InFlight == {r \in Requests : stage[r] \notin {"new", "done", "dead"}}

KeyTypeOK ==
  /\ stage \in [Requests -> {"new", "lock", "run", "store", "unlock", "done", "dead"}]
  /\ cache \in 0..effects
  /\ lock \in BOOLEAN
  /\ effects \in 0..Cardinality(Requests)
  /\ mine \in [Requests -> 0..effects]
  /\ reply \in [Requests -> -2..effects]
  /\ expired \subseteq 1..effects
  /\ overlap \in BOOLEAN
  /\ keyFaults \in 0..MaxKeyFaults
  /\ \A r \in Requests : stage[r] = "store" => mine[r] # 0

KeyInit ==
  /\ stage = [r \in Requests |-> "new"]
  /\ cache = 0 /\ lock = FALSE
  /\ effects = 0
  /\ mine = [r \in Requests |-> 0]
  /\ reply = [r \in Requests |-> 0]
  /\ expired = {}
  /\ overlap = FALSE
  /\ keyFaults = 0

Goto(r, at) == stage' = [stage EXCEPT ![r] = at]

Answer(r, a) == reply' = [reply EXCEPT ![r] = a]

KeyFault == keyFaults < MaxKeyFaults /\ keyFaults' = keyFaults + 1

-----------------------------------------------------------------------------
\* 1. GET of the cached response: a hit is the answer.
Get(r) ==
  /\ stage[r] = "new"
  /\ overlap' = (overlap \/ InFlight # {})
  /\ IF cache # 0
       THEN Goto(r, "done") /\ Answer(r, cache)
       ELSE Goto(r, "lock") /\ UNCHANGED reply
  /\ UNCHANGED <<cache, lock, effects, mine, expired, keyFaults>>

\* SET without NX.
LockAnyway == TRUE

\* SET NX succeeds.
LockFree == ~lock

\* 2. SET NX of the lock.
Acquire(r) ==
  /\ stage[r] = "lock"
  /\ LockFree
  /\ lock' = TRUE
  /\ Goto(r, "run")
  /\ UNCHANGED <<cache, effects, mine, reply, expired, overlap, keyFaults>>

Conflict(r) ==
  /\ stage[r] = "lock"
  /\ ~LockFree
  /\ Goto(r, "done")
  /\ Answer(r, -1)
  /\ UNCHANGED <<cache, lock, effects, mine, expired, overlap, keyFaults>>

\* 3. The handler runs; _ResponseCapture forwards the response at once.
Handle(r) ==
  /\ stage[r] = "run"
  /\ effects' = effects + 1
  /\ mine' = [mine EXCEPT ![r] = effects + 1]
  /\ Answer(r, effects + 1)
  /\ Goto(r, "store")
  /\ UNCHANGED <<cache, lock, expired, overlap, keyFaults>>

\* The handler raises, before or after its effect: nothing is cached.
HandlerRaises(r) ==
  /\ stage[r] = "run"
  /\ KeyFault
  /\ \/ effects' = effects + 1 /\ mine' = [mine EXCEPT ![r] = effects + 1]
     \/ UNCHANGED <<effects, mine>>
  /\ Answer(r, -2)
  /\ Goto(r, "unlock")
  /\ UNCHANGED <<cache, lock, expired, overlap>>

\* The response is not stored.
NotStored(r) == cache

Stored(r) == mine[r]

\* SET of the response, with a time to live of _TTL_SECONDS.
Store(r) ==
  /\ stage[r] = "store"
  /\ cache' = Stored(r)
  /\ Goto(r, "unlock")
  /\ UNCHANGED <<lock, effects, mine, reply, expired, overlap, keyFaults>>

\* finally: DEL of the lock, whoever holds it now.
Unlock(r) ==
  /\ stage[r] = "unlock"
  /\ lock' = FALSE
  /\ Goto(r, "done")
  /\ UNCHANGED <<cache, effects, mine, reply, expired, overlap, keyFaults>>

\* A call of Redis raises, before or after Redis did what it asks for: GET and
\* SET NX end the request, SET of the response goes on to the finally clause.
RedisFails(r) ==
  /\ KeyFault
  /\ \/ /\ stage[r] \in {"new", "lock"}
        /\ lock' \in {lock, lock \/ stage[r] = "lock"}
        /\ Goto(r, "done")
        /\ Answer(r, -2)
        /\ UNCHANGED cache
     \/ /\ stage[r] = "store"
        /\ cache' \in {cache, Stored(r)}
        /\ Goto(r, "unlock")
        /\ UNCHANGED <<lock, reply>>
     \/ /\ stage[r] = "unlock"
        /\ lock' \in {lock, FALSE}
        /\ Goto(r, "done")
        /\ UNCHANGED <<cache, reply>>
  /\ UNCHANGED <<effects, mine, expired, overlap>>

-----------------------------------------------------------------------------
Holding == {r \in Requests : stage[r] \in {"run", "store", "unlock"}}

\* A lock without a time to live.
NoExpiry == FALSE /\ UNCHANGED keyVars

\* The lock of a dead process expires after _LOCK_TTL_SECONDS.
Expire ==
  /\ lock
  /\ Holding = {}
  /\ lock' = FALSE
  /\ UNCHANGED <<stage, cache, effects, mine, reply, expired, overlap, keyFaults>>

\* The lock expires under a handler that takes longer than that.
ExpireInFlight ==
  /\ lock
  /\ Holding # {}
  /\ KeyFault
  /\ lock' = FALSE
  /\ UNCHANGED <<stage, cache, effects, mine, reply, expired, overlap>>

\* The cached response expires, _TTL_SECONDS after it was stored.
CacheExpires ==
  /\ cache # 0
  /\ cache' = 0
  /\ expired' = expired \cup {cache}
  /\ UNCHANGED <<stage, lock, effects, mine, reply, overlap, keyFaults>>

\* The process of a request dies.
RequestDies(r) ==
  /\ r \in InFlight
  /\ KeyFault
  /\ Goto(r, "dead")
  /\ UNCHANGED <<cache, lock, effects, mine, reply, expired, overlap>>

Serve(r) ==
  \/ Get(r) \/ Acquire(r) \/ Conflict(r) \/ Handle(r) \/ Store(r) \/ Unlock(r)

KeyNext ==
  \/ \E r \in Requests : Serve(r) \/ HandlerRaises(r) \/ RedisFails(r) \/ RequestDies(r)
  \/ Expire \/ ExpireInFlight \/ CacheExpires

KeySpec == KeyInit /\ [][KeyNext]_keyVars

\* A request that was received is served to its end, and Redis expires keys.
FairKeySpec ==
  /\ KeySpec
  /\ \A r \in Requests : WF_keyVars(stage[r] # "new" /\ Serve(r))
  /\ WF_keyVars(Expire)

-----------------------------------------------------------------------------
\* Without faults at most one of the requests with the key is in the handler.
OneInHandler == keyFaults = 0 => \A r, s \in Holding : r = s

\* When no two requests are in the middleware together and nothing fails, the
\* handler runs again only after the cached response of its run before expired
\* (24 hours), and until then every request gets the answer of that run: none
\* is refused, and what is cached is the answer to the latest run.
RetryIsReplayed ==
  (~overlap /\ keyFaults = 0) =>
     /\ 1..(effects - 1) \subseteq expired
     /\ cache \in {0, effects}
     /\ \A r \in Requests : reply[r] \in 0..effects

\* The lock never outlives its holder for good: a key is not blocked by a
\* process that died with the lock.
LockIsFreed == lock ~> ~lock
=============================================================================
