-------------------------- MODULE CashLedgerProofs --------------------------
(***************************************************************************)
(* What is booked when, for any number of trades, settlement runs, capital *)
(* requests, retries and failures: a settlement is marked only after its   *)
(* journal entry, cash follows the capital transaction that it is for, the *)
(* capital of orderly requests is carried on, and the balance row is what  *)
(* the journal and the pending flows add up to until a write is lost.      *)
(***************************************************************************)
EXTENDS CashLedger, SumTheorems, TLAPS

Types ==
  /\ journal \in [References -> Nat]
  /\ status \in [Settlements -> {"none", "pending", "settled"}]
  /\ txns \subseteq Requests
  /\ pc \in [Actors -> {"idle", "account", "transaction", "read", "write",
                        "journal", "settle", "done", "refused", "failed"}]
  /\ at \in [Actors -> References \cup {None}]
  /\ due \in [Batches -> SUBSET Settlements]
  /\ delivered \in Nat

\* A batch books settlements, and it has booked the one that it will mark.
BatchInv ==
  \A b \in Batches :
    /\ pc[b] \in {"idle", "read", "write", "journal", "settle"}
    /\ pc[b] # "idle" => at[b] \in Settlements
    /\ pc[b] = "settle" => journal[at[b]] >= 1

\* The handler of trades writes no journal.
HandlerInv == pc[Handler] \in {"idle", "read", "write"}

\* A request books its own transaction, once and as its last step.
RequestInv ==
  \A r \in Requests :
    /\ pc[r] # "settle"
    /\ pc[r] \in {"read", "write", "journal"} => at[r] = r
    /\ pc[r] \in {"read", "write", "journal", "done"} => r \in txns
    /\ r \in txns \/ pc[r] = "transaction" => \E x \in account : x.of = r
    /\ journal[r] = IF pc[r] = "done" THEN 1 ELSE 0

LedgerInv == Types /\ BatchInv /\ HandlerInv /\ RequestInv /\ SettledIsBooked

-----------------------------------------------------------------------------
\* The calls that an actor can be at.
PCs == {"idle", "account", "transaction", "read", "write",
        "journal", "settle", "done", "refused", "failed"}

\* The empty ledger satisfies the invariant.
LEMMA InitLedger == Init => LedgerInv
<1> SUFFICES ASSUME Init PROVE LedgerInv
  OBVIOUS
<1>1. Types
  BY DEF Init, Types
<1>2. BatchInv /\ HandlerInv
  BY DEF Init, BatchInv, HandlerInv, Actors
<1>3. RequestInv /\ SettledIsBooked
  BY DEF Init, RequestInv, SettledIsBooked, Actors, References
<1> QED
  BY <1>1, <1>2, <1>3 DEF LedgerInv

\* An actor that reads or writes the balance row.
LEMMA RowSteps ==
  ASSUME LedgerInv, NEW a \in Actors, ReadRow(a) \/ WriteRow(a)
  PROVE  LedgerInv'
<1> USE DEF LedgerInv
<1>1. /\ UNCHANGED <<journal, status, account, txns, due, delivered>>
      /\ \/ pc[a] = "read" /\ pc' = [pc EXCEPT ![a] = "write"] /\ at' = at
         \/ /\ pc[a] = "write" /\ a = Handler
            /\ pc' = [pc EXCEPT ![a] = "idle"] /\ at' = [at EXCEPT ![a] = None]
         \/ /\ pc[a] = "write" /\ a # Handler
            /\ pc' = [pc EXCEPT ![a] = "journal"] /\ at' = at
  BY DEF ReadRow, WriteRow, Goto, cash, capital, history
<1>2. Types'
  BY <1>1 DEF Types
<1>3. BatchInv' /\ HandlerInv'
  BY <1>1, NamesAssumption DEF Types, BatchInv, HandlerInv, Actors
<1>4. RequestInv'
  BY <1>1, NamesAssumption DEF Types, RequestInv, Actors
<1>5. SettledIsBooked'
  BY <1>1 DEF SettledIsBooked
<1> QED
  BY <1>2, <1>3, <1>4, <1>5

\* A journal entry of a batch or of a request.
LEMMA JournalStep ==
  ASSUME LedgerInv, NEW a \in Actors, Journal(a)
  PROVE  LedgerInv'
<1> USE DEF LedgerInv
<1>1. /\ pc[a] = "journal"
      /\ UNCHANGED <<status, account, txns, at, due, delivered>>
      /\ journal' = [journal EXCEPT ![at[a]] = @ + 1]
      /\ pc' = [pc EXCEPT ![a] = IF a \in Requests THEN "done" ELSE "settle"]
  BY DEF Journal, Goto, capital
<1>2. a # Handler
  BY <1>1 DEF HandlerInv
<1>3. \/ a \in Requests /\ a \notin Batches /\ at[a] = a
      \/ a \in Batches /\ a \notin Requests /\ at[a] \in Settlements
  BY <1>1, <1>2, CashAssumption DEF Actors, RequestInv, BatchInv
<1>4. at[a] \in References
  BY <1>3 DEF References
<1>5. /\ journal' \in [References -> Nat]
      /\ journal'[at[a]] = journal[at[a]] + 1
      /\ \A f \in References : f # at[a] => journal'[f] = journal[f]
      /\ \A f \in References : journal'[f] >= journal[f]
  BY <1>1, <1>4 DEF Types
<1>6. Types'
  BY <1>1, <1>5 DEF Types
<1>7. BatchInv'
  BY <1>1, <1>3, <1>5 DEF BatchInv, Types, Actors, References
<1>8. HandlerInv'
  BY <1>1, <1>2 DEF HandlerInv, Types, Actors
<1>9. RequestInv'
  <2>1. ASSUME a \in Batches PROVE RequestInv'
    BY <1>1, <1>3, <1>5, <2>1, CashAssumption, NamesAssumption
       DEF RequestInv, Types, Actors, References
  <2>2. ASSUME a \in Requests PROVE RequestInv'
    BY <1>1, <1>3, <1>5, <2>2 DEF RequestInv, Types, Actors, References
  <2> QED
    BY <1>3, <2>1, <2>2
<1>10. SettledIsBooked'
  BY <1>1, <1>5 DEF SettledIsBooked, Types, References
<1> QED
  BY <1>6, <1>7, <1>8, <1>9, <1>10

\* The handler and the batches: settlements are inserted, listed and marked.
LEMMA SettlementSteps ==
  ASSUME LedgerInv,
         \/ \E t \in Trades : InsertSettlement(t)
         \/ \E b \in Batches : (\E asOf \in Trades : StartBatch(b, asOf)) \/ Settle(b)
         \/ \E s \in Settlements : RetrySettlement(s)
  PROVE  LedgerInv'
<1> USE DEF LedgerInv
<1>1. ASSUME NEW t \in Trades, InsertSettlement(t) PROVE LedgerInv'
  <2> DEFINE s == [trade |-> t, delivery |-> delivered + 1]
  <2>1. s \in Settlements
    BY <1>1, CashAssumption DEF InsertSettlement, Settlements, Types
  <2>2. /\ UNCHANGED <<journal, account, txns, due>>
        /\ status' = [status EXCEPT ![s] = "pending"]
        /\ at' = [at EXCEPT ![Handler] = s]
        /\ pc' = [pc EXCEPT ![Handler] = "read"]
        /\ delivered' = delivered + 1
    BY <1>1 DEF InsertSettlement, Goto, capital
  <2> HIDE DEF s
  <2>3. Types'
    BY <2>1, <2>2 DEF Types, Actors, References
  <2>4. BatchInv' /\ HandlerInv' /\ RequestInv'
    BY <2>2, NamesAssumption DEF Types, BatchInv, HandlerInv, RequestInv, Actors
  <2>5. SettledIsBooked'
    BY <2>1, <2>2 DEF SettledIsBooked, Types
  <2> QED
    BY <2>3, <2>4, <2>5
<1>2. ASSUME NEW b \in Batches, NEW list \in SUBSET Settlements, Take(b, list),
             UNCHANGED <<journal, account, txns, delivered>>,
             status' \in [Settlements -> {"none", "pending", "settled"}],
             SettledIsBooked'
      PROVE  LedgerInv'
  <2>1. /\ \/ pc' = [pc EXCEPT ![b] = "idle"] /\ at' = [at EXCEPT ![b] = None]
           \/ \E s \in Settlements :
                pc' = [pc EXCEPT ![b] = "read"] /\ at' = [at EXCEPT ![b] = s]
        /\ \/ due' = due
           \/ \E s \in Settlements : due' = [due EXCEPT ![b] = list \ {s}]
    BY <1>2 DEF Take, Goto
  <2>2. Types'
    BY <1>2, <2>1 DEF Types, Actors, References
  <2>3. BatchInv'
    BY <1>2, <2>1 DEF Types, BatchInv, Actors
  <2>4. HandlerInv' /\ RequestInv'
    BY <1>2, <2>1, CashAssumption, NamesAssumption
       DEF Types, HandlerInv, RequestInv, Actors
  <2> QED
    BY <1>2, <2>2, <2>3, <2>4
<1>3. ASSUME NEW b \in Batches, NEW asOf \in Trades, StartBatch(b, asOf) PROVE LedgerInv'
  <2>1. Due(asOf) \in SUBSET Settlements
    BY DEF Due
  <2>2. Take(b, Due(asOf)) /\ UNCHANGED <<journal, status, account, txns, delivered>>
    BY <1>3 DEF StartBatch, cash, capital
  <2>3. SettledIsBooked'
    BY <2>2 DEF SettledIsBooked
  <2> QED
    BY <1>2, <2>1, <2>2, <2>3 DEF Types
<1>4. ASSUME NEW b \in Batches, Settle(b) PROVE LedgerInv'
  <2>1. /\ pc[b] = "settle" /\ Take(b, due[b])
        /\ status' = [status EXCEPT ![at[b]] = "settled"]
        /\ UNCHANGED <<journal, account, txns, delivered>>
    BY <1>4 DEF Settle, capital
  <2>2. at[b] \in Settlements /\ journal[at[b]] >= 1
    BY <2>1 DEF BatchInv
  <2>3. SettledIsBooked'
    BY <2>1, <2>2 DEF SettledIsBooked, Types
  <2>4. status' \in [Settlements -> {"none", "pending", "settled"}]
    BY <2>1 DEF Types
  <2>5. due[b] \in SUBSET Settlements
    BY DEF Types
  <2> QED
    BY <1>2, <2>1, <2>3, <2>4, <2>5
<1>5. ASSUME NEW s \in Settlements, RetrySettlement(s) PROVE LedgerInv'
  <2>1. /\ status' = [status EXCEPT ![s] = "pending"]
        /\ UNCHANGED <<journal, account, txns, pc, at, due, delivered>>
    BY <1>5 DEF RetrySettlement, capital
  <2>2. Types' /\ SettledIsBooked'
    BY <2>1 DEF Types, SettledIsBooked
  <2>3. BatchInv' /\ HandlerInv' /\ RequestInv'
    BY <2>1 DEF BatchInv, HandlerInv, RequestInv
  <2> QED
    BY <2>2, <2>3
<1> QED
  BY <1>1, <1>3, <1>4, <1>5

\* A capital request up to its transaction.
LEMMA RequestSteps ==
  ASSUME LedgerInv, NEW r \in Requests,
         \/ \E amount \in (-MaxAmount..MaxAmount) \ {0}, date \in 1..MaxDate :
              ReadAccount(r, amount, date)
         \/ InsertAccount(r) \/ InsertTransaction(r)
  PROVE  LedgerInv'
<1> USE DEF LedgerInv
<1>1. r \notin Batches /\ r # Handler /\ r \in Actors /\ r \in References
  BY CashAssumption, NamesAssumption DEF Actors, References
<1>2. UNCHANGED <<journal, status, due, delivered>>
  BY DEF ReadAccount, InsertAccount, InsertTransaction, cash, history
<1>3. \/ /\ pc[r] = "idle" /\ UNCHANGED <<account, txns, at>>
         /\ pc' = [pc EXCEPT ![r] = "account"] \/ pc' = [pc EXCEPT ![r] = "refused"]
      \/ /\ pc[r] = "account" /\ UNCHANGED <<txns, at>>
         /\ account' = account \cup
              {[date |-> req[r].date, capital |-> base[r] + req[r].amount, of |-> r]}
         /\ pc' = [pc EXCEPT ![r] = "transaction"]
      \/ /\ pc[r] = "transaction" /\ account' = account
         /\ txns' = txns \cup {r} /\ at' = [at EXCEPT ![r] = r]
         /\ pc' = [pc EXCEPT ![r] = "read"]
  <2>1. ASSUME NEW amount, NEW date, ReadAccount(r, amount, date)
        PROVE  /\ pc[r] = "idle" /\ UNCHANGED <<account, txns, at>>
               /\ pc' = [pc EXCEPT ![r] = "account"] \/ pc' = [pc EXCEPT ![r] = "refused"]
    <3> DEFINE held == IF account = {} THEN {0} ELSE {x.capital : x \in Latest}
    <3>1. pc[r] = "idle" /\ UNCHANGED <<account, txns, at>>
      BY <2>1, Zenon DEF ReadAccount
    <3>2. \E h \in held : Goto(r, "account") \/ Goto(r, "refused")
      <4>1. PICK h \in held, priced \in BOOLEAN :
              IF Accepts(account # {}, h, amount, priced)
                THEN /\ base' = [base EXCEPT ![r] = h]
                     /\ req' = [req EXCEPT ![r] = [amount |-> amount, date |-> date]]
                     /\ Goto(r, "account")
                ELSE UNCHANGED <<base, req>> /\ Goto(r, "refused")
        BY <2>1, Zenon DEF ReadAccount
      <4> QED
        BY <4>1, Zenon
    <3> QED
      BY <3>1, <3>2 DEF Goto
  <2>2. ASSUME InsertAccount(r)
        PROVE  /\ pc[r] = "account" /\ UNCHANGED <<txns, at>>
               /\ account' = account \cup
                    {[date |-> req[r].date, capital |-> base[r] + req[r].amount, of |-> r]}
               /\ pc' = [pc EXCEPT ![r] = "transaction"]
    BY <2>2, Zenon DEF InsertAccount, Goto
  <2>3. ASSUME InsertTransaction(r)
        PROVE  /\ pc[r] = "transaction" /\ account' = account
               /\ txns' = txns \cup {r} /\ at' = [at EXCEPT ![r] = r]
               /\ pc' = [pc EXCEPT ![r] = "read"]
    BY <2>3, Zenon DEF InsertTransaction, Goto
  <2> QED
    BY <2>1, <2>2, <2>3, Zenon
<1>4. account \subseteq account' /\ (pc'[r] = "transaction" => \E x \in account' : x.of = r)
  <2> DEFINE new == [date |-> req[r].date, capital |-> base[r] + req[r].amount, of |-> r]
  <2>1. account' = account \/ account' = account \cup {new}
    BY <1>3, Zenon
  <2>2. pc'[r] = "transaction" => new \in account'
    <3>1. pc[r] = "account" \/ pc'[r] # "transaction"
      BY <1>1, <1>3 DEF Types
    <3>2. pc[r] = "account" => account' = account \cup {new}
      BY <1>3
    <3> QED
      BY <3>1, <3>2
  <2>3. new.of = r
    OBVIOUS
  <2> HIDE DEF new
  <2> QED
    BY <2>1, <2>2, <2>3
<1>5. Types'
  BY <1>1, <1>2, <1>3 DEF Types
<1>6. BatchInv' /\ HandlerInv' /\ SettledIsBooked'
  BY <1>1, <1>2, <1>3 DEF Types, BatchInv, HandlerInv, SettledIsBooked, Actors
<1>7. RequestInv'
  <2> SUFFICES ASSUME NEW q \in Requests
               PROVE  /\ pc'[q] # "settle"
                      /\ pc'[q] \in {"read", "write", "journal"} => at'[q] = q
                      /\ pc'[q] \in {"read", "write", "journal", "done"} => q \in txns'
                      /\ q \in txns' \/ pc'[q] = "transaction" =>
                           \E x \in account' : x.of = q
                      /\ journal'[q] = IF pc'[q] = "done" THEN 1 ELSE 0
    BY DEF RequestInv
  <2>1. CASE q = r
    BY <1>1, <1>2, <1>3, <1>4, <2>1 DEF Types, RequestInv, Actors
  <2>2. CASE q # r
    <3>1. /\ pc'[q] = pc[q] /\ at'[q] = at[q] /\ journal'[q] = journal[q]
          /\ q \in txns' <=> q \in txns
      BY <1>1, <1>2, <1>3, <2>2 DEF Types, Actors
    <3> QED
      BY <1>4, <3>1 DEF RequestInv
  <2> QED
    BY <2>1, <2>2
<1> QED
  BY <1>5, <1>6, <1>7

\* An operation that ends early.
LEMMA FailStep ==
  ASSUME LedgerInv, NEW a \in Actors, Fail(a)
  PROVE  LedgerInv'
<1> USE DEF LedgerInv
<1>1. /\ pc[a] \in {"account", "transaction", "read", "write", "journal", "settle"}
      /\ pc' = [pc EXCEPT ![a] = IF a \in Requests THEN "failed" ELSE "idle"]
      /\ at' = [at EXCEPT ![a] = None]
      /\ due' = [b \in Batches |-> IF b = a THEN {} ELSE due[b]]
      /\ UNCHANGED <<journal, status, account, txns, delivered>>
  BY DEF Fail, Goto, cash, capital
<1>2. Types'
  BY <1>1 DEF Types
<1>3. BatchInv' /\ HandlerInv'
  BY <1>1, CashAssumption, NamesAssumption DEF Types, BatchInv, HandlerInv, Actors
<1>4. RequestInv'
  BY <1>1 DEF Types, RequestInv, Actors
<1>5. SettledIsBooked'
  BY <1>1 DEF SettledIsBooked
<1> QED
  BY <1>2, <1>3, <1>4, <1>5

\* Every step keeps the invariant.
LEMMA LedgerStep == LedgerInv /\ [Next]_vars => LedgerInv'
<1> SUFFICES ASSUME LedgerInv, [Next]_vars PROVE LedgerInv'
  OBVIOUS
<1>1. CASE UNCHANGED vars
  BY <1>1 DEF vars, cash, capital, history, LedgerInv, Types, BatchInv, HandlerInv,
              RequestInv, SettledIsBooked
<1>2. CASE Next
  BY <1>2, RowSteps, JournalStep, SettlementSteps, RequestSteps, FailStep DEF Next
<1> QED
  BY <1>1, <1>2

\* The invariant holds in every reachable state.
LEMMA LedgerAlways == Spec => []LedgerInv
<1> QED
  BY InitLedger, LedgerStep, PTL DEF Spec

-----------------------------------------------------------------------------
\* process_due_settlements marks a settlement only after its cash is booked,
\* whichever batches overlap, fail half-way or take it again after
\* retry_settlement.
THEOREM SettlementsAreBooked == Spec => []SettledIsBooked
<1>1. LedgerInv => SettledIsBooked
  BY DEF LedgerInv
<1> QED
  BY <1>1, LedgerAlways, PTL

\* process_subscription and process_redemption book cash once, for a
\* transaction and a snapshot that are there, and before they answer.
THEOREM CashFollows == Spec => []CashFollowsCapital
<1>1. LedgerInv => CashFollowsCapital
  BY DEF LedgerInv, Types, RequestInv, CashFollowsCapital
<1> QED
  BY <1>1, LedgerAlways, PTL

-----------------------------------------------------------------------------
\* The amounts behind some snapshots.
Capital(snapshots, reqs) == SumFunction([y \in snapshots |-> reqs[y.of].amount])

\* A request has one snapshot, of its own date, once it has inserted it.
AccountInv ==
  /\ IsFiniteSet(account)
  /\ \A r \in Requests : req[r].amount \in Int /\ req[r].date \in Nat /\ base[r] \in Int
  /\ req \in [Requests -> [amount : Int, date : Nat]] /\ base \in [Requests -> Int]
  /\ \A x \in account : x.of \in Requests /\ x.date = req[x.of].date /\ x.capital \in Int
  /\ \A x \in account : pc[x.of] \notin {"idle", "account", "refused"}

\* Of orderly requests one at most has read the account and not written it, it
\* read all of the capital, and its date is later than every snapshot's.
CarriedInv ==
  orderly =>
    /\ \A q, r \in Requests : pc[q] = "account" /\ pc[r] = "account" => q = r
    /\ \A r \in Requests : pc[r] = "account" =>
         /\ \A x \in account : x.date < req[r].date
         /\ base[r] = Capital(account, req)
         /\ base[r] + req[r].amount >= 0
    /\ \A x \in Latest : x.capital = Capital(account, req) /\ x.capital >= 0

\* The capital does not depend on requests without a snapshot.
LEMMA CapitalSame ==
  ASSUME NEW A, NEW p, NEW q, \A y \in A : p[y.of].amount = q[y.of].amount
  PROVE  Capital(A, p) = Capital(A, q)
<1>1. [y \in A |-> p[y.of].amount] = [y \in A |-> q[y.of].amount]
  OBVIOUS
<1> QED
  BY <1>1 DEF Capital

\* The capital as a sum over the snapshots.
LEMMA CapitalIsSum ==
  ASSUME NEW A, NEW q
  PROVE  Capital(A, q) = SumFunctionOnSet([y \in A |-> q[y.of].amount], A)
BY DEF Capital, SumFunction

\* A snapshot adds the amount of its request.
LEMMA CapitalAdd ==
  ASSUME NEW A, IsFiniteSet(A), NEW q, \A y \in A : q[y.of].amount \in Int,
         NEW x, x \notin A, q[x.of].amount \in Int
  PROVE  Capital(A \cup {x}, q) = Capital(A, q) + q[x.of].amount
<1> DEFINE f == [y \in A |-> q[y.of].amount]
           B == A \cup {x}
           g == [y \in B |-> q[y.of].amount]
<1>1. (\A y \in A : g[y] = f[y]) /\ g[x] = q[x.of].amount /\ \A y \in B : g[y] \in Int
  OBVIOUS
<1>2. Capital(A, q) = SumFunctionOnSet(f, A) /\ Capital(B, q) = SumFunctionOnSet(g, B)
  BY CapitalIsSum
<1> HIDE DEF f, g
<1>3. SumFunctionOnSet(f, A) = SumFunctionOnSet(g, A)
  BY <1>1, SumSame
<1>4. SumFunctionOnSet(g, B) = g[x] + SumFunctionOnSet(g, A)
  BY <1>1, SumAdd
<1>5. SumFunctionOnSet(g, A) \in Int
  BY <1>1, SumInt
<1> QED
  BY <1>1, <1>2, <1>3, <1>4, <1>5

\* There is no capital at first.
LEMMA InitCapital == Init => AccountInv /\ CarriedInv
<1> SUFFICES ASSUME Init PROVE AccountInv /\ CarriedInv
  OBVIOUS
<1>1. AccountInv
  BY FS_EmptySet DEF Init, AccountInv, NoRequest
<1>2. CarriedInv
  BY DEF Init, CarriedInv, Actors, Latest
<1> QED
  BY <1>1, <1>2

\* Steps that leave the accounts and the requests alone, and start no request.
LEMMA CapitalKept ==
  ASSUME LedgerInv, AccountInv, CarriedInv, UNCHANGED <<account, req, base, orderly>>,
         \A r \in Requests : pc'[r] \in {"idle", "account", "refused"} => pc'[r] = pc[r]
  PROVE  AccountInv' /\ CarriedInv'
<1>1. Latest' = Latest
  BY DEF Latest
<1>2. AccountInv'
  BY DEF AccountInv
<1> QED
  BY <1>1, <1>2 DEF CarriedInv

\* A request reads the account.
LEMMA ReadAccountStep ==
  ASSUME LedgerInv, AccountInv, CarriedInv, NEW r \in Requests,
         NEW amount \in Int, NEW date \in Nat, ReadAccount(r, amount, date)
  PROVE  AccountInv' /\ CarriedInv'
<1> DEFINE held == IF account = {} THEN {0} ELSE {x.capital : x \in Latest}
<1>1. PICK h \in held, priced \in BOOLEAN :
        IF Accepts(account # {}, h, amount, priced)
          THEN /\ base' = [base EXCEPT ![r] = h]
               /\ req' = [req EXCEPT ![r] = [amount |-> amount, date |-> date]]
               /\ pc' = [pc EXCEPT ![r] = "account"]
          ELSE UNCHANGED <<base, req>> /\ pc' = [pc EXCEPT ![r] = "refused"]
  BY Zenon DEF ReadAccount, Goto
<1>2. /\ pc[r] = "idle" /\ account' = account
      /\ orderly' = (orderly /\ \A o \in Requests : req[o].date < date /\ pc[o] # "account")
  BY Zenon DEF ReadAccount
<1>3. r \in Actors /\ \A q \in Requests : q \in Actors
  BY DEF Actors
<1>4. pc \in [Actors -> {"idle", "account", "transaction", "read", "write",
                        "journal", "settle", "done", "refused", "failed"}]
  BY DEF LedgerInv, Types
<1>5. \A x \in account : x.of # r
  BY <1>2 DEF AccountInv
<1>6. Latest' = Latest
  BY <1>2 DEF Latest
<1>7. \A x \in account : x.of \in Requests /\ req'[x.of] = req[x.of] /\ pc'[x.of] = pc[x.of]
  BY <1>1, <1>3, <1>4, <1>5 DEF AccountInv
<1>8. h \in Int
  BY DEF AccountInv, Latest
<1>9. AccountInv'
  <2>1. req' \in [Requests -> [amount : Int, date : Nat]] /\ base' \in [Requests -> Int]
    BY <1>1, <1>8 DEF AccountInv
  <2> QED
    BY <1>2, <1>7, <2>1 DEF AccountInv
<1>10. Capital(account, req') = Capital(account, req)
  BY <1>7, CapitalSame
<1>11. orderly' => h = Capital(account, req) /\ h >= 0
  <2>1. CASE account = {}
    <3>1. Capital(account, req) = 0
      BY <2>1, CapitalIsSum, SumEmpty
    <3> QED
      BY <2>1, <3>1
  <2>2. CASE account # {}
    BY <1>2, <2>2 DEF CarriedInv
  <2> QED
    BY <2>1, <2>2
<1>12. CASE Accepts(account # {}, h, amount, priced)
  <2> SUFFICES ASSUME orderly' PROVE CarriedInv'
    BY <1>9 DEF CarriedInv
  <2>1. orderly /\ \A o \in Requests : req[o].date < date /\ pc[o] # "account"
    BY <1>2
  <2>2. /\ base'[r] = h /\ req'[r].amount = amount /\ req'[r].date = date
        /\ \A q \in Requests : pc'[q] = "account" => q = r
    BY <1>1, <1>3, <1>4, <1>12, <2>1 DEF AccountInv
  <2>3. \A x \in account : x.date < date
    BY <2>1 DEF AccountInv
  <2>4. h + amount >= 0
    BY <1>8, <1>11, <1>12 DEF Accepts
  <2> QED
    BY <1>2, <1>6, <1>10, <1>11, <2>1, <2>2, <2>3, <2>4 DEF CarriedInv
<1>13. CASE ~Accepts(account # {}, h, amount, priced)
  <2>1. /\ UNCHANGED <<base, req, account>> /\ (orderly' => orderly)
        /\ \A q \in Requests : pc'[q] = "account" => pc[q] = "account"
    BY <1>1, <1>2, <1>3, <1>4, <1>13
  <2>2. CarriedInv'
    BY <1>6, <2>1 DEF CarriedInv
  <2> QED
    BY <1>9, <2>2
<1> QED
  BY <1>9, <1>12, <1>13

\* It inserts the snapshot that is the latest from then on.
LEMMA InsertAccountStep ==
  ASSUME LedgerInv, AccountInv, CarriedInv, NEW r \in Requests, InsertAccount(r)
  PROVE  AccountInv' /\ CarriedInv'
<1> DEFINE new == [date |-> req[r].date, capital |-> base[r] + req[r].amount, of |-> r]
<1>1. /\ pc[r] = "account" /\ account' = account \cup {new} /\ base' = [base EXCEPT ![r] = 0]
      /\ pc' = [pc EXCEPT ![r] = "transaction"] /\ UNCHANGED <<req, orderly>>
  BY Zenon DEF InsertAccount, Goto, history
<1>2. new.date = req[r].date /\ new.capital = base[r] + req[r].amount /\ new.of = r
  OBVIOUS
<1> HIDE DEF new
<1>3. pc \in [Actors -> {"idle", "account", "transaction", "read", "write",
                        "journal", "settle", "done", "refused", "failed"}]
      /\ r \in Actors /\ \A q \in Requests : q \in Actors
  BY DEF LedgerInv, Types, Actors
<1>4. new \notin account
  BY <1>1, <1>2 DEF AccountInv
<1>5. req[r].amount \in Int /\ req[r].date \in Nat /\ base[r] \in Int
  BY DEF AccountInv
<1>6. AccountInv'
  <2>1. IsFiniteSet(account')
    BY <1>1, FS_AddElement DEF AccountInv
  <2>2. \A x \in account' : x.of \in Requests /\ x.date = req[x.of].date /\ x.capital \in Int
    BY <1>1, <1>2, <1>5 DEF AccountInv
  <2>3. \A x \in account' : pc'[x.of] \notin {"idle", "account", "refused"}
    BY <1>1, <1>2, <1>3 DEF AccountInv
  <2>4. base' \in [Requests -> Int]
    BY <1>1 DEF AccountInv
  <2> QED
    BY <1>1, <2>1, <2>2, <2>3, <2>4 DEF AccountInv
<1>7. ASSUME orderly PROVE CarriedInv'
  <2>1. \A q \in Requests : pc'[q] # "account"
    BY <1>1, <1>3, <1>7 DEF CarriedInv
  <2>2. Capital(account', req) = Capital(account, req) + req[r].amount
    <3>1. \A y \in account : req[y.of].amount \in Int
      BY DEF AccountInv
    <3>2. IsFiniteSet(account) /\ req[new.of].amount = req[r].amount
      BY <1>2 DEF AccountInv
    <3>3. Capital(account \cup {new}, req) = Capital(account, req) + req[new.of].amount
      BY <1>4, <1>5, <3>1, <3>2, CapitalAdd
    <3> QED
      BY <1>1, <3>2, <3>3
  <2>3. \A x \in Latest' : x = new
    <3>1. \A x \in account : x.date < new.date /\ x.date \in Nat
      BY <1>1, <1>2, <1>7 DEF CarriedInv, AccountInv
    <3>2. \A x \in Latest' : x \in account' /\ x.date >= new.date
      BY <1>1 DEF Latest
    <3> QED
      BY <1>1, <1>2, <1>5, <3>1, <3>2
  <2>4. new.capital = Capital(account', req) /\ new.capital >= 0
    BY <1>1, <1>2, <1>7, <2>2 DEF CarriedInv
  <2> QED
    BY <1>1, <2>1, <2>3, <2>4 DEF CarriedInv
<1> QED
  BY <1>1, <1>6, <1>7 DEF CarriedInv

\* Every step keeps what is carried.
LEMMA CapitalStep ==
  LedgerInv /\ AccountInv /\ CarriedInv /\ [Next]_vars => AccountInv' /\ CarriedInv'
<1> SUFFICES ASSUME LedgerInv, AccountInv, CarriedInv, [Next]_vars
             PROVE  AccountInv' /\ CarriedInv'
  OBVIOUS
<1> DEFINE Done == AccountInv' /\ CarriedInv'
<1>0. /\ pc \in [Actors -> {"idle", "account", "transaction", "read", "write",
                           "journal", "settle", "done", "refused", "failed"}]
      /\ \A r \in Requests : r \in Actors /\ r # Handler /\ r \notin Batches
  BY CashAssumption, NamesAssumption DEF LedgerInv, Types, Actors
<1>1. ASSUME NEW a \in Actors, ReadRow(a) \/ WriteRow(a) \/ Journal(a) \/ Fail(a) PROVE Done
  <2>1. /\ UNCHANGED <<account, req, base, orderly>>
        /\ \E to \in {"write", "idle", "journal", "done", "settle", "failed"} :
             /\ pc' = [pc EXCEPT ![a] = to]
             /\ to = "idle" => a \notin Requests
    <3>1. CASE ReadRow(a)
      BY <3>1 DEF ReadRow, Goto, capital, history
    <3>2. CASE WriteRow(a)
      BY <1>0, <3>2 DEF WriteRow, Goto, capital
    <3>3. CASE Journal(a)
      BY <3>3 DEF Journal, Goto, capital, history
    <3>4. CASE Fail(a)
      BY <3>4 DEF Fail, Goto, capital
    <3> QED
      BY <1>1, <3>1, <3>2, <3>3, <3>4
  <2>2. \A r \in Requests : pc'[r] \in {"idle", "account", "refused"} => pc'[r] = pc[r]
    BY <1>0, <2>1
  <2> QED
    BY <2>1, <2>2, CapitalKept
<1>2. ASSUME NEW t \in Trades, InsertSettlement(t) PROVE Done
  <2>1. UNCHANGED <<account, req, base, orderly>> /\ pc' = [pc EXCEPT ![Handler] = "read"]
    BY <1>2 DEF InsertSettlement, Goto, capital, history
  <2>2. \A r \in Requests : pc'[r] = pc[r]
    BY <1>0, <2>1
  <2> QED
    BY <2>1, <2>2, CapitalKept
<1>3. ASSUME NEW b \in Batches, (\E asOf \in Trades : StartBatch(b, asOf)) \/ Settle(b) PROVE Done
  <2>1. UNCHANGED <<account, req, base, orderly>> /\ \E to : pc' = [pc EXCEPT ![b] = to]
    BY <1>3 DEF StartBatch, Settle, Take, Goto, capital, history
  <2>2. \A r \in Requests : pc'[r] = pc[r]
    BY <1>0, <2>1
  <2> QED
    BY <2>1, <2>2, CapitalKept
<1>4. ASSUME NEW s \in Settlements, RetrySettlement(s) PROVE Done
  BY <1>4, CapitalKept DEF RetrySettlement, capital, history
<1>5. ASSUME NEW r \in Requests, NEW amount \in (-MaxAmount..MaxAmount) \ {0}, NEW date \in 1..MaxDate,
             ReadAccount(r, amount, date)
      PROVE  Done
  <2>1. amount \in Int /\ date \in Nat
    BY CashAssumption
  <2> QED
    BY <1>5, <2>1, ReadAccountStep
<1>6. ASSUME NEW r \in Requests, InsertAccount(r) PROVE Done
  BY <1>6, InsertAccountStep
<1>7. ASSUME NEW r \in Requests, InsertTransaction(r) PROVE Done
  <2>1. UNCHANGED <<account, req, base, orderly>> /\ pc' = [pc EXCEPT ![r] = "read"]
    BY <1>7 DEF InsertTransaction, Goto, history
  <2>2. \A q \in Requests : pc'[q] \in {"idle", "account", "refused"} => pc'[q] = pc[q]
    BY <1>0, <2>1
  <2> QED
    BY <2>1, <2>2, CapitalKept
<1>8. ASSUME UNCHANGED vars PROVE Done
  BY <1>8, CapitalKept DEF vars, capital, history
<1> HIDE DEF Done
<1>9. ASSUME NEW r \in Requests,
             \E amount \in (-MaxAmount..MaxAmount) \ {0}, date \in 1..MaxDate :
               ReadAccount(r, amount, date)
      PROVE  Done
  BY <1>5, <1>9, Zenon
<1>10. ASSUME Next PROVE Done
  BY <1>1, <1>2, <1>3, <1>4, <1>6, <1>7, <1>9, <1>10, Zenon DEF Next
<1>11. Done
  BY <1>8, <1>10
<1> QED
  BY <1>11 DEF Done

\* Orderly capital requests carry every amount on to the latest snapshot, and
\* none takes out more than is there.
THEOREM CapitalIsCarried == Spec => []CapitalCarried
<1>1. CarriedInv => CapitalCarried
  BY DEF CarriedInv, CapitalCarried, Capital
<1> QED
  BY <1>1, InitCapital, CapitalStep, LedgerAlways, PTL DEF Spec

-----------------------------------------------------------------------------
\* The actors that have written the row for a reference and not its journal.
Open(f) == {a \in Actors : pc[a] = "journal" /\ at[a] = f}
\* The row writes for a reference, and what they and the pending flows move.
Written(f) == journal[f] + Unjournaled(f)
Flows == [f \in References |-> Moves(f) * Written(f)]
PendingFlows == [s \in pended |-> SettlementAmount(s)]

\* A request that has not written the row has no write that was cut off, and
\* the handler has not yet written the flow of the settlement that it inserted.
CutInv ==
  /\ cut \in [References -> Nat]
  /\ \A r \in Requests : pc[r] = "idle" => cut[r] = 0
  /\ pended \subseteq Settlements
  /\ \A s \in pended : s.delivery <= delivered
  /\ pc[Handler] # "idle" => /\ at[Handler] \in Settlements \ pended
                             /\ at[Handler].delivery = delivered

\* The row, until a write is lost.
BalanceInv ==
  ~lost =>
    /\ row \in [available : Int, inflow : Int, outflow : Int]
    /\ row.available = SumFunctionOnSet(Flows, References)
    /\ row.inflow - row.outflow = SumFunctionOnSet(PendingFlows, pended)

\* There are finitely many settlements.
LEMMA SettlementsFinite == IsFiniteSet(Settlements)
<1> DEFINE P == (1..NumTrades) \X (1..MaxDeliveries)
           f == [p \in P |-> [trade |-> p[1], delivery |-> p[2]]]
<1>1. IsFiniteSet(P)
  <2>1. IsFiniteSet(1..NumTrades) /\ IsFiniteSet(1..MaxDeliveries)
    BY FS_Interval, CashAssumption
  <2> QED
    BY <2>1, FS_Product
<1>2. \A s \in Settlements : <<s.trade, s.delivery>> \in P /\ f[<<s.trade, s.delivery>>] = s
  BY DEF Settlements, Trades
<1>3. f \in [P -> Settlements]
  BY DEF Settlements, Trades
<1> HIDE DEF P, f
<1>4. f \in Surjection(P, Settlements)
  BY <1>2, <1>3 DEF Surjection
<1> QED
  BY <1>1, <1>4, FS_Surjection

\* There are finitely many references and actors.
LEMMA ReferencesFinite == IsFiniteSet(References) /\ IsFiniteSet(Actors)
<1>1. IsFiniteSet(References)
  BY SettlementsFinite, FS_Union, CashAssumption DEF References
<1>2. IsFiniteSet(Requests \cup Batches)
  BY FS_Union, CashAssumption
<1> QED
  BY <1>1, <1>2, FS_AddElement DEF Actors

\* So finitely many writes wait for their entry.
LEMMA OpenFinite ==
  ASSUME NEW f PROVE IsFiniteSet(Open(f)) /\ Cardinality(Open(f)) \in Nat
BY ReferencesFinite, FS_Subset, FS_CardinalityType DEF Open

\* What a reference moves is an amount.
LEMMA MovesInt ==
  ASSUME AccountInv, NEW f \in References PROVE Moves(f) \in Int
BY CashAssumption DEF AccountInv, Moves, SettlementAmount, References, Settlements, Trades

\* The row is written once more for a reference.
LEMMA OnceMore == \A m \in Int, n \in Nat : m * (n + 1) = m * n + m /\ m * n \in Int
OBVIOUS

\* How often the row was written for a reference.
LEMMA WrittenNat ==
  ASSUME LedgerInv, CutInv, NEW f \in References
  PROVE  Written(f) \in Nat /\ Written(f) = journal[f] + (cut[f] + Cardinality(Open(f)))
<1>1. journal[f] \in Nat /\ cut[f] \in Nat
  BY DEF CutInv, LedgerInv, Types
<1>2. Written(f) = journal[f] + (cut[f] + Cardinality(Open(f)))
  BY DEF Written, Unjournaled, Open
<1> QED
  BY <1>1, <1>2, OpenFinite

\* Steps that leave the writes without a journal entry alone.
LEMMA WrittenKept ==
  ASSUME UNCHANGED <<journal, cut>>,
         \A a \in Actors : pc[a] = "journal" \/ pc'[a] = "journal" =>
                             pc'[a] = pc[a] /\ at'[a] = at[a],
         NEW f
  PROVE  Written(f)' = Written(f)
<1>1. Open(f)' = Open(f)
  BY DEF Open
<1> QED
  BY <1>1 DEF Written, Unjournaled, Open

\* The entry of an actor is written, or never will be.
LEMMA WriteClosed ==
  ASSUME LedgerInv, CutInv, NEW a \in Actors, pc[a] = "journal",
         pc'[a] # "journal",
         \A c \in Actors \ {a} : pc'[c] = pc[c] /\ at'[c] = at[c],
         \/ journal' = [journal EXCEPT ![at[a]] = @ + 1] /\ cut' = cut
         \/ cut' = [cut EXCEPT ![at[a]] = @ + 1] /\ journal' = journal,
         NEW f \in References
  PROVE  Written(f)' = Written(f)
<1>1. /\ pc \in [Actors -> PCs] /\ at \in [Actors -> References \cup {None}]
      /\ journal \in [References -> Nat] /\ cut \in [References -> Nat]
  BY DEF LedgerInv, Types, CutInv, PCs
<1>2. CASE f = at[a]
  <2>1. Open(f)' = Open(f) \ {a} /\ a \in Open(f)
    BY <1>1, <1>2 DEF Open
  <2>2. Cardinality(Open(f)') = Cardinality(Open(f)) - 1
    BY <2>1, OpenFinite, FS_RemoveElement
  <2>3. journal'[f] + cut'[f] = journal[f] + cut[f] + 1 /\ journal'[f] \in Nat /\ cut'[f] \in Nat
    BY <1>1, <1>2
  <2>4. Written(f)' = journal'[f] + (cut'[f] + Cardinality(Open(f)'))
    BY DEF Written, Unjournaled, Open
  <2> QED
    BY <1>1, <2>2, <2>3, <2>4, OpenFinite, WrittenNat
<1>3. CASE f # at[a]
  <2>1. Open(f)' = Open(f)
    BY <1>1, <1>3 DEF Open
  <2>2. journal'[f] = journal[f] /\ cut'[f] = cut[f]
    BY <1>1, <1>3
  <2> QED
    BY <2>1, <2>2 DEF Written, Unjournaled, Open
<1> QED
  BY <1>2, <1>3

\* An actor writes the row, and has yet to write the entry.
LEMMA WriteOpened ==
  ASSUME LedgerInv, CutInv, NEW a \in Actors, pc[a] = "write",
         pc' = [pc EXCEPT ![a] = "journal"], UNCHANGED <<at, journal, cut>>,
         NEW f \in References
  PROVE  Written(f)' = IF f = at[a] THEN Written(f) + 1 ELSE Written(f)
<1>1. pc \in [Actors -> PCs] /\ at \in [Actors -> References \cup {None}]
  BY DEF LedgerInv, Types, PCs
<1>2. CASE f = at[a]
  <2>1. Open(f)' = Open(f) \cup {a} /\ a \notin Open(f)
    BY <1>1, <1>2 DEF Open
  <2>2. Cardinality(Open(f)') = Cardinality(Open(f)) + 1
    BY <2>1, OpenFinite, FS_AddElement
  <2>4. Written(f)' = journal[f] + (cut[f] + Cardinality(Open(f)'))
    BY DEF Written, Unjournaled, Open
  <2>5. journal[f] \in Nat /\ cut[f] \in Nat
    BY DEF LedgerInv, Types, CutInv
  <2> QED
    BY <1>2, <2>2, <2>4, <2>5, OpenFinite, WrittenNat
<1>3. CASE f # at[a]
  <2>1. Open(f)' = Open(f)
    BY <1>1, <1>3 DEF Open
  <2> QED
    BY <1>3, <2>1 DEF Written, Unjournaled, Open
<1> QED
  BY <1>2, <1>3

\* Steps that write the row for no reference.
LEMMA BalanceKept ==
  ASSUME BalanceInv, ~lost' => ~lost, row' = row, pended' = pended,
         \A f \in References : Moves(f)' * Written(f)' = Moves(f) * Written(f)
  PROVE  BalanceInv'
<1>1. Flows' = Flows
  BY DEF Flows
<1>2. PendingFlows' = PendingFlows
  BY DEF PendingFlows
<1> QED
  BY <1>1, <1>2 DEF BalanceInv

\* A credit or a debit: the row moves by as much as the flows.
LEMMA BalanceBooked ==
  ASSUME LedgerInv, AccountInv, CutInv, BalanceInv,
         NEW a \in Actors, a # Handler, WriteRow(a)
  PROVE  BalanceInv'
<1>1. /\ pc[a] = "write" /\ lost' = (lost \/ got[a] # row)
      /\ row' = Booked(got[a], Moves(at[a])) /\ UNCHANGED <<at, pended, journal, cut, req>>
      /\ pc' = [pc EXCEPT ![a] = "journal"]
  BY Zenon DEF WriteRow, Goto, capital
<1>2. at[a] \in References
  BY <1>1 DEF LedgerInv, RequestInv, BatchInv, Actors, References
<1> DEFINE x == at[a]
<1>3. SUFFICES ASSUME ~lost'
               PROVE  /\ row' \in [available : Int, inflow : Int, outflow : Int]
                      /\ row'.available = SumFunctionOnSet(Flows', References)
                      /\ row'.inflow - row'.outflow = SumFunctionOnSet(PendingFlows', pended')
  BY Zenon DEF BalanceInv
<1>4. ~lost /\ got[a] = row
  BY <1>1, <1>3, Zenon
<1>5. /\ row \in [available : Int, inflow : Int, outflow : Int]
      /\ row.available = SumFunctionOnSet(Flows, References)
      /\ row.inflow - row.outflow = SumFunctionOnSet(PendingFlows, pended)
  BY <1>4, Zenon DEF BalanceInv
<1>6. \A f \in References : Moves(f) \in Int /\ Moves(f)' = Moves(f)
  BY <1>1, MovesInt DEF Moves
<1>7. \A f \in References : /\ Written(f) \in Nat
                            /\ Written(f)' = IF f = x THEN Written(f) + 1 ELSE Written(f)
  BY <1>1, WrittenNat, WriteOpened
<1>8. \A f \in References : /\ Flows[f] = Moves(f) * Written(f)
                            /\ Flows'[f] = Moves(f) * Written(f)'
  BY <1>6 DEF Flows
<1> HIDE DEF x
<1>9. \A f \in References :
        /\ Flows[f] \in Int /\ Flows'[f] \in Int
        /\ Flows'[f] = IF f = x THEN Flows[f] + Moves(f) ELSE Flows[f]
  <2> TAKE f \in References
  <2>1. /\ Moves(f) * (Written(f) + 1) = Moves(f) * Written(f) + Moves(f)
        /\ Moves(f) * Written(f) \in Int
    BY <1>6, <1>7, OnceMore
  <2> QED
    BY <1>6, <1>7, <1>8, <2>1
<1>10. SumFunctionOnSet(Flows', References) = SumFunctionOnSet(Flows, References) + Moves(x)
  <2>1. SumFunctionOnSet(Flows', References) =
          SumFunctionOnSet(Flows, References) - Flows[x] + Flows'[x]
    BY <1>2, <1>9, ReferencesFinite, SumUpdate DEF x
  <2>2. SumFunctionOnSet(Flows, References) \in Int
    BY <1>9, ReferencesFinite, SumInt
  <2> QED
    BY <1>2, <1>6, <1>9, <2>1, <2>2 DEF x
<1>11. /\ row'.available = row.available + Moves(x)
       /\ row'.inflow = row.inflow /\ row'.outflow = row.outflow
       /\ row' \in [available : Int, inflow : Int, outflow : Int]
  BY <1>1, <1>2, <1>4, <1>5, <1>6 DEF Booked, x
<1>12. PendingFlows' = PendingFlows
  BY <1>1 DEF PendingFlows
<1> QED
  BY <1>1, <1>5, <1>10, <1>11, <1>12

\* The handler of trades: the pending columns move by as much as the flows.
LEMMA BalancePending ==
  ASSUME LedgerInv, AccountInv, CutInv, BalanceInv, WriteRow(Handler)
  PROVE  BalanceInv'
<1>1. /\ pc[Handler] = "write" /\ lost' = (lost \/ got[Handler] # row)
      /\ row' = Pending(got[Handler], Moves(at[Handler])) /\ UNCHANGED <<journal, cut, req>>
      /\ pc' = [pc EXCEPT ![Handler] = "idle"] /\ at' = [at EXCEPT ![Handler] = None]
      /\ pended' = pended \cup {at[Handler]}
  BY Zenon DEF WriteRow, Goto, capital
<1> DEFINE s == at[Handler]
<1>2. s \in Settlements /\ s \notin pended /\ pended \subseteq Settlements
  BY <1>1 DEF CutInv
<1>3. SUFFICES ASSUME ~lost'
               PROVE  /\ row' \in [available : Int, inflow : Int, outflow : Int]
                      /\ row'.available = SumFunctionOnSet(Flows', References)
                      /\ row'.inflow - row'.outflow = SumFunctionOnSet(PendingFlows', pended')
  BY Zenon DEF BalanceInv
<1>4. ~lost /\ got[Handler] = row
  BY <1>1, <1>3, Zenon
<1>5. /\ row \in [available : Int, inflow : Int, outflow : Int]
      /\ row.available = SumFunctionOnSet(Flows, References)
      /\ row.inflow - row.outflow = SumFunctionOnSet(PendingFlows, pended)
  BY <1>4, Zenon DEF BalanceInv
<1>6. Flows' = Flows
  <2>1. \A f \in References : Moves(f)' = Moves(f)
    BY <1>1 DEF Moves
  <2>2. \A a \in Actors : pc[a] = "journal" \/ pc'[a] = "journal" =>
                            pc'[a] = pc[a] /\ at'[a] = at[a]
    BY <1>1 DEF LedgerInv, Types
  <2>3. \A f \in References : Written(f)' = Written(f)
    BY <1>1, <2>2, WrittenKept
  <2> QED
    BY <2>1, <2>3 DEF Flows
<1>7. Moves(s) = SettlementAmount(s) /\ \A z \in Settlements : SettlementAmount(z) \in Int
  BY <1>2, NamesAssumption, CashAssumption DEF Moves, SettlementAmount, Settlements, Trades
<1>8. /\ \A z \in pended : PendingFlows'[z] = PendingFlows[z]
      /\ PendingFlows'[s] = SettlementAmount(s)
      /\ \A z \in pended \cup {s} : PendingFlows'[z] \in Int
      /\ \A z \in pended : PendingFlows[z] \in Int
  BY <1>1, <1>2, <1>7 DEF PendingFlows
<1>9. IsFiniteSet(pended)
  BY <1>2, SettlementsFinite, FS_Subset
<1> HIDE DEF s
<1>10. SumFunctionOnSet(PendingFlows', pended \cup {s}) =
         SettlementAmount(s) + SumFunctionOnSet(PendingFlows, pended)
  <2>1. SumFunctionOnSet(PendingFlows', pended) = SumFunctionOnSet(PendingFlows, pended)
    BY <1>8, <1>9, SumSame
  <2> QED
    BY <1>2, <1>8, <1>9, <2>1, SumAdd
<1>11. /\ row'.available = row.available
       /\ row'.inflow - row'.outflow = row.inflow - row.outflow + SettlementAmount(s)
       /\ row' \in [available : Int, inflow : Int, outflow : Int]
  <2>1. row' = Pending(row, SettlementAmount(s)) /\ SettlementAmount(s) \in Int
    BY <1>1, <1>2, <1>4, <1>7 DEF s
  <2> QED
    BY <1>5, <2>1 DEF Pending
<1>12. SumFunctionOnSet(PendingFlows, pended) \in Int
  BY <1>8, <1>9, SumInt
<1>13. pended' = pended \cup {s}
  BY <1>1 DEF s
<1> QED
  BY <1>2, <1>5, <1>6, <1>7, <1>10, <1>11, <1>12, <1>13

\* The row begins as zeros.
LEMMA InitBalance == Init => CutInv /\ BalanceInv
<1> SUFFICES ASSUME Init PROVE CutInv /\ BalanceInv
  OBVIOUS
<1>1. CutInv
  BY DEF Init, CutInv, References, Actors
<1>2. \A f \in References : Flows[f] = 0
  <2> TAKE f \in References
  <2>1. Open(f) = {} /\ cut[f] = 0 /\ journal[f] = 0
    BY DEF Init, Open
  <2>2. Written(f) = 0
    BY <2>1, FS_EmptySet DEF Written, Unjournaled, Open
  <2>3. Moves(f) \in Int
    BY InitCapital, MovesInt
  <2> QED
    BY <2>2, <2>3 DEF Flows
<1>3. SumFunctionOnSet(Flows, References) = 0
  BY <1>2, ReferencesFinite, SumZero
<1>4. pended = {} /\ SumFunctionOnSet(PendingFlows, pended) = 0
  BY SumEmpty DEF Init
<1>5. BalanceInv
  BY <1>3, <1>4 DEF BalanceInv, Init, Zero
<1> QED
  BY <1>1, <1>5

\* Steps that cut no write off, insert no settlement and start no request again.
LEMMA CutKept ==
  ASSUME CutInv, UNCHANGED <<cut, pended, delivered>>,
         \A r \in Requests : pc'[r] = "idle" => pc[r] = "idle",
         pc'[Handler] = "idle" \/ (pc[Handler] # "idle" /\ at'[Handler] = at[Handler])
  PROVE  CutInv'
BY DEF CutInv

\* What an actor does to the row, its entry, or its operation's end.
LEMMA ActorBalance ==
  ASSUME LedgerInv, AccountInv, CutInv, BalanceInv, NEW a \in Actors,
         ReadRow(a) \/ WriteRow(a) \/ Journal(a) \/ Fail(a)
  PROVE  CutInv' /\ BalanceInv'
<1>1. /\ pc \in [Actors -> PCs] /\ at \in [Actors -> References \cup {None}]
      /\ cut \in [References -> Nat]
      /\ Handler \in Actors /\ Handler \notin Requests
      /\ \A r \in Requests : r \in Actors /\ r \in References
  BY NamesAssumption DEF LedgerInv, Types, PCs, Actors, References, CutInv
<1>2. CASE ReadRow(a)
  <2>1. /\ pc[a] = "read" /\ pc' = [pc EXCEPT ![a] = "write"]
        /\ UNCHANGED <<row, journal, req, at, delivered, cut, pended, lost>>
    BY <1>2, Zenon DEF ReadRow, Goto, cash, capital, history
  <2>2. CutInv'
    BY <1>1, <2>1, CutKept
  <2>3. \A f \in References : Written(f)' = Written(f) /\ Moves(f)' = Moves(f)
    BY <1>1, <2>1, WrittenKept DEF Moves
  <2> QED
    BY <2>1, <2>2, <2>3, BalanceKept
<1>3. CASE WriteRow(a) /\ a = Handler
  <2>1. /\ pc[Handler] = "write" /\ UNCHANGED <<cut, delivered>>
        /\ pc' = [pc EXCEPT ![Handler] = "idle"] /\ pended' = pended \cup {at[Handler]}
    BY <1>3, Zenon DEF WriteRow, Goto
  <2>2. CutInv'
    BY <1>1, <2>1, CashAssumption DEF CutInv, Settlements, LedgerInv, Types
  <2> QED
    BY <1>3, <2>2, BalancePending
<1>4. CASE WriteRow(a) /\ a # Handler
  <2>1. /\ pc[a] = "write" /\ UNCHANGED <<cut, delivered, pended, at>>
        /\ pc' = [pc EXCEPT ![a] = "journal"]
    BY <1>4, Zenon DEF WriteRow, Goto
  <2>2. CutInv'
    BY <1>1, <1>4, <2>1, CutKept
  <2> QED
    BY <1>4, <2>2, BalanceBooked
<1>5. CASE Journal(a)
  <2>1. /\ pc[a] = "journal" /\ journal' = [journal EXCEPT ![at[a]] = @ + 1]
        /\ UNCHANGED <<row, req, at, delivered, cut, pended, lost>>
        /\ pc' = [pc EXCEPT ![a] = IF a \in Requests THEN "done" ELSE "settle"]
    BY <1>5, Zenon DEF Journal, Goto, capital, history
  <2>2. a # Handler
    BY <2>1 DEF LedgerInv, HandlerInv
  <2>3. CutInv'
    BY <1>1, <2>1, <2>2, CutKept
  <2>4. pc'[a] # "journal" /\ \A c \in Actors \ {a} : pc'[c] = pc[c] /\ at'[c] = at[c]
    BY <1>1, <2>1
  <2>5. \A f \in References : Written(f)' = Written(f)
    BY <2>1, <2>4, WriteClosed
  <2>6. \A f \in References : Moves(f)' = Moves(f)
    BY <2>1 DEF Moves
  <2> QED
    BY <2>1, <2>3, <2>5, <2>6, BalanceKept
<1>6. CASE Fail(a)
  <2>1. /\ UNCHANGED <<row, journal, req, delivered, pended, lost>>
        /\ pc' = [pc EXCEPT ![a] = IF a \in Requests THEN "failed" ELSE "idle"]
        /\ at' = [at EXCEPT ![a] = None]
        /\ cut' = IF pc[a] = "journal" THEN [cut EXCEPT ![at[a]] = @ + 1] ELSE cut
    BY <1>6, Zenon DEF Fail, Goto, cash, capital
  <2>2. \A f \in References : Moves(f)' = Moves(f)
    BY <2>1 DEF Moves
  <2>3. CASE pc[a] # "journal"
    <3>1. CutInv'
      BY <1>1, <2>1, <2>3, CutKept
    <3>2. \A b \in Actors : pc[b] = "journal" \/ pc'[b] = "journal" =>
                              pc'[b] = pc[b] /\ at'[b] = at[b]
      BY <1>1, <2>1, <2>3
    <3>3. \A f \in References : Written(f)' = Written(f)
      BY <2>1, <2>3, <3>2, WrittenKept
    <3> QED
      BY <2>1, <2>2, <3>1, <3>3, BalanceKept
  <2>4. CASE pc[a] = "journal"
    <3>1. a # Handler
      BY <2>4 DEF LedgerInv, HandlerInv
    <3>2. at[a] \in References /\ (at[a] \in Requests => at[a] = a)
      BY <2>4, <3>1, NamesAssumption DEF LedgerInv, RequestInv, BatchInv, Actors, References
    <3>3. cut' = [cut EXCEPT ![at[a]] = @ + 1]
      BY <2>1, <2>4
    <3>4. cut' \in [References -> Nat]
      BY <1>1, <3>2, <3>3
    <3>5. \A r \in Requests : pc'[r] = "idle" => pc[r] = "idle" /\ r # at[a]
      BY <1>1, <2>1, <2>4, <3>2
    <3>6. \A r \in Requests : pc'[r] = "idle" => cut'[r] = 0
      BY <1>1, <3>3, <3>5 DEF CutInv
    <3>7. pc'[Handler] = pc[Handler] /\ at'[Handler] = at[Handler]
      BY <1>1, <2>1, <3>1
    <3>8. CutInv'
      BY <2>1, <3>4, <3>6, <3>7 DEF CutInv
    <3>9. pc'[a] # "journal" /\ \A c \in Actors \ {a} : pc'[c] = pc[c] /\ at'[c] = at[c]
      BY <1>1, <2>1
    <3>10. \A f \in References : Written(f)' = Written(f)
      BY <2>1, <2>4, <3>3, <3>9, WriteClosed
    <3> QED
      BY <2>1, <2>2, <3>8, <3>10, BalanceKept
  <2> QED
    BY <2>3, <2>4
<1> QED
  BY <1>2, <1>3, <1>4, <1>5, <1>6

\* The other steps leave the row alone.
LEMMA OtherBalance ==
  ASSUME LedgerInv, AccountInv, CutInv, BalanceInv,
         \/ \E t \in Trades : InsertSettlement(t)
         \/ \E b \in Batches : (\E asOf \in Trades : StartBatch(b, asOf)) \/ Settle(b)
         \/ \E r \in Requests : InsertAccount(r) \/ InsertTransaction(r)
  PROVE  CutInv' /\ BalanceInv'
<1>1. /\ pc \in [Actors -> PCs] /\ at \in [Actors -> References \cup {None}]
      /\ Handler \in Actors /\ Handler \notin Requests /\ Handler \notin Batches
      /\ \A r \in Requests : r \in Actors /\ r \notin Batches
      /\ \A b \in Batches : b \in Actors
  BY CashAssumption, NamesAssumption DEF LedgerInv, Types, PCs, Actors
<1>2. UNCHANGED <<row, journal, req, cut, pended, lost>>
  BY DEF InsertSettlement, StartBatch, Settle, InsertAccount, InsertTransaction, cash, capital, history
<1>3. \E a \in Actors : /\ pc[a] # "journal"
                        /\ \E to \in {"read", "idle", "transaction"} :
                             pc' = [pc EXCEPT ![a] = to] /\ (to = "idle" => a \in Batches)
                        /\ \A c \in Actors \ {a} : at'[c] = at[c]
                        /\ \/ a = Handler /\ \E t \in Trades : InsertSettlement(t)
                           \/ a # Handler /\ delivered' = delivered
  <2>1. ASSUME NEW t \in Trades, InsertSettlement(t)
        PROVE  /\ pc[Handler] = "idle" /\ pc' = [pc EXCEPT ![Handler] = "read"]
               /\ \A c \in Actors \ {Handler} : at'[c] = at[c]
    BY <1>1, <2>1 DEF InsertSettlement, Goto
  <2>2. ASSUME NEW b \in Batches, (\E asOf \in Trades : StartBatch(b, asOf)) \/ Settle(b)
        PROVE  /\ pc[b] # "journal" /\ delivered' = delivered
               /\ \E to \in {"read", "idle"} : pc' = [pc EXCEPT ![b] = to]
               /\ \A c \in Actors \ {b} : at'[c] = at[c]
    <3>1. /\ pc[b] # "journal" /\ delivered' = delivered
          /\ \E list \in SUBSET Settlements : Take(b, list)
      BY <2>2 DEF StartBatch, Settle, Due, LedgerInv, Types
    <3>2. PICK list \in SUBSET Settlements : Take(b, list)
      BY <3>1
    <3>3. /\ \E to \in {"read", "idle"} : pc' = [pc EXCEPT ![b] = to]
          /\ \E x : at' = [at EXCEPT ![b] = x]
      BY <3>2 DEF Take, Goto
    <3> QED
      BY <1>1, <3>1, <3>3
  <2>3. ASSUME NEW r \in Requests, InsertAccount(r) \/ InsertTransaction(r)
        PROVE  /\ pc[r] # "journal" /\ delivered' = delivered
               /\ \E to \in {"read", "transaction"} : pc' = [pc EXCEPT ![r] = to]
               /\ \A c \in Actors \ {r} : at'[c] = at[c]
    BY <1>1, <2>3 DEF InsertAccount, InsertTransaction, Goto
  <2>4. CASE \E t \in Trades : InsertSettlement(t)
    BY <1>1, <2>1, <2>4
  <2>5. CASE \E b \in Batches : (\E asOf \in Trades : StartBatch(b, asOf)) \/ Settle(b)
    BY <1>1, <2>2, <2>5
  <2>6. CASE \E r \in Requests : InsertAccount(r) \/ InsertTransaction(r)
    BY <1>1, <2>3, <2>6
  <2> QED
    BY <2>4, <2>5, <2>6
<1>4. PICK a \in Actors : /\ pc[a] # "journal"
                          /\ \E to \in {"read", "idle", "transaction"} :
                               pc' = [pc EXCEPT ![a] = to] /\ (to = "idle" => a \in Batches)
                          /\ \A c \in Actors \ {a} : at'[c] = at[c]
                          /\ \/ a = Handler /\ \E t \in Trades : InsertSettlement(t)
                             \/ a # Handler /\ delivered' = delivered
  BY <1>3
<1>5. \A f \in References : Written(f)' = Written(f) /\ Moves(f)' = Moves(f)
  <2>1. \A b \in Actors : pc[b] = "journal" \/ pc'[b] = "journal" =>
                            pc'[b] = pc[b] /\ at'[b] = at[b]
    BY <1>1, <1>4
  <2> QED
    BY <1>2, <2>1, WrittenKept DEF Moves
<1>6. \A r \in Requests : pc'[r] = "idle" => pc[r] = "idle"
  BY <1>1, <1>4
<1>7. CASE a # Handler
  <2>1. pc'[Handler] = pc[Handler] /\ at'[Handler] = at[Handler] /\ delivered' = delivered
    BY <1>1, <1>4, <1>7
  <2> QED
    BY <1>2, <1>5, <1>6, <2>1, CutKept, BalanceKept
<1>8. CASE a = Handler
  <2>1. PICK t \in Trades : InsertSettlement(t)
    BY <1>4, <1>8
  <2>2. /\ at'[Handler] = [trade |-> t, delivery |-> delivered + 1]
        /\ delivered' = delivered + 1 /\ delivered < MaxDeliveries
    BY <1>1, <2>1 DEF InsertSettlement
  <2>3. at'[Handler] \in Settlements /\ at'[Handler].delivery = delivered' /\ delivered \in Nat
    BY <2>2, CashAssumption DEF Settlements, LedgerInv, Types
  <2>4. \A s \in pended : s.delivery <= delivered /\ s.delivery \in Nat
    BY CashAssumption DEF CutInv, Settlements
  <2>5. at'[Handler] \notin pended /\ \A s \in pended : s.delivery <= delivered'
    BY <2>2, <2>3, <2>4
  <2>6. CutInv'
    BY <1>2, <1>6, <2>3, <2>5 DEF CutInv
  <2> QED
    BY <1>2, <1>5, <2>6, BalanceKept
<1> QED
  BY <1>7, <1>8

\* A request is given its amount before anything is booked for it.
LEMMA ReadAccountBalance ==
  ASSUME LedgerInv, AccountInv, CutInv, BalanceInv, AccountInv', NEW r \in Requests,
         NEW amount, NEW date, ReadAccount(r, amount, date)
  PROVE  CutInv' /\ BalanceInv'
<1>1. /\ pc \in [Actors -> PCs] /\ at \in [Actors -> References \cup {None}]
      /\ Handler \in Actors /\ r # Handler /\ r \in Actors /\ r \in References
      /\ \A q \in Requests : q \in Actors
  BY CashAssumption, NamesAssumption DEF LedgerInv, Types, PCs, Actors, References
<1>2. /\ pc[r] = "idle" /\ UNCHANGED <<row, journal, at, delivered, cut, pended, lost>>
  BY Zenon DEF ReadAccount, cash
<1>3. /\ pc' = [pc EXCEPT ![r] = "account"] \/ pc' = [pc EXCEPT ![r] = "refused"]
      /\ req' = req \/ req' = [req EXCEPT ![r] = [amount |-> amount, date |-> date]]
  <2> DEFINE held == IF account = {} THEN {0} ELSE {x.capital : x \in Latest}
  <2>1. PICK h \in held, priced \in BOOLEAN :
          IF Accepts(account # {}, h, amount, priced)
            THEN /\ base' = [base EXCEPT ![r] = h]
                 /\ req' = [req EXCEPT ![r] = [amount |-> amount, date |-> date]]
                 /\ pc' = [pc EXCEPT ![r] = "account"]
            ELSE UNCHANGED <<base, req>> /\ pc' = [pc EXCEPT ![r] = "refused"]
    BY Zenon DEF ReadAccount, Goto
  <2> QED
    BY <2>1, Zenon
<1>4. CutInv'
  <2>1. \A q \in Requests : pc'[q] = "idle" => pc[q] = "idle"
    BY <1>1, <1>3
  <2>2. pc'[Handler] = pc[Handler]
    BY <1>1, <1>3
  <2> QED
    BY <1>2, <2>1, <2>2, CutKept
<1>5. \A f \in References : Written(f)' = Written(f)
  <2>1. \A b \in Actors : pc[b] = "journal" \/ pc'[b] = "journal" =>
                            pc'[b] = pc[b] /\ at'[b] = at[b]
    BY <1>1, <1>2, <1>3
  <2> QED
    BY <1>2, <2>1, WrittenKept
<1>6. Written(r) = 0
  <2>1. journal[r] = 0 /\ cut[r] = 0
    BY <1>2 DEF LedgerInv, RequestInv, CutInv
  <2>2. Open(r) = {}
    BY <1>2, NamesAssumption, CashAssumption
       DEF LedgerInv, RequestInv, BatchInv, HandlerInv, Open, Actors
  <2> QED
    BY <1>1, <2>1, <2>2, FS_EmptySet, WrittenNat
<1>7. \A f \in References : Moves(f)' * Written(f)' = Moves(f) * Written(f)
  <2> TAKE f \in References
  <2>1. CASE f = r
    <3>1. Moves(r) \in Int
      BY <1>1, MovesInt
    <3>2. Moves(r)' \in Int
      BY DEF AccountInv, Moves
    <3> QED
      BY <1>5, <1>6, <2>1, <3>1, <3>2
  <2>2. CASE f # r
    BY <1>3, <1>5, <2>2 DEF Moves, AccountInv
  <2> QED
    BY <2>1, <2>2
<1> QED
  BY <1>2, <1>4, <1>7, BalanceKept

\* Every step keeps the row explained.
LEMMA BalanceStep ==
  LedgerInv /\ AccountInv /\ AccountInv' /\ CutInv /\ BalanceInv /\ [Next]_vars =>
    CutInv' /\ BalanceInv'
<1> SUFFICES ASSUME LedgerInv, AccountInv, AccountInv', CutInv, BalanceInv, [Next]_vars
             PROVE  CutInv' /\ BalanceInv'
  OBVIOUS
<1> DEFINE Done == CutInv' /\ BalanceInv'
<1>1. ASSUME UNCHANGED <<row, journal, req, pc, at, delivered, cut, pended, lost>> PROVE Done
  <2>1. \A f \in References : Written(f)' = Written(f) /\ Moves(f)' = Moves(f)
    BY <1>1, WrittenKept DEF Moves
  <2> QED
    BY <1>1, <2>1, CutKept, BalanceKept
<1>2. ASSUME UNCHANGED vars PROVE Done
  BY <1>1, <1>2 DEF vars, cash, capital, history
<1>3. ASSUME NEW s \in Settlements, RetrySettlement(s) PROVE Done
  BY <1>1, <1>3 DEF RetrySettlement, capital, history
<1>4. ASSUME NEW r \in Requests,
             \E amount \in (-MaxAmount..MaxAmount) \ {0}, date \in 1..MaxDate :
               ReadAccount(r, amount, date)
      PROVE  Done
  BY <1>4, ReadAccountBalance
<1>5. ASSUME NEW a \in Actors, ReadRow(a) \/ WriteRow(a) \/ Journal(a) \/ Fail(a) PROVE Done
  BY <1>5, ActorBalance
<1>6. ASSUME \/ \E t \in Trades : InsertSettlement(t)
             \/ \E b \in Batches : (\E asOf \in Trades : StartBatch(b, asOf)) \/ Settle(b)
             \/ \E r \in Requests : InsertAccount(r) \/ InsertTransaction(r)
      PROVE  Done
  BY <1>6, OtherBalance
<1> HIDE DEF Done
<1>7. ASSUME Next PROVE Done
  BY <1>3, <1>4, <1>5, <1>6, <1>7, Zenon DEF Next
<1>8. Done
  BY <1>2, <1>7
<1> QED
  BY <1>8 DEF Done

\* The balance row is what the journal, the writes without an entry and the
\* pending flows add up to, as long as no write replaced a row that had
\* changed since credit, debit or create_settlement read it.
THEOREM RowIsExplained == Spec => []RowExplained
<1>1. BalanceInv => RowExplained
  BY DEF BalanceInv, RowExplained, Flows, PendingFlows, Written, SumFunction
<1> QED
  BY <1>1, InitCapital, CapitalStep, InitBalance, BalanceStep, LedgerAlways, PTL DEF Spec
=============================================================================
