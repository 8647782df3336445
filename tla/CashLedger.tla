----------------------------- MODULE CashLedger -----------------------------
(***************************************************************************)
(* The cash of one portfolio and one currency, and the capital account of  *)
(* one investor whose subscriptions and redemptions move it:               *)
(* cash_management/services/cash.py, the subscriptions and redemptions of  *)
(* capital_accounts/services/capital_transaction.py, and their             *)
(* repositories, each call of which commits on its own.                    *)
(*                                                                         *)
(* Three kinds of actor share the balance row, which each reads in one     *)
(* call and writes as a whole in a later one: the handler of               *)
(* trades.executed, capital requests, and runs of process_due_settlements. *)
(* An absent row is read as zeros, so that the row begins as zeros.  Every *)
(* capital request names the portfolio: without one it moves no cash.      *)
(***************************************************************************)
EXTENDS Integers, FiniteSets, Functions, TLC

CONSTANTS
  NumTrades,      \* trades 1..NumTrades; trade t is of amount t and settles on day t
  Buys,           \* the trades that are buys
  Requests,       \* capital requests
  MaxAmount,      \* largest amount of a capital request
  MaxDate,        \* latest business_date of a capital request
  None,           \* no reference
  Batches,        \* runs of process_due_settlements that may overlap
  MaxDeliveries,  \* bound on deliveries of trades
  MaxRetries,     \* bound on retry_settlement
  MaxFaults       \* bound on operations that fail at an await

ASSUME CashAssumption ==
  /\ NumTrades \in Nat
  /\ Buys \subseteq 1..NumTrades
  /\ {MaxAmount, MaxDate, MaxDeliveries, MaxRetries, MaxFaults} \subseteq Nat
  /\ Requests \cap Batches = {}
  /\ IsFiniteSet(Requests) /\ IsFiniteSet(Batches)

Trades == 1..NumTrades
Settlements == [trade : Trades, delivery : 1..MaxDeliveries]
References == Settlements \cup Requests
Handler == "handle_trade_executed"
Actors == Requests \cup Batches \cup {Handler}

ASSUME NamesAssumption ==
  /\ Settlements \cap Requests = {}
  /\ None \notin References
  /\ Handler \notin Requests \cup Batches

VARIABLES
  row,        \* the cash_balances row
  journal,    \* per reference_id: number of its cash_journal entries
  status,     \* per settlement: status of its cash_settlements row
  account,    \* capital_accounts: set of [date, capital, of]
  txns,       \* capital_transactions: the requests that have one
  req,        \* per request: its signed amount and business_date
  base,       \* per request: ending_capital of the snapshot it read
  pc,         \* per actor: the call it is at
  got,        \* per actor: the balance row it read
  at,         \* per actor: the reference it is booking
  due,        \* per batch: settlements left of its list
  delivered,  \* deliveries of trades so far
  cut,        \* history: per reference, row writes whose journal entry failed
  pended,     \* history: settlements whose pending flow was written
  lost,       \* history: a write replaced a row that had changed since its read
  orderly,    \* history: capital requests so far came one by one, in date order
  retries, faults

cash == <<row, journal, status>>
capital == <<account, txns, req, base>>
history == <<cut, pended, lost, orderly>>
vars == <<cash, capital, pc, got, at, due, delivered, history, retries, faults>>

Zero == [available |-> 0, inflow |-> 0, outflow |-> 0]
NoRequest == [amount |-> 0, date |-> 0]

TypeOK ==
  /\ row \in [available : Int, inflow : Nat, outflow : Nat]
  /\ journal \in [References -> Nat]
  /\ status \in [Settlements -> {"none", "pending", "settled"}]
  /\ account \subseteq [date : 1..MaxDate, capital : Nat, of : Requests]
  /\ txns \subseteq Requests
  /\ req \in [Requests -> [amount : Int, date : 0..MaxDate]]
  /\ base \in [Requests -> Nat]
  /\ pc \in [Actors -> {"idle", "account", "transaction", "read", "write",
                        "journal", "settle", "done", "refused", "failed"}]
  /\ at \in [Actors -> References \cup {None}]
  /\ due \in [Batches -> SUBSET Settlements]
  /\ delivered \in 0..MaxDeliveries
  /\ cut \in [References -> Nat] /\ pended \subseteq Settlements
  /\ lost \in BOOLEAN /\ orderly \in BOOLEAN
  /\ retries \in 0..MaxRetries /\ faults \in 0..MaxFaults

Init ==
  /\ row = Zero
  /\ journal = [f \in References |-> 0]
  /\ status = [s \in Settlements |-> "none"]
  /\ account = {} /\ txns = {}
  /\ req = [r \in Requests |-> NoRequest]
  /\ base = [r \in Requests |-> 0]
  /\ pc = [a \in Actors |-> "idle"]
  /\ got = [a \in Actors |-> Zero]
  /\ at = [a \in Actors |-> None]
  /\ due = [b \in Batches |-> {}]
  /\ delivered = 0
  /\ cut = [f \in References |-> 0] /\ pended = {}
  /\ lost = FALSE /\ orderly = TRUE
  /\ retries = 0 /\ faults = 0

Goto(a, call) == pc' = [pc EXCEPT ![a] = call]

\* Buy: cash outflow, negative.  Sell: inflow, positive.
SettlementAmount(s) == IF s.trade \in Buys THEN -s.trade ELSE s.trade

\* What a credit (positive) or a debit (negative) moves.
Moves(f) == IF f \in Requests THEN req[f].amount ELSE SettlementAmount(f)

-----------------------------------------------------------------------------
(* credit, debit and create_settlement: one call reads the row, a later    *)
(* one writes every column of it.                                          *)

ReadRow(a) ==
  /\ pc[a] = "read"
  /\ got' = [got EXCEPT ![a] = row]
  /\ Goto(a, "write")
  /\ UNCHANGED <<cash, capital, at, due, delivered, history, retries, faults>>

\* create_settlement: the flow becomes pending.
Pending(old, amount) ==
  IF amount > 0 THEN [old EXCEPT !.inflow = @ + amount]
                ELSE [old EXCEPT !.outflow = @ - amount]

\* The pending columns are left to their defaults.
BookedOnly(old, amount) == [Zero EXCEPT !.available = old.available + amount]

\* credit and debit: the pending columns are written as they were read.
Booked(old, amount) == [old EXCEPT !.available = @ + amount]

WriteRow(a) ==
  /\ pc[a] = "write"
  /\ lost' = (lost \/ got[a] # row)
  /\ IF a = Handler
       THEN /\ row' = Pending(got[a], Moves(at[a]))
            /\ pended' = pended \cup {at[a]}
            /\ at' = [at EXCEPT ![a] = None]
            /\ Goto(a, "idle")
       ELSE /\ row' = Booked(got[a], Moves(at[a]))
            /\ UNCHANGED <<pended, at>>
            /\ Goto(a, "journal")
  /\ got' = [got EXCEPT ![a] = Zero]
  /\ UNCHANGED <<journal, status, capital, due, delivered, cut, orderly, retries, faults>>

Journal(a) ==
  /\ pc[a] = "journal"
  /\ journal' = [journal EXCEPT ![at[a]] = @ + 1]
  /\ Goto(a, IF a \in Requests THEN "done" ELSE "settle")
  /\ UNCHANGED <<row, status, capital, got, at, due, delivered, history, retries, faults>>

-----------------------------------------------------------------------------
(* handle_trade_executed.  The bus may deliver a trade again after a       *)
(* failure or a crash, and each delivery inserts a settlement.             *)

InsertSettlement(t) ==
  /\ pc[Handler] = "idle"
  /\ delivered < MaxDeliveries
  /\ LET s == [trade |-> t, delivery |-> delivered + 1] IN
     /\ status' = [status EXCEPT ![s] = "pending"]
     /\ at' = [at EXCEPT ![Handler] = s]
  /\ delivered' = delivered + 1
  /\ Goto(Handler, "read")
  /\ UNCHANGED <<row, journal, capital, got, due, history, retries, faults>>

-----------------------------------------------------------------------------
(* process_due_settlements and retry_settlement.                           *)

\* get_due_settlements
Due(asOf) == {s \in Settlements : status[s] = "pending" /\ s.trade <= asOf}

\* The next settlement of the list is booked before it is marked.
Take(b, list) ==
  IF list = {}
    THEN Goto(b, "idle") /\ at' = [at EXCEPT ![b] = None] /\ UNCHANGED due
    ELSE \E s \in {x \in list : \A y \in list : x.trade <= y.trade} :
           /\ at' = [at EXCEPT ![b] = s]
           /\ due' = [due EXCEPT ![b] = list \ {s}]
           /\ Goto(b, "read")

\* The settlements of the list are marked when it is read.
StartBatchMarked(b, asOf) ==
  /\ pc[b] = "idle"
  /\ Due(asOf) # {}
  /\ status' = [s \in Settlements |-> IF s \in Due(asOf) THEN "settled" ELSE status[s]]
  /\ Take(b, Due(asOf))
  /\ UNCHANGED <<row, journal, capital, got, delivered, history, retries, faults>>

StartBatch(b, asOf) ==
  /\ pc[b] = "idle"
  /\ Due(asOf) # {}
  /\ Take(b, Due(asOf))
  /\ UNCHANGED <<cash, capital, got, delivered, history, retries, faults>>

Settle(b) ==
  /\ pc[b] = "settle"
  /\ status' = [status EXCEPT ![at[b]] = "settled"]
  /\ Take(b, due[b])
  /\ UNCHANGED <<row, journal, capital, got, delivered, history, retries, faults>>

\* mark_pending does not look at the status that it resets.
RetrySettlement(s) ==
  /\ status[s] # "none"
  /\ retries < MaxRetries
  /\ retries' = retries + 1
  /\ status' = [status EXCEPT ![s] = "pending"]
  /\ UNCHANGED <<row, journal, capital, pc, got, at, due, delivered, history, faults>>

-----------------------------------------------------------------------------
(* process_subscription and process_redemption.                            *)

Oldest == {x \in account : \A y \in account : x.date <= y.date}

\* get_latest_for_investor: one of the snapshots of the latest date.
Latest == {x \in account : \A y \in account : x.date >= y.date}

\* A redemption needs an account with that capital, a positive NAV per share and
\* enough shares at that price; a subscription does not.  Whether the price and
\* the shares do is left open (priced).
Accepts(exists, held, amount, priced) ==
  amount > 0 \/ (exists /\ held + amount >= 0 /\ priced)

ReadAccount(r, amount, date) ==
  /\ pc[r] = "idle"
  /\ orderly' = /\ orderly
                /\ \A o \in Requests : req[o].date < date /\ pc[o] # "account"
  /\ \E held \in IF account = {} THEN {0} ELSE {x.capital : x \in Latest},
        priced \in BOOLEAN :
       IF Accepts(account # {}, held, amount, priced)
         THEN /\ base' = [base EXCEPT ![r] = held]
              /\ req' = [req EXCEPT ![r] = [amount |-> amount, date |-> date]]
              /\ Goto(r, "account")
         ELSE UNCHANGED <<base, req>> /\ Goto(r, "refused")
  /\ UNCHANGED <<cash, account, txns, got, at, due, delivered, cut, pended, lost,
                 retries, faults>>

\* The cash is booked before the transaction is inserted.
InsertAccountThenCash(r) ==
  /\ pc[r] = "account"
  /\ account' = account \cup
       {[date |-> req[r].date, capital |-> base[r] + req[r].amount, of |-> r]}
  /\ base' = [base EXCEPT ![r] = 0]
  /\ at' = [at EXCEPT ![r] = r]
  /\ Goto(r, "read")
  /\ UNCHANGED <<cash, txns, req, got, due, delivered, history, retries, faults>>

InsertAccount(r) ==
  /\ pc[r] = "account"
  /\ account' = account \cup
       {[date |-> req[r].date, capital |-> base[r] + req[r].amount, of |-> r]}
  /\ base' = [base EXCEPT ![r] = 0]
  /\ Goto(r, "transaction")
  /\ UNCHANGED <<cash, txns, req, got, at, due, delivered, history, retries, faults>>

\* The recomputation of ownership_pct that ends a request is flushed and
\* never committed: it changes nothing.
InsertTransaction(r) ==
  /\ pc[r] = "transaction"
  /\ txns' = txns \cup {r}
  /\ at' = [at EXCEPT ![r] = r]
  /\ Goto(r, "read")
  /\ UNCHANGED <<cash, account, req, base, got, due, delivered, history, retries, faults>>

-----------------------------------------------------------------------------
(* An exception at an await, or the end of the process: the calls that are *)
(* left are not made, and those that committed stay.                       *)
Fail(a) ==
  /\ pc[a] \in {"account", "transaction", "read", "write", "journal", "settle"}
  /\ faults < MaxFaults
  /\ faults' = faults + 1
  /\ Goto(a, IF a \in Requests THEN "failed" ELSE "idle")
  /\ cut' = IF pc[a] = "journal" THEN [cut EXCEPT ![at[a]] = @ + 1] ELSE cut
  /\ got' = [got EXCEPT ![a] = Zero]
  /\ at' = [at EXCEPT ![a] = None]
  /\ due' = [b \in Batches |-> IF b = a THEN {} ELSE due[b]]
  /\ UNCHANGED <<cash, capital, delivered, pended, lost, orderly, retries>>

Next ==
  \/ \E a \in Actors : ReadRow(a) \/ WriteRow(a) \/ Journal(a) \/ Fail(a)
  \/ \E t \in Trades : InsertSettlement(t)
  \/ \E b \in Batches : (\E asOf \in Trades : StartBatch(b, asOf)) \/ Settle(b)
  \/ \E s \in Settlements : RetrySettlement(s)
  \/ \E r \in Requests :
       \/ \E amount \in (-MaxAmount..MaxAmount) \ {0}, date \in 1..MaxDate :
            ReadAccount(r, amount, date)
       \/ InsertAccount(r) \/ InsertTransaction(r)

RequestSymmetry == Permutations(Requests)

Spec == Init /\ [][Next]_vars

-----------------------------------------------------------------------------
\* Row writes of a reference that have no journal entry: yet, or ever.
Unjournaled(f) == cut[f] + Cardinality({a \in Actors : pc[a] = "journal" /\ at[a] = f})

\* As long as no write replaced a row that had changed since it was read, the
\* available balance is what the journal says, but for the entries that are
\* due or were cut off by a failure, and the pending columns are the trades'
\* flows: no operation undoes the columns of another.
RowExplained ==
  ~lost =>
    /\ row.available =
         SumFunction([f \in References |-> Moves(f) * (journal[f] + Unjournaled(f))])
    /\ row.inflow - row.outflow = SumFunction([s \in pended |-> SettlementAmount(s)])

\* A settlement that is marked settled has been booked, whichever batches
\* overlap, fail half-way or take it again after a retry.
SettledIsBooked ==
  \A s \in Settlements : status[s] = "settled" => journal[s] >= 1

\* Cash of a subscription or redemption is booked once, and only for a
\* request whose capital transaction and snapshot are there; a request that
\* was answered has booked it.
CashFollowsCapital ==
  \A r \in Requests :
    /\ journal[r] <= 1
    /\ journal[r] = 1 => r \in txns /\ \E x \in account : x.of = r
    /\ pc[r] = "done" => journal[r] = 1

\* Capital requests that come one by one, each with a later date than those
\* before it, carry every amount on to the latest snapshot, and never more
\* is taken out than is there.
CapitalCarried ==
  orderly => \A x \in Latest :
    /\ x.capital >= 0
    /\ x.capital = SumFunction([y \in account |-> req[y.of].amount])

=============================================================================
