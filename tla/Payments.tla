------------------------------ MODULE Payments ------------------------------
(***************************************************************************)
(* POST /v1/payments: InitiatePaymentHandler.execute run by any number of  *)
(* concurrent requests against one PostgreSQL database.                    *)
(*                                                                         *)
(* A handler is a sequence of awaited database calls; every await is a     *)
(* point where other handlers run, where a call can fail and where the     *)
(* process can die.  The saga (steps 6a-6g of the handler) is one          *)
(* READ COMMITTED transaction: its writes are invisible until it commits,  *)
(* and the rows it wrote stay locked until it ends.  Which locks a handler *)
(* holds follows from where it stands (HoldsKey, HoldsAccount).            *)
(*                                                                         *)
(* The balances the saga writes are computed from the account rows read    *)
(* BEFORE the transaction began (`seen'), not from the rows it updates.    *)
(***************************************************************************)
EXTENDS Integers, FiniteSets

CONSTANTS
    Requests,     \* handler executions; the uuid of the payment and of the
                  \* fraud analysis an execution creates is the execution itself
    Accounts,     \* ids of the rows of `accounts'
    Keys,         \* idempotency keys chosen by clients
    Commands,     \* the commands clients may send
    Opening,      \* the account rows before the first request
    MapperMoney,  \* what AccountMapper puts in a rehydrated account: "stub" is
                  \* the code of this commit, "money" the Money it is typed as
    MaxInFlight,  \* bound: handlers running at the same time
    NoAccount,    \* findByUserId or findByPixKey found nothing
    NoKey,        \* the client sent no idempotency key
    BadKey,       \* a key IdempotencyKey.create refuses
    None          \* null

VARIABLES
    account,      \* table accounts: balance and status of each id
    payments,     \* table payments, the committed rows
    analyses,     \* table fraud_analyses
    ledger,       \* table ledger_entries
    outbox,       \* table outbox_events
    cmd,          \* the command of each request
    pc,           \* the next awaited call of each handler
    seen,         \* the two Account aggregates the handler holds in memory
    error,        \* the exception caught by the saga's catch clause
    answer        \* what the client was told

db == <<account, payments, analyses, ledger, outbox>>
vars == <<account, payments, analyses, ledger, outbox, cmd, pc, seen, error, answer>>

AccountStatus == {"ACTIVE", "BLOCKED", "CLOSED"}
PaymentStatus == {"PENDING", "PROCESSING", "COMPLETED", "FAILED", "REFUNDED"}
Decision == {"APPROVED", "REVIEW", "BLOCKED"}

AccountRow == [balance : Int, status : AccountStatus]
Command == [from : Accounts \cup {NoAccount}, to : Accounts \cup {NoAccount},
            amount : Int, key : Keys \cup {NoKey, BadKey}]

\* A generated key is a fresh uuid, named here by the request it is made for.
PaymentKey == Keys \cup Requests
PaymentRow == [id : Requests, key : PaymentKey, from : Accounts, to : Accounts,
               amount : Int, status : PaymentStatus]
AnalysisRow == [id : Requests, sender : Accounts, decision : Decision,
                payment : Requests \cup {None}]
LedgerEntry == [payment : Requests, account : Accounts, type : {"DEBIT", "CREDIT"},
                amount : Int, balance : Int]
EventName == {"payments.payment.initiated", "payments.payment.processed",
              "fraud.analysis.blocked"}
OutboxRow == [event : EventName, of : Requests]

SagaError == {"ACCOUNT_NOT_ACTIVE", "INSUFFICIENT_FUNDS", "TYPE_ERROR",
              "P2002", "TIMEOUT", "DATABASE"}
Code == {"none", "created", "replayed", "rejected", "blocked", "failed", "error"}

ASSUME PaymentsAssumption ==
    /\ Commands \subseteq Command
    /\ Opening \in [Accounts -> [balance : Nat, status : AccountStatus]]
    /\ MapperMoney \in {"stub", "money"}
    /\ MaxInFlight \in Nat
    /\ NoAccount \notin Accounts
    /\ NoKey \notin Keys /\ BadKey \notin Keys
    /\ None \notin Requests
    /\ Keys \cap Requests = {}
    /\ None \notin SagaError
-----------------------------------------------------------------------------
(* Reading the command *)

\* The key the payment is filed under: the client's, or a generated one.
KeyOf(r) == IF cmd[r].key = NoKey THEN r ELSE cmd[r].key

From(r) == cmd[r].from
To(r) == cmd[r].to
Amount(r) == cmd[r].amount
-----------------------------------------------------------------------------
(* The domain objects the saga calls *)

\* Mutant of DebitError: Money.subtract does not compare.
DebitErrorUnchecked(acc, amount) ==
    IF acc.status # "ACTIVE" THEN "ACCOUNT_NOT_ACTIVE" ELSE None

\* Money.subtract of the rehydrated balance: the stub returns undefined, whose
\* `isFailure' Account.debit then reads; Money refuses to go below zero.
DebitError(acc, amount) ==
    IF acc.status # "ACTIVE" THEN "ACCOUNT_NOT_ACTIVE"
    ELSE IF MapperMoney = "stub" THEN "TYPE_ERROR"
    ELSE IF acc.balance - amount < 0 THEN "INSUFFICIENT_FUNDS"
    ELSE None

\* Account.credit: with the stub `add' the new balance is undefined, and
\* reading its amountCents throws.
CreditError(acc) ==
    IF acc.status # "ACTIVE" THEN "ACCOUNT_NOT_ACTIVE"
    ELSE IF MapperMoney = "stub" THEN "TYPE_ERROR"
    ELSE None

MoneySubtract(balance, amount) == balance - amount
\* Mutant of MoneyAdd: the stub's `undefined', assigned without being read.
MoneyAddUndefined(balance, amount) == None

MoneyAdd(balance, amount) == balance + amount

\* TRANSITIONS of the Payment aggregate.
Transitions == [PENDING    |-> {"PROCESSING", "FAILED"},
                PROCESSING |-> {"COMPLETED", "FAILED"},
                COMPLETED  |-> {"REFUNDED"},
                FAILED     |-> {},
                REFUNDED   |-> {}]

\* The aggregate is PENDING when the handler calls complete(): the row was
\* written PROCESSING directly, startProcessing() is never called, and the
\* failed Result of complete() is dropped.  What is left to save are the events
\* recorded by Payment.initiate.
DomainEvents(r) ==
    {[event |-> "payments.payment.initiated", of |-> r]}
    \cup IF "COMPLETED" \in Transitions["PENDING"]
         THEN {[event |-> "payments.payment.processed", of |-> r]}
         ELSE {}
-----------------------------------------------------------------------------
(* Where a handler stands *)

PreSaga == {"findKey", "findSender", "findReceiver", "analyze", "saveEvents"}
InSaga == {"insert", "debit", "credit", "commit"}
InFlight == PreSaga \cup InSaga \cup {"compensate"}
Labels == {"idle", "done", "crashed"} \cup InFlight

\* An uncommitted INSERT owns its entry in the unique index on idempotency_key,
\* an uncommitted UPDATE its account row, until the transaction ends.
HoldsKey(q, k) == pc[q] \in {"debit", "credit", "commit"} /\ KeyOf(q) = k
HoldsAccount(q, a) ==
    \/ pc[q] \in {"credit", "commit"} /\ From(q) = a
    \/ pc[q] = "commit" /\ To(q) = a

\* The row or index entry the next statement of r needs is locked by another.
Blocked(r) ==
    \E q \in Requests \ {r} :
        \/ pc[r] = "insert" /\ HoldsKey(q, KeyOf(r))
        \/ pc[r] = "debit" /\ HoldsAccount(q, From(r))
        \/ pc[r] = "credit" /\ HoldsAccount(q, To(r))

KeyTaken(k) == \E p \in payments : p.key = k

Unread == [balance |-> 0, status |-> "ACTIVE"]

Init ==
    /\ account = Opening
    /\ payments = {} /\ analyses = {} /\ ledger = {} /\ outbox = {}
    /\ cmd \in [Requests -> Commands]
    /\ pc = [r \in Requests |-> "idle"]
    /\ seen = [r \in Requests |-> [snd |-> Unread, rcv |-> Unread]]
    /\ error = [r \in Requests |-> None]
    /\ answer = [r \in Requests |-> [code |-> "none", payment |-> None]]

Goto(r, label) == pc' = [pc EXCEPT ![r] = label]

Reply(r, code, p) ==
    /\ Goto(r, "done")
    /\ answer' = [answer EXCEPT ![r] = [code |-> code, payment |-> p]]

\* An exception inside the saga: Prisma rolls the transaction back and the
\* catch clause runs.
Throw(r, e) ==
    /\ Goto(r, "compensate")
    /\ error' = [error EXCEPT ![r] = e]
-----------------------------------------------------------------------------
(* Steps 1-5: reads, fraud analysis *)

Receive(r) ==
    /\ pc[r] = "idle"
    /\ Cardinality({q \in Requests : pc[q] \in InFlight}) < MaxInFlight
    /\ \/ cmd[r].key = BadKey /\ Reply(r, "rejected", None)
       \/ cmd[r].key # BadKey /\ Goto(r, "findKey") /\ UNCHANGED answer
    /\ UNCHANGED <<db, cmd, seen, error>>

\* 1. findByIdempotencyKey: replay the stored payment, whoever sent it.
FindKey(r) ==
    /\ pc[r] = "findKey"
    /\ \/ \E p \in payments : p.key = KeyOf(r) /\ Reply(r, "replayed", p.id)
       \/ ~KeyTaken(KeyOf(r)) /\ Goto(r, "findSender") /\ UNCHANGED answer
    /\ UNCHANGED <<db, cmd, seen, error>>

\* 2. The sender's account row, as it is now.
FindSender(r) ==
    /\ pc[r] = "findSender"
    /\ \/ From(r) = NoAccount /\ Reply(r, "rejected", None) /\ UNCHANGED seen
       \/ /\ From(r) # NoAccount
          /\ seen' = [seen EXCEPT ![r].snd = account[From(r)]]
          /\ Goto(r, "findReceiver")
          /\ UNCHANGED answer
    /\ UNCHANGED <<db, cmd, error>>

\* Mutant of FindReceiver: paying oneself is allowed.
FindReceiverOneself(r) ==
    /\ pc[r] = "findReceiver"
    /\ \/ /\ To(r) = NoAccount \/ Amount(r) <= 0
          /\ Reply(r, "rejected", None)
          /\ UNCHANGED seen
       \/ /\ To(r) # NoAccount /\ Amount(r) > 0
          /\ seen' = [seen EXCEPT ![r].rcv = account[To(r)]]
          /\ Goto(r, "analyze")
          /\ UNCHANGED answer
    /\ UNCHANGED <<db, cmd, error>>

\* 2-3. The receiver's account row, then the checks that need no database.
FindReceiver(r) ==
    /\ pc[r] = "findReceiver"
    /\ \/ /\ To(r) \in {NoAccount, From(r)} \/ Amount(r) <= 0
          /\ Reply(r, "rejected", None)
          /\ UNCHANGED seen
       \/ /\ To(r) \notin {NoAccount, From(r)} /\ Amount(r) > 0
          /\ seen' = [seen EXCEPT ![r].rcv = account[To(r)]]
          /\ Goto(r, "analyze")
          /\ UNCHANGED answer
    /\ UNCHANGED <<db, cmd, error>>

SaveAnalysis(r, d) ==
    analyses' = analyses \cup
        {[id |-> r, sender |-> From(r), decision |-> d, payment |-> None]}

\* 4. The analysis is saved in a statement of its own, whatever it decides ...
Analyze(r) ==
    /\ pc[r] = "analyze"
    /\ \E d \in Decision :
          /\ SaveAnalysis(r, d)
          /\ Goto(r, IF d = "BLOCKED" THEN "saveEvents" ELSE "insert")
    /\ UNCHANGED <<account, payments, ledger, outbox, cmd, seen, error, answer>>

\* ... and the event of a BLOCKED one in another, after which the request is
\* refused.
SaveEvents(r) ==
    /\ pc[r] = "saveEvents"
    /\ outbox' = outbox \cup {[event |-> "fraud.analysis.blocked", of |-> r]}
    /\ Reply(r, "blocked", None)
    /\ UNCHANGED <<account, payments, analyses, ledger, cmd, seen, error>>
-----------------------------------------------------------------------------
(* Step 6: the saga *)

\* Mutant of InsertPayment: no unique index on idempotency_key.
InsertUnindexed(r) ==
    /\ pc[r] = "insert"
    /\ Goto(r, "debit")
    /\ UNCHANGED <<db, cmd, seen, error, answer>>

\* 6a. INSERT payment (PROCESSING) waits for a concurrent insert of the key and
\* fails on a committed one.
InsertPayment(r) ==
    /\ pc[r] = "insert" /\ ~Blocked(r)
    /\ \/ KeyTaken(KeyOf(r)) /\ Throw(r, "P2002")
       \/ ~KeyTaken(KeyOf(r)) /\ Goto(r, "debit") /\ UNCHANGED error
    /\ UNCHANGED <<db, cmd, seen, answer>>

\* Mutant of DebitSender: updates with this.prisma instead of tx.
DebitOutsideTransaction(r) ==
    /\ pc[r] = "debit" /\ DebitError(seen[r].snd, Amount(r)) = None /\ ~Blocked(r)
    /\ seen' = [seen EXCEPT ![r].snd.balance = MoneySubtract(@, Amount(r))]
    /\ account' = [account EXCEPT ![From(r)].balance = MoneySubtract(seen[r].snd.balance, Amount(r))]
    /\ Goto(r, "credit")
    /\ UNCHANGED <<payments, analyses, ledger, outbox, cmd, error, answer>>

\* 6c. Debit the aggregate in memory, then UPDATE the sender's row.
DebitSender(r) ==
    /\ pc[r] = "debit"
    /\ LET e == DebitError(seen[r].snd, Amount(r))
       IN  \/ e # None /\ Throw(r, e) /\ UNCHANGED seen
           \/ /\ e = None /\ ~Blocked(r)
              /\ seen' = [seen EXCEPT ![r].snd.balance = MoneySubtract(@, Amount(r))]
              /\ Goto(r, "credit")
              /\ UNCHANGED error
    /\ UNCHANGED <<db, cmd, answer>>

\* 6d. Credit the aggregate in memory, then UPDATE the receiver's row.
CreditReceiver(r) ==
    /\ pc[r] = "credit"
    /\ LET e == CreditError(seen[r].rcv)
       IN  \/ e # None /\ Throw(r, e) /\ UNCHANGED seen
           \/ /\ e = None /\ ~Blocked(r)
              /\ seen' = [seen EXCEPT ![r].rcv.balance = MoneyAdd(@, Amount(r))]
              /\ Goto(r, "commit")
              /\ UNCHANGED error
    /\ UNCHANGED <<db, cmd, answer>>

Entry(r, a, type, balance) ==
    [payment |-> r, account |-> a, type |-> type, amount |-> Amount(r), balance |-> balance]

\* Mutant of Persist: the analysis is not linked to the payment (6b missing).
PersistUnlinked(r) ==
    /\ payments' = payments \cup
          {[id |-> r, key |-> KeyOf(r), from |-> From(r), to |-> To(r),
            amount |-> Amount(r), status |-> "COMPLETED"]}
    /\ account' = [account EXCEPT ![From(r)].balance = seen[r].snd.balance,
                                  ![To(r)].balance = seen[r].rcv.balance]
    /\ ledger' = ledger \cup {Entry(r, From(r), "DEBIT", seen[r].snd.balance),
                              Entry(r, To(r), "CREDIT", seen[r].rcv.balance)}
    /\ outbox' = outbox \cup DomainEvents(r)
    /\ UNCHANGED analyses

\* What the transaction of r leaves behind once it commits.  6b, 6e, 6f and 6g
\* write rows that no other handler reads or locks before that, so the whole
\* remainder of the saga is one step; any of them failing is RollBack.
Persist(r) ==
    /\ payments' = payments \cup
          {[id |-> r, key |-> KeyOf(r), from |-> From(r), to |-> To(r),
            amount |-> Amount(r), status |-> "COMPLETED"]}
    /\ analyses' = {IF x.id = r THEN [x EXCEPT !.payment = r] ELSE x : x \in analyses}
    /\ account' = [account EXCEPT ![From(r)].balance = seen[r].snd.balance,
                                  ![To(r)].balance = seen[r].rcv.balance]
    /\ ledger' = ledger \cup {Entry(r, From(r), "DEBIT", seen[r].snd.balance),
                              Entry(r, To(r), "CREDIT", seen[r].rcv.balance)}
    /\ outbox' = outbox \cup DomainEvents(r)

Commit(r) ==
    /\ pc[r] = "commit"
    /\ Persist(r)
    /\ Reply(r, "created", r)
    /\ UNCHANGED <<cmd, seen, error>>

\* The database commits but the acknowledgement is lost: $transaction rejects.
CommitUnacknowledged(r) ==
    /\ pc[r] = "commit"
    /\ Persist(r)
    /\ Throw(r, "DATABASE")
    /\ UNCHANGED <<cmd, seen, answer>>

\* A statement of the transaction fails, or the connection does.
RollBack(r) ==
    /\ pc[r] \in InSaga
    /\ Throw(r, "DATABASE")
    /\ UNCHANGED <<db, cmd, seen, answer>>

\* Mutant of LockTimeout: only the wait for the unique index is limited.
LockTimeoutOnKey(r) ==
    /\ pc[r] = "insert" /\ Blocked(r)
    /\ Throw(r, "TIMEOUT")
    /\ UNCHANGED <<db, cmd, seen, answer>>

\* A statement waiting for a lock is cut short by PostgreSQL's deadlock
\* detection or by the time limit of an interactive transaction.
LockTimeout(r) ==
    /\ Blocked(r)
    /\ Throw(r, "TIMEOUT")
    /\ UNCHANGED <<db, cmd, seen, answer>>

\* Mutant of MarkFailed: updateMany WHERE id = r.
MarkFailedAlways(r) ==
    payments' = {IF p.id = r THEN [p EXCEPT !.status = "FAILED"] ELSE p : p \in payments}

\* updateMany WHERE id = r AND status IN (PENDING, PROCESSING).
MarkFailed(r) ==
    payments' = {IF p.id = r /\ p.status \in {"PENDING", "PROCESSING"}
                 THEN [p EXCEPT !.status = "FAILED"] ELSE p : p \in payments}

\* Mutant of Compensate: the catch clause does not rethrow.
CompensateSilently(r) ==
    /\ pc[r] = "compensate"
    /\ MarkFailed(r) \/ UNCHANGED payments
    /\ Reply(r, "created", r)
    /\ UNCHANGED <<account, analyses, ledger, outbox, cmd, seen, error>>

\* The catch clause: compensate (a failure of that is swallowed), then 400.
Compensate(r) ==
    /\ pc[r] = "compensate"
    /\ MarkFailed(r) \/ UNCHANGED payments
    /\ Reply(r, "failed", None)
    /\ UNCHANGED <<account, analyses, ledger, outbox, cmd, seen, error>>
-----------------------------------------------------------------------------
(* Failures outside the saga, the process *)

\* An awaited call before the saga rejects; nothing catches it: 500.
DatabaseError(r) ==
    /\ pc[r] \in PreSaga
    /\ Reply(r, "error", None)
    /\ UNCHANGED <<db, cmd, seen, error>>

\* The same, of a write that took effect: the analysis, or its event, is there
\* and the client is told 500.
WriteUnacknowledged(r) ==
    /\ \/ pc[r] = "analyze" /\ (\E d \in Decision : SaveAnalysis(r, d)) /\ UNCHANGED outbox
       \/ /\ pc[r] = "saveEvents"
          /\ outbox' = outbox \cup {[event |-> "fraud.analysis.blocked", of |-> r]}
          /\ UNCHANGED analyses
    /\ Reply(r, "error", None)
    /\ UNCHANGED <<account, payments, ledger, cmd, seen, error>>

\* The process dies, the open transaction with it; the client hears nothing.
Crash(r) ==
    /\ pc[r] \in InFlight
    /\ Goto(r, "crashed")
    /\ UNCHANGED <<db, cmd, seen, error, answer>>

\* What the handler does by itself, failures apart.
Step(r) ==
    \/ FindKey(r) \/ FindSender(r) \/ FindReceiver(r)
    \/ Analyze(r) \/ SaveEvents(r)
    \/ InsertPayment(r) \/ DebitSender(r) \/ CreditReceiver(r) \/ Commit(r)
    \/ LockTimeout(r) \/ Compensate(r)

Next ==
    \E r \in Requests :
        \/ Receive(r) \/ Step(r)
        \/ CommitUnacknowledged(r) \/ RollBack(r)
        \/ DatabaseError(r) \/ WriteUnacknowledged(r) \/ Crash(r)

Spec == Init /\ [][Next]_vars

\* The event loop resumes a handler whose call has settled, and PostgreSQL or
\* Prisma ends every wait for a lock.  Clients, failures and crashes are not fair.
FairSpec == Spec /\ \A r \in Requests : WF_vars(Step(r))
-----------------------------------------------------------------------------
(* Properties *)

\* Every table holds rows of its schema and every handler is at one of its
\* awaits; a balance is a number, never the undefined of the mapper's stub.
TypeOK ==
    /\ account \in [Accounts -> AccountRow]
    /\ payments \subseteq PaymentRow
    /\ analyses \subseteq AnalysisRow
    /\ ledger \subseteq LedgerEntry
    /\ outbox \subseteq OutboxRow
    /\ cmd \in [Requests -> Commands]
    /\ pc \in [Requests -> Labels]
    /\ seen \in [Requests -> [snd : AccountRow, rcv : AccountRow]]
    /\ error \in [Requests -> SagaError \cup {None}]
    /\ answer \in [Requests -> [code : Code, payment : Requests \cup {None}]]

\* Two concurrent requests with one idempotency key both pass the check of
\* step 1; still at most one payment is ever recorded under the key.
OnePaymentPerKey ==
    \A p, q \in payments : p.key = q.key => p = q

\* A client told "created" or replayed a payment holds the id of a payment that
\* is durable, COMPLETED and filed under the key the client used.
AnswersAreDurable ==
    \A r \in Requests :
        answer[r].code \in {"created", "replayed"} =>
            \E p \in payments : /\ p.id = answer[r].payment
                                /\ p.key = KeyOf(r)
                                /\ p.status = "COMPLETED"

\* No reader ever meets a payment half done, PENDING or PROCESSING, however a
\* saga ends.  So the compensation, which marks those FAILED, has nothing to mark.
NothingHalfDone == \A p \in payments : p.status = "COMPLETED"

\* The five tables agree about which payments happened: a payment row has its
\* two opposite ledger entries, its initiated event and its analysis, which let
\* it through; and each of those three belongs to a payment row.  Whoever was
\* told that fraud blocked the payment left a BLOCKED analysis and its event.
TablesAgree ==
    /\ \A p \in payments :
          /\ \A t \in {"DEBIT", "CREDIT"} :
                \E e \in ledger : /\ e.payment = p.id /\ e.type = t /\ e.amount = p.amount
                                  /\ e.account = IF t = "DEBIT" THEN p.from ELSE p.to
          /\ [event |-> "payments.payment.initiated", of |-> p.id] \in outbox
          /\ \E x \in analyses : x.id = p.id /\ x.payment = p.id /\ x.decision # "BLOCKED"
    /\ \A e, f \in ledger : e.payment = f.payment /\ e.type = f.type => e = f
    /\ \A e \in ledger : \E p \in payments : p.id = e.payment
    /\ \A o \in outbox : o.event # "fraud.analysis.blocked" => \E p \in payments : p.id = o.of
    /\ \A x \in analyses : x.payment # None => \E p \in payments : p.id = x.payment
    /\ \A r \in Requests : answer[r].code = "blocked" =>
          /\ [event |-> "fraud.analysis.blocked", of |-> r] \in outbox
          /\ \E x \in analyses : x.id = r /\ x.decision = "BLOCKED"

\* No account is ever overdrawn, in its row or in the running balance of a
\* ledger entry, however the payments that touch it interleave.
NoOverdraft ==
    /\ \A a \in Accounts : account[a].balance >= 0
    /\ \A e \in ledger : e.balance >= 0

\* What a payment says once recorded never changes, and no payment disappears:
\* the compensation of a saga whose commit was not acknowledged leaves the
\* COMPLETED row alone.
RecordedIsFinal == [][payments \subseteq payments']_vars

\* Handlers that wait for each other's rows (a pays b while b pays a) do not
\* hang: every request taken up is answered, unless its process dies.
EveryRequestEnds ==
    \A r \in Requests : pc[r] \in InFlight ~> pc[r] \in {"done", "crashed"}

Balances == [a \in Accounts |-> account[a].balance]
OpeningBalances == [a \in Accounts |-> Opening[a].balance]

Book == INSTANCE PaymentBook
            WITH Opening <- OpeningBalances, balance <- Balances,
                 announced <- {o.of : o \in {x \in outbox :
                                  x.event = "payments.payment.initiated"}}

\* However requests overlap, fail or die, a reader of the tables sees payments
\* recorded one at a time: the row, both ledger entries, the initiated event
\* and both balances appear together, under a key never used before, or not at
\* all.  (Where the balances come from is ImplementsBank.)
ImplementsBook == Book!Spec

\* Every balance an account has had: the opening one and those of its entries.
Had == [a \in Accounts |->
           {Opening[a].balance} \cup {e.balance : e \in {x \in ledger : x.account = a}}]

Transfers == INSTANCE Bank
                 WITH Opening <- OpeningBalances, balance <- Balances, had <- Had

\* However requests overlap, a payment moves its amount, and nothing else, once
\* per key, from a balance its sender has had and that suffices to one its
\* receiver has had.  That is all: the saga writes balances computed from rows
\* read before its transaction, so a payment recorded since may be overwritten.
ImplementsBank == Transfers!Spec

\* One of the two balances r is about to write was computed from a row that has
\* since been given another balance.
Stale(r) ==
    \/ seen[r].snd.balance # account[From(r)].balance - Amount(r)
    \/ seen[r].rcv.balance # account[To(r)].balance + Amount(r)

\* A payment that no other overtook, between the reads of its accounts and its
\* commit, is a transfer: only a commit of stale balances is anything else.
OnlyRacesBreakTheBank ==
    [][ \/ UNCHANGED <<Balances, payments>>
        \/ \E p \in payments' : Transfers!Transfer(p)
        \/ \E r \in Requests : pc[r] = "commit" /\ pc'[r] # "commit" /\ Stale(r)
      ]_vars

\* The mapper's stub makes the debit of an active account throw, so at this
\* commit no request of any kind changes a balance or leaves a payment, a
\* ledger entry or a payment event behind, in whatever order requests fail.
NothingMoves ==
    MapperMoney = "stub" =>
        /\ account = Opening
        /\ payments = {} /\ ledger = {}
        /\ \A o \in outbox : o.event = "fraud.analysis.blocked"
        /\ \A x \in analyses : x.payment = None
        /\ \A r \in Requests : answer[r].code \notin {"created", "replayed"}
-----------------------------------------------------------------------------
(* What the repository says of the handler and the code does not do *)

\* payments.controller.ts:50 documents "Payment successfully initiated": when
\* the accounts are active, the balance suffices and neither the database nor
\* another request is in the way, a request let through is not refused.
FundedPaymentSucceeds ==
    \A r \in Requests :
        /\ answer[r].code = "failed"
        /\ error[r] \notin {"DATABASE", "TIMEOUT", "P2002"}
        => \/ seen[r].snd.status # "ACTIVE" \/ seen[r].snd.balance < Amount(r)
           \/ seen[r].rcv.status # "ACTIVE"
=============================================================================
