---------------------------- MODULE PaymentBook ----------------------------
(***************************************************************************)
(* What the payment tables promise their readers, whatever the handlers    *)
(* behind them do: a book to which payments are only ever added, each      *)
(* under a key not used before and each in one step together with its      *)
(* debit entry, its credit entry, its announcement and the two balances    *)
(* those entries state.                                                    *)
(***************************************************************************)
CONSTANT Opening      \* the balance of each account in the empty book

VARIABLES
    balance,          \* of each account
    payments,         \* recorded payments
    ledger,           \* the entries posted for them
    announced         \* ids of the payments other systems are told about

book == <<balance, payments, ledger, announced>>

Init ==
    /\ balance = Opening
    /\ payments = {} /\ ledger = {} /\ announced = {}

Posts(e, p, type, a) ==
    e.payment = p.id /\ e.type = type /\ e.account = a /\ e.amount = p.amount

Record(p, debit, credit) ==
    /\ \A q \in payments : q.key # p.key
    /\ p.status = "COMPLETED"
    /\ p.from # p.to
    /\ Posts(debit, p, "DEBIT", p.from)
    /\ Posts(credit, p, "CREDIT", p.to)
    /\ payments' = payments \cup {p}
    /\ ledger' = ledger \cup {debit, credit}
    /\ announced' = announced \cup {p.id}
    /\ balance' = [balance EXCEPT ![p.from] = debit.balance, ![p.to] = credit.balance]

Next == \E p \in payments', debit, credit \in ledger' : Record(p, debit, credit)

Spec == Init /\ [][Next]_book
=============================================================================
