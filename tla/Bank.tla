-------------------------------- MODULE Bank --------------------------------
(***************************************************************************)
(* What a payment does to the balances.  A transfer takes an amount the    *)
(* sender has and gives it to the receiver.  A payment does that to a      *)
(* balance each of its two accounts has had, at most once for each         *)
(* idempotency key: it is a transfer if both are the balances of today,    *)
(* and overwrites what was recorded in between if one of them is not.      *)
(***************************************************************************)
EXTENDS Integers

CONSTANT Opening      \* the balance of each account before the first payment

VARIABLES
    balance,          \* of each account
    payments,         \* recorded payments
    had               \* every balance each account has had

bank == <<balance, payments, had>>

Init ==
    /\ balance = Opening
    /\ payments = {}
    /\ had = [a \in DOMAIN Opening |-> {Opening[a]}]

\* p leaves its sender with f less its amount and its receiver with t and it.
Pay(p, f, t) ==
    /\ \A q \in payments : q.key # p.key
    /\ p.from # p.to /\ p.amount > 0 /\ p.amount <= f
    /\ payments' = payments \cup {p}
    /\ balance' = [balance EXCEPT ![p.from] = f - p.amount, ![p.to] = t + p.amount]
    /\ had' = [had EXCEPT ![p.from] = @ \cup {f - p.amount},
                          ![p.to] = @ \cup {t + p.amount}]

Transfer(p) == Pay(p, balance[p.from], balance[p.to])

Next == \E p \in payments' : \E f \in had[p.from], t \in had[p.to] : Pay(p, f, t)

Spec == Init /\ [][Next]_bank
=============================================================================
