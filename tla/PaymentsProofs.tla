--------------------------- MODULE PaymentsProofs ---------------------------
(* What holds of Payments for every set of requests, accounts and keys.    *)
EXTENDS Payments, TLAPS

-----------------------------------------------------------------------------
(* Type correctness.  The rows a saga writes are well typed because the      *)
(* checks before it resolved the accounts and accepted the key and the       *)
(* amount, so the type invariant needs what a handler has checked so far.    *)

PastSender == {"findReceiver", "analyze", "saveEvents"} \cup InSaga
PastReceiver == {"analyze", "saveEvents"} \cup InSaga

Checked ==
    \A r \in Requests :
        /\ pc[r] \in InFlight => cmd[r].key # BadKey
        /\ pc[r] \in PastSender => From(r) \in Accounts
        /\ pc[r] \in PastReceiver =>
              To(r) \in Accounts /\ To(r) # From(r) /\ Amount(r) > 0

TypeInv == TypeOK /\ Checked

LEMMA CommandParts ==
    ASSUME NEW r \in Requests, cmd \in [Requests -> Commands]
    PROVE  /\ From(r) \in Accounts \cup {NoAccount}
           /\ To(r) \in Accounts \cup {NoAccount}
           /\ Amount(r) \in Int
           /\ cmd[r].key # BadKey => KeyOf(r) \in PaymentKey
  <1>1. cmd[r] \in Command
    BY PaymentsAssumption
  <1> QED BY <1>1 DEF Command, From, To, Amount, KeyOf, PaymentKey

LEMMA GotoTyped ==
    ASSUME NEW r \in Requests, NEW label \in Labels, TypeOK, Goto(r, label)
    PROVE  pc' \in [Requests -> Labels]
  BY DEF Goto, TypeOK

LEMMA ReplyTyped ==
    ASSUME NEW r \in Requests, NEW code \in Code, NEW p \in Requests \cup {None},
           TypeOK, Reply(r, code, p)
    PROVE  /\ pc' \in [Requests -> Labels]
           /\ answer' \in [Requests -> [code : Code, payment : Requests \cup {None}]]
  BY DEF Reply, Goto, TypeOK, Labels

LEMMA ThrowTyped ==
    ASSUME NEW r \in Requests, NEW e \in SagaError, TypeOK, Throw(r, e)
    PROVE  /\ pc' \in [Requests -> Labels]
           /\ error' \in [Requests -> SagaError \cup {None}]
  BY DEF Throw, Goto, TypeOK, Labels, InFlight

LEMMA SeenTyped ==
    ASSUME NEW r \in Requests, NEW b,
           NEW f \in [Requests -> [snd : AccountRow, rcv : AccountRow]]
    PROVE  /\ [f[r].snd EXCEPT !.balance = b] \in AccountRow =>
              [f EXCEPT ![r].snd.balance = b]
                \in [Requests -> [snd : AccountRow, rcv : AccountRow]]
           /\ [f[r].rcv EXCEPT !.balance = b] \in AccountRow =>
              [f EXCEPT ![r].rcv.balance = b]
                \in [Requests -> [snd : AccountRow, rcv : AccountRow]]
  <1>1. ASSUME NEW x \in AccountRow
        PROVE  /\ [f EXCEPT ![r].snd = x] \in [Requests -> [snd : AccountRow, rcv : AccountRow]]
               /\ [f EXCEPT ![r].rcv = x] \in [Requests -> [snd : AccountRow, rcv : AccountRow]]
    OBVIOUS
  <1> QED BY <1>1

LEMMA InitTypeInv == Init => TypeInv
  <1> SUFFICES ASSUME Init PROVE TypeInv
    OBVIOUS
  <1>1. TypeOK
    BY PaymentsAssumption DEF Init, TypeOK, AccountRow, Labels, Unread, Code, AccountStatus
  <1>2. Checked
    BY DEF Init, Checked, InFlight, PastSender, PastReceiver, PreSaga, InSaga
  <1> QED BY <1>1, <1>2 DEF TypeInv

LEMMA PersistTyped ==
    ASSUME NEW r \in Requests, TypeOK, Checked, pc[r] = "commit", Persist(r)
    PROVE  /\ account' \in [Accounts -> AccountRow]
           /\ payments' \subseteq PaymentRow
           /\ analyses' \subseteq AnalysisRow
           /\ ledger' \subseteq LedgerEntry
           /\ outbox' \subseteq OutboxRow
  <1>1. /\ From(r) \in Accounts /\ To(r) \in Accounts /\ Amount(r) \in Int
        /\ KeyOf(r) \in PaymentKey
    BY CommandParts DEF TypeOK, Checked, PastSender, PastReceiver, InSaga, InFlight
  <1>2. seen[r].snd \in AccountRow /\ seen[r].rcv \in AccountRow
    BY DEF TypeOK
  <1>3. seen[r].snd.balance \in Int /\ seen[r].rcv.balance \in Int
    BY <1>2 DEF AccountRow
  <1>4. account' \in [Accounts -> AccountRow]
    <2>1. account' = [account EXCEPT ![From(r)].balance = seen[r].snd.balance,
                                     ![To(r)].balance = seen[r].rcv.balance]
      BY DEF Persist
    <2>2. ASSUME NEW f \in [Accounts -> AccountRow], NEW a \in Accounts, NEW b \in Int
          PROVE  [f EXCEPT ![a].balance = b] \in [Accounts -> AccountRow]
      BY DEF AccountRow
    <2>3. account \in [Accounts -> AccountRow]
      BY DEF TypeOK
    <2>4. [account EXCEPT ![From(r)].balance = seen[r].snd.balance] \in [Accounts -> AccountRow]
      BY <2>2, <2>3, <1>1, <1>3
    <2> QED BY <2>1, <2>2, <2>4, <1>1, <1>3
  <1>5. payments' \subseteq PaymentRow
    BY <1>1 DEF Persist, TypeOK, PaymentRow, PaymentStatus
  <1>6. analyses' \subseteq AnalysisRow
    <2>1. ASSUME NEW x \in AnalysisRow PROVE [x EXCEPT !.payment = r] \in AnalysisRow
      BY DEF AnalysisRow
    <2> QED BY <2>1 DEF Persist, TypeOK
  <1>7. ledger' \subseteq LedgerEntry
    BY <1>1, <1>3 DEF Persist, TypeOK, LedgerEntry, Entry
  <1>8. outbox' \subseteq OutboxRow
    BY DEF Persist, TypeOK, OutboxRow, EventName, DomainEvents
  <1> QED BY <1>4, <1>5, <1>6, <1>7, <1>8

LEMMA SaveAnalysisTyped ==
    ASSUME NEW r \in Requests, NEW d \in Decision, TypeOK, From(r) \in Accounts,
           SaveAnalysis(r, d)
    PROVE  analyses' \subseteq AnalysisRow
  BY DEF SaveAnalysis, AnalysisRow, TypeOK

LEMMA StepTypeOK == TypeInv /\ [Next]_vars => TypeOK'
  <1> SUFFICES ASSUME TypeOK, Checked, [Next]_vars PROVE TypeOK'
    BY DEF TypeInv
  <1> DEFINE L == {"idle", "findKey", "findSender", "findReceiver", "analyze",
                   "saveEvents", "insert", "debit", "credit", "commit",
                   "compensate", "done", "crashed"}
  <1>l. Labels = L
    BY DEF Labels, InFlight, PreSaga, InSaga
  <1>c. Code = {"none", "created", "replayed", "rejected", "blocked", "failed", "error"}
    BY DEF Code
  <1>0. CASE UNCHANGED vars
    BY <1>0 DEF vars, TypeOK
  <1> SUFFICES ASSUME NEW r \in Requests,
                      \/ Receive(r) \/ Step(r)
                      \/ CommitUnacknowledged(r) \/ RollBack(r)
                      \/ DatabaseError(r) \/ WriteUnacknowledged(r) \/ Crash(r)
               PROVE  TypeOK'
    BY <1>0 DEF Next
  <1>1. CASE Receive(r)
    <2>1. pc' \in [Requests -> Labels]
      BY <1>1, <1>l, <1>c, GotoTyped, ReplyTyped DEF Receive
    <2>2. answer' \in [Requests -> [code : Code, payment : Requests \cup {None}]]
      BY <1>1, <1>l, <1>c, ReplyTyped DEF Receive, TypeOK
    <2> QED BY <1>1, <2>1, <2>2 DEF Receive, TypeOK, db
  <1>2. CASE FindKey(r)
    <2>1. \A p \in payments : p.id \in Requests
      BY DEF TypeOK, PaymentRow
    <2>2. pc' \in [Requests -> Labels]
      BY <1>2, <1>l, <1>c, <2>1, GotoTyped, ReplyTyped DEF FindKey
    <2>3. answer' \in [Requests -> [code : Code, payment : Requests \cup {None}]]
      BY <1>2, <1>l, <1>c, <2>1, ReplyTyped DEF FindKey, TypeOK
    <2> QED BY <1>2, <2>2, <2>3 DEF FindKey, TypeOK, db
  <1>3. CASE FindSender(r)
    <2>1. pc' \in [Requests -> Labels]
      BY <1>3, <1>l, <1>c, GotoTyped, ReplyTyped DEF FindSender
    <2>2. answer' \in [Requests -> [code : Code, payment : Requests \cup {None}]]
      BY <1>3, <1>c, ReplyTyped DEF FindSender, TypeOK
    <2>3. From(r) # NoAccount => From(r) \in Accounts
      BY CommandParts DEF TypeOK
    <2>4. seen' \in [Requests -> [snd : AccountRow, rcv : AccountRow]]
      BY <1>3, <2>3 DEF FindSender, TypeOK
    <2> QED BY <1>3, <2>1, <2>2, <2>4 DEF FindSender, TypeOK, db
  <1>4. CASE FindReceiver(r)
    <2>1. pc' \in [Requests -> Labels]
      BY <1>4, <1>l, <1>c, GotoTyped, ReplyTyped DEF FindReceiver
    <2>2. answer' \in [Requests -> [code : Code, payment : Requests \cup {None}]]
      BY <1>4, <1>c, ReplyTyped DEF FindReceiver, TypeOK
    <2>3. To(r) # NoAccount => To(r) \in Accounts
      BY CommandParts DEF TypeOK
    <2>4. seen' \in [Requests -> [snd : AccountRow, rcv : AccountRow]]
      BY <1>4, <2>3 DEF FindReceiver, TypeOK
    <2> QED BY <1>4, <2>1, <2>2, <2>4 DEF FindReceiver, TypeOK, db
  <1>5. CASE Analyze(r)
    <2>1. pc' \in [Requests -> Labels]
      BY <1>5, <1>l, GotoTyped DEF Analyze
    <2>2. From(r) \in Accounts
      BY <1>5 DEF Analyze, Checked, PastSender
    <2>3. analyses' \subseteq AnalysisRow
      BY <1>5, <2>2, SaveAnalysisTyped DEF Analyze
    <2> QED BY <1>5, <2>1, <2>3 DEF Analyze, TypeOK
  <1>6. CASE SaveEvents(r)
    <2>1. outbox' \subseteq OutboxRow
      BY <1>6 DEF SaveEvents, OutboxRow, EventName, TypeOK
    <2> QED BY <1>6, <1>c, <2>1, ReplyTyped DEF SaveEvents, TypeOK
  <1>7. CASE InsertPayment(r)
    <2>1. /\ pc' \in [Requests -> Labels]
          /\ error' \in [Requests -> SagaError \cup {None}]
      BY <1>7, <1>l, GotoTyped, ThrowTyped DEF InsertPayment, SagaError, TypeOK
    <2> QED BY <1>7, <2>1 DEF InsertPayment, TypeOK, db
  <1>8. CASE DebitSender(r)
    <2> DEFINE e == DebitError(seen[r].snd, Amount(r))
    <2>1. e # None => e \in SagaError
      BY DEF DebitError, SagaError
    <2>2. /\ pc' \in [Requests -> Labels]
          /\ error' \in [Requests -> SagaError \cup {None}]
      <3>1. CASE e # None
        BY <1>8, <2>1, <3>1, ThrowTyped DEF DebitSender
      <3>2. CASE e = None
        BY <1>8, <1>l, <3>2, GotoTyped DEF DebitSender, TypeOK
      <3> QED BY <3>1, <3>2
    <2>3. Amount(r) \in Int
      BY CommandParts DEF TypeOK
    <2>4. seen' \in [Requests -> [snd : AccountRow, rcv : AccountRow]]
      <3> DEFINE b == seen[r].snd.balance - Amount(r)
      <3>1. /\ seen \in [Requests -> [snd : AccountRow, rcv : AccountRow]]
            /\ seen[r].snd \in AccountRow
        BY DEF TypeOK
      <3>2. b \in Int
        BY <2>3, <3>1 DEF AccountRow
      <3>3. [seen[r].snd EXCEPT !.balance = b] \in AccountRow
        BY <3>1, <3>2 DEF AccountRow
      <3>4. \/ seen' = seen
            \/ seen' = [seen EXCEPT ![r].snd.balance = b]
        BY <1>8 DEF DebitSender, MoneySubtract
      <3> HIDE DEF b
      <3> QED BY <3>1, <3>3, <3>4, SeenTyped
    <2> QED BY <1>8, <2>2, <2>4 DEF DebitSender, TypeOK, db
  <1>9. CASE CreditReceiver(r)
    <2> DEFINE e == CreditError(seen[r].rcv)
    <2>1. e # None => e \in SagaError
      BY DEF CreditError, SagaError
    <2>2. /\ pc' \in [Requests -> Labels]
          /\ error' \in [Requests -> SagaError \cup {None}]
      <3>1. CASE e # None
        BY <1>9, <2>1, <3>1, ThrowTyped DEF CreditReceiver
      <3>2. CASE e = None
        BY <1>9, <1>l, <3>2, GotoTyped DEF CreditReceiver, TypeOK
      <3> QED BY <3>1, <3>2
    <2>3. Amount(r) \in Int
      BY CommandParts DEF TypeOK
    <2>4. seen' \in [Requests -> [snd : AccountRow, rcv : AccountRow]]
      <3> DEFINE b == seen[r].rcv.balance + Amount(r)
      <3>1. /\ seen \in [Requests -> [snd : AccountRow, rcv : AccountRow]]
            /\ seen[r].rcv \in AccountRow
        BY DEF TypeOK
      <3>2. b \in Int
        BY <2>3, <3>1 DEF AccountRow
      <3>3. [seen[r].rcv EXCEPT !.balance = b] \in AccountRow
        BY <3>1, <3>2 DEF AccountRow
      <3>4. \/ seen' = seen
            \/ seen' = [seen EXCEPT ![r].rcv.balance = b]
        BY <1>9 DEF CreditReceiver, MoneyAdd
      <3> HIDE DEF b
      <3> QED BY <3>1, <3>3, <3>4, SeenTyped
    <2> QED BY <1>9, <2>2, <2>4 DEF CreditReceiver, TypeOK, db
  <1>10. CASE Commit(r)
    BY <1>10, <1>c, ReplyTyped, PersistTyped DEF Commit, TypeOK
  <1>11. CASE CommitUnacknowledged(r)
    BY <1>11, ThrowTyped, PersistTyped DEF CommitUnacknowledged, TypeOK, SagaError
  <1>12. CASE RollBack(r)
    BY <1>12, ThrowTyped DEF RollBack, TypeOK, SagaError, db
  <1>13. CASE LockTimeout(r)
    BY <1>13, ThrowTyped DEF LockTimeout, TypeOK, SagaError, db
  <1>14. CASE Compensate(r)
    <2>1. payments' \subseteq PaymentRow
      <3>1. ASSUME NEW p \in PaymentRow PROVE [p EXCEPT !.status = "FAILED"] \in PaymentRow
        BY DEF PaymentRow, PaymentStatus
      <3> QED BY <1>14, <3>1 DEF Compensate, MarkFailed, TypeOK
    <2> QED BY <1>14, <1>c, <2>1, ReplyTyped DEF Compensate, TypeOK
  <1>15. CASE DatabaseError(r)
    BY <1>15, <1>c, ReplyTyped DEF DatabaseError, TypeOK, db
  <1>16. CASE Crash(r)
    BY <1>16, <1>l, GotoTyped DEF Crash, TypeOK, db
  <1>17. CASE WriteUnacknowledged(r)
    <2>1. pc[r] = "analyze" => From(r) \in Accounts
      BY DEF Checked, PastSender
    <2>2. analyses' \subseteq AnalysisRow
      BY <1>17, <2>1, SaveAnalysisTyped DEF WriteUnacknowledged, TypeOK
    <2>3. outbox' \subseteq OutboxRow
      BY <1>17 DEF WriteUnacknowledged, OutboxRow, EventName, TypeOK
    <2> QED BY <1>17, <1>c, <2>2, <2>3, ReplyTyped DEF WriteUnacknowledged, TypeOK
  <1> QED
    BY <1>1, <1>2, <1>3, <1>4, <1>5, <1>6, <1>7, <1>8, <1>9, <1>10, <1>11, <1>12,
       <1>13, <1>14, <1>15, <1>16, <1>17 DEF Step

\* Which await follows which.  Every action moves one handler along one of
\* these arcs and leaves all commands alone.
Action(r) ==
    \/ Receive(r) \/ Step(r)
    \/ CommitUnacknowledged(r) \/ RollBack(r)
    \/ DatabaseError(r) \/ WriteUnacknowledged(r) \/ Crash(r)

Arcs ==
    {<<"idle", "findKey">>, <<"findKey", "findSender">>, <<"findSender", "findReceiver">>,
     <<"findReceiver", "analyze">>, <<"analyze", "saveEvents">>, <<"analyze", "insert">>,
     <<"insert", "debit">>, <<"debit", "credit">>, <<"credit", "commit">>}
    \cup InSaga \X {"compensate"}
    \cup ({"idle", "commit", "compensate"} \cup PreSaga) \X {"done"}
    \cup InFlight \X {"crashed"}

LEMMA Moves ==
    ASSUME TypeOK, NEW r \in Requests, Action(r)
    PROVE  /\ cmd' = cmd
           /\ pc' = [pc EXCEPT ![r] = pc'[r]]
           /\ <<pc[r], pc'[r]>> \in Arcs
  <1> USE DEF Goto, Reply, Throw, Arcs, InSaga, PreSaga, InFlight
  <1>p. pc \in [Requests -> Labels]
    BY DEF TypeOK
  <1>1. CASE Receive(r)
    BY <1>1, <1>p DEF Receive
  <1>2. CASE FindKey(r)
    BY <1>2, <1>p DEF FindKey
  <1>3. CASE FindSender(r)
    BY <1>3, <1>p DEF FindSender
  <1>4. CASE FindReceiver(r)
    BY <1>4, <1>p DEF FindReceiver
  <1>5. CASE Analyze(r)
    BY <1>5, <1>p DEF Analyze
  <1>6. CASE SaveEvents(r)
    BY <1>6, <1>p DEF SaveEvents
  <1>7. CASE InsertPayment(r)
    BY <1>7, <1>p DEF InsertPayment
  <1>8. CASE DebitSender(r)
    BY <1>8, <1>p DEF DebitSender
  <1>9. CASE CreditReceiver(r)
    BY <1>9, <1>p DEF CreditReceiver
  <1>10. CASE Commit(r)
    BY <1>10, <1>p DEF Commit
  <1>11. CASE CommitUnacknowledged(r)
    BY <1>11, <1>p DEF CommitUnacknowledged
  <1>12. CASE RollBack(r)
    BY <1>12, <1>p DEF RollBack
  <1>13. CASE LockTimeout(r)
    BY <1>13, <1>p DEF LockTimeout, Blocked
  <1>14. CASE Compensate(r)
    BY <1>14, <1>p DEF Compensate
  <1>15. CASE DatabaseError(r)
    BY <1>15, <1>p DEF DatabaseError
  <1>16. CASE Crash(r)
    BY <1>16, <1>p DEF Crash
  <1>17. CASE WriteUnacknowledged(r)
    BY <1>17, <1>p DEF WriteUnacknowledged
  <1> QED
    BY <1>1, <1>2, <1>3, <1>4, <1>5, <1>6, <1>7, <1>8, <1>9, <1>10, <1>11, <1>12,
       <1>13, <1>14, <1>15, <1>16, <1>17 DEF Action, Step

\* What only one action can make true of the handler it moves.
LEMMA Entering ==
    ASSUME TypeOK, NEW r \in Requests, Action(r)
    PROVE  /\ pc'[r] = "findKey" => Receive(r)
           /\ pc'[r] = "findReceiver" => FindSender(r)
           /\ pc'[r] = "analyze" => FindReceiver(r)
           /\ pc'[r] \in {"saveEvents", "insert"} => Analyze(r)
           /\ pc'[r] = "debit" => InsertPayment(r)
           /\ pc'[r] = "credit" => DebitSender(r)
           /\ pc'[r] = "commit" => CreditReceiver(r)
  <1>p. pc \in [Requests -> Labels]
    BY DEF TypeOK
  <1>1. CASE Receive(r) \/ FindKey(r) \/ FindSender(r) \/ FindReceiver(r) \/ Analyze(r)
    BY <1>1, <1>p DEF Receive, FindKey, FindSender, FindReceiver, Analyze, Goto, Reply
  <1>2. CASE \/ SaveEvents(r) \/ Commit(r) \/ CommitUnacknowledged(r) \/ RollBack(r)
             \/ LockTimeout(r) \/ Compensate(r) \/ DatabaseError(r)
             \/ WriteUnacknowledged(r) \/ Crash(r)
    BY <1>2, <1>p DEF SaveEvents, Commit, CommitUnacknowledged, RollBack, LockTimeout,
                      Compensate, DatabaseError, WriteUnacknowledged, Crash,
                      Goto, Reply, Throw
  <1>3. CASE InsertPayment(r) \/ DebitSender(r) \/ CreditReceiver(r)
    BY <1>3, <1>p DEF InsertPayment, DebitSender, CreditReceiver, Goto, Throw
  <1> QED BY <1>1, <1>2, <1>3 DEF Action, Step

LEMMA StepChecked == TypeInv /\ [Next]_vars => Checked'
  <1> SUFFICES ASSUME TypeOK, Checked, [Next]_vars PROVE Checked'
    BY DEF TypeInv
  <1>1. CASE UNCHANGED vars
    BY <1>1 DEF vars, Checked, From, To, Amount
  <1>2. ASSUME NEW r \in Requests, Action(r) PROVE Checked'
    <2>1. /\ cmd' = cmd
          /\ pc' = [pc EXCEPT ![r] = pc'[r]]
          /\ <<pc[r], pc'[r]>> \in Arcs
      BY <1>2, Moves
    <2>2. \A q \in Requests \ {r} : pc'[q] = pc[q]
      BY <2>1 DEF TypeOK
    <2>3. \A q \in Requests : From(q)' = From(q) /\ To(q)' = To(q) /\ Amount(q)' = Amount(q)
      BY <2>1 DEF From, To, Amount
    <2>4. pc'[r] \in InFlight => cmd[r].key # BadKey
      <3>1. CASE pc[r] \in InFlight
        BY <3>1 DEF Checked
      <3>2. CASE pc'[r] = "findKey"
        BY <1>2, <3>2, Entering DEF Receive, Reply, Goto, TypeOK
      <3> QED BY <2>1, <3>1, <3>2 DEF Arcs, InFlight, PreSaga, InSaga
    <2>5. pc'[r] \in PastSender => From(r) \in Accounts
      <3>1. CASE pc[r] \in PastSender
        BY <3>1 DEF Checked
      <3>2. CASE pc'[r] = "findReceiver"
        BY <1>2, <3>2, Entering, CommandParts DEF FindSender, Reply, Goto, TypeOK
      <3> QED BY <2>1, <3>1, <3>2 DEF Arcs, InFlight, PreSaga, InSaga, PastSender
    <2>6. pc'[r] \in PastReceiver => To(r) \in Accounts /\ To(r) # From(r) /\ Amount(r) > 0
      <3>1. CASE pc[r] \in PastReceiver
        BY <3>1 DEF Checked
      <3>2. CASE pc'[r] = "analyze"
        BY <1>2, <3>2, Entering, CommandParts DEF FindReceiver, Reply, Goto, TypeOK
      <3> QED BY <2>1, <3>1, <3>2 DEF Arcs, InFlight, PreSaga, InSaga, PastReceiver
    <2> QED BY <2>1, <2>2, <2>3, <2>4, <2>5, <2>6 DEF Checked
  <1> QED BY <1>1, <1>2 DEF Next, Action

\* Every table keeps to its schema and every handler to its awaits, whatever
\* the commands and the number of requests.
THEOREM TypeCorrect == Spec => []TypeOK
  <1>1. Spec => []TypeInv
    <2>1. TypeInv /\ [Next]_vars => TypeInv'
      BY StepTypeOK, StepChecked DEF TypeInv
    <2> QED BY InitTypeInv, <2>1, PTL DEF Spec
  <1>2. TypeInv => TypeOK
    BY DEF TypeInv
  <1> QED BY <1>1, <1>2, PTL
-----------------------------------------------------------------------------
(* The book of payments.  A saga past its INSERT owns its key: no payment is *)
(* filed under it and no other saga is past the INSERT of the same key.  So  *)
(* a commit always adds a payment under a fresh key, and since every         *)
(* recorded payment is COMPLETED, no compensation ever touches one.          *)

Writing == {"debit", "credit", "commit"}

KeyReserved ==
    \A r \in Requests : pc[r] \in Writing =>
        /\ ~KeyTaken(KeyOf(r))
        /\ \A q \in Requests \ {r} : pc[q] \in Writing => KeyOf(q) # KeyOf(r)

Recorded ==
    \A p \in payments :
        /\ p.status = "COMPLETED" /\ p.from # p.to
        /\ p.key = KeyOf(p.id)
        /\ pc[p.id] \in {"compensate", "done", "crashed"}

BookInv == TypeInv /\ KeyReserved /\ Recorded /\ OnePaymentPerKey

LEMMA InitBookInv == Init => BookInv
  BY InitTypeInv
     DEF Init, BookInv, KeyReserved, Recorded, OnePaymentPerKey, Writing

BlockedEvent(r) == [event |-> "fraud.analysis.blocked", of |-> r]

\* Only a commit writes the accounts, the payments or the ledger.
LEMMA OnlyCommitWrites ==
    ASSUME TypeOK, Recorded, NEW r \in Requests, Action(r)
    PROVE  \/ /\ Persist(r)
              /\ pc[r] = "commit" /\ pc'[r] \in {"done", "compensate"}
           \/ /\ UNCHANGED <<account, payments, ledger>>
              /\ outbox' = outbox \/ outbox' = outbox \cup {BlockedEvent(r)}
  <1>p. pc \in [Requests -> Labels]
    BY DEF TypeOK
  <1>1. CASE Commit(r) \/ CommitUnacknowledged(r)
    BY <1>1, <1>p DEF Commit, CommitUnacknowledged, Goto, Reply, Throw
  <1>2. CASE SaveEvents(r) \/ WriteUnacknowledged(r)
    BY <1>2 DEF SaveEvents, WriteUnacknowledged, BlockedEvent
  <1>3. CASE Compensate(r)
    <2>1. MarkFailed(r) => UNCHANGED payments
      BY DEF MarkFailed, Recorded
    <2> QED BY <1>3, <2>1 DEF Compensate
  <1>4. CASE \/ Receive(r) \/ FindKey(r) \/ FindSender(r) \/ FindReceiver(r) \/ Analyze(r)
             \/ InsertPayment(r) \/ DebitSender(r) \/ CreditReceiver(r)
             \/ RollBack(r) \/ LockTimeout(r) \/ DatabaseError(r) \/ Crash(r)
    BY <1>4 DEF Receive, FindKey, FindSender, FindReceiver, Analyze, InsertPayment,
                DebitSender, CreditReceiver, RollBack, LockTimeout, DatabaseError, Crash, db
  <1> QED BY <1>1, <1>2, <1>3, <1>4 DEF Action, Step

LEMMA StepBookInv == BookInv /\ [Next]_vars => BookInv'
  <1> SUFFICES ASSUME BookInv, [Next]_vars PROVE BookInv'
    OBVIOUS
  <1>0. TypeInv' /\ TypeOK
    BY StepTypeOK, StepChecked DEF BookInv, TypeInv
  <1>1. CASE UNCHANGED vars
    BY <1>0, <1>1 DEF vars, BookInv, KeyReserved, Recorded, OnePaymentPerKey, KeyTaken, KeyOf
  <1>2. ASSUME NEW r \in Requests, Action(r) PROVE BookInv'
    <2>1. /\ cmd' = cmd
          /\ pc' = [pc EXCEPT ![r] = pc'[r]]
          /\ <<pc[r], pc'[r]>> \in Arcs
      BY <1>0, <1>2, Moves
    <2>2. \A q \in Requests \ {r} : pc'[q] = pc[q]
      BY <1>0, <2>1 DEF TypeOK
    <2>3. \A q \in Requests : KeyOf(q)' = KeyOf(q)
      BY <2>1 DEF KeyOf
    <2>4. CASE /\ Persist(r)
               /\ pc[r] = "commit" /\ pc'[r] \in {"done", "compensate"}
      <3> DEFINE new == [id |-> r, key |-> KeyOf(r), from |-> From(r), to |-> To(r),
                         amount |-> Amount(r), status |-> "COMPLETED"]
      <3>1. payments' = payments \cup {new}
        BY <2>4 DEF Persist
      <3>2. From(r) # To(r)
        BY <2>4 DEF BookInv, TypeInv, Checked, PastReceiver, InSaga
      <3>3. \A p \in payments : p.key # KeyOf(r)
        BY <2>4 DEF BookInv, KeyReserved, KeyTaken, Writing
      <3>4. KeyReserved'
        <4> SUFFICES ASSUME NEW q \in Requests, pc'[q] \in Writing
                     PROVE  /\ \A p \in payments' : p.key # KeyOf(q)
                            /\ \A s \in Requests \ {q} :
                                  pc'[s] \in Writing => KeyOf(s) # KeyOf(q)
          BY <2>3 DEF KeyReserved, KeyTaken
        <4>1. q # r /\ pc[q] \in Writing
          BY <2>2, <2>4 DEF Writing
        <4>2. /\ \A p \in payments : p.key # KeyOf(q)
              /\ \A s \in Requests \ {q} : pc[s] \in Writing => KeyOf(s) # KeyOf(q)
          BY <4>1 DEF BookInv, KeyReserved, KeyTaken
        <4>3. KeyOf(r) # KeyOf(q)
          BY <2>4, <4>1, <4>2 DEF Writing
        <4>4. \A s \in Requests \ {q} : pc'[s] \in Writing => KeyOf(s) # KeyOf(q)
          BY <2>2, <2>4, <4>2 DEF Writing
        <4> QED BY <3>1, <4>2, <4>3, <4>4
      <3>5. Recorded'
        <4>1. \A p \in payments : p.id # r
          BY <2>4 DEF BookInv, Recorded
        <4>2. \A p \in payments : p.id \in Requests
          BY <1>0 DEF TypeOK, PaymentRow
        <4> QED BY <2>2, <2>3, <2>4, <3>1, <3>2, <4>1, <4>2 DEF BookInv, Recorded
      <3>6. OnePaymentPerKey'
        BY <3>1, <3>3 DEF BookInv, OnePaymentPerKey
      <3> QED BY <1>0, <3>4, <3>5, <3>6 DEF BookInv
    <2>5. CASE UNCHANGED <<account, payments, ledger>>
      <3>1. KeyReserved'
        <4>1. CASE pc'[r] = "debit"
          <5>1. ~Blocked(r) /\ ~KeyTaken(KeyOf(r)) /\ pc[r] = "insert"
            BY <1>0, <1>2, <4>1, Entering DEF InsertPayment, Throw, Goto, TypeOK
          <5>2. \A q \in Requests \ {r} : pc[q] \in Writing => KeyOf(q) # KeyOf(r)
            BY <5>1 DEF Blocked, HoldsKey, Writing
          <5> QED BY <2>2, <2>3, <2>5, <4>1, <5>1, <5>2
                  DEF BookInv, KeyReserved, KeyTaken, Writing
        <4>2. CASE pc'[r] # "debit"
          <5>1. pc'[r] \in Writing => pc[r] \in Writing
            BY <2>1, <4>2 DEF Writing, Arcs, PreSaga, InSaga, InFlight
          <5> QED BY <2>2, <2>3, <2>5, <5>1 DEF BookInv, KeyReserved, KeyTaken
        <4> QED BY <4>1, <4>2
      <3>2. Recorded'
        <4>1. \A p \in payments : p.id \in Requests
          BY <1>0 DEF TypeOK, PaymentRow
        <4>2. pc[r] \in {"compensate", "done", "crashed"} =>
              pc'[r] \in {"compensate", "done", "crashed"}
          BY <2>1 DEF Arcs, PreSaga, InSaga, InFlight
        <4> QED BY <2>2, <2>3, <2>5, <4>1, <4>2 DEF BookInv, Recorded
      <3>3. OnePaymentPerKey'
        BY <2>5 DEF BookInv, OnePaymentPerKey
      <3> QED BY <1>0, <3>1, <3>2, <3>3 DEF BookInv
    <2> QED BY <1>0, <1>2, <2>4, <2>5, OnlyCommitWrites DEF BookInv
  <1> QED BY <1>1, <1>2 DEF Next, Action

LEMMA BookInvariant == Spec => []BookInv
  BY InitBookInv, StepBookInv, PTL DEF Spec

\* Any number of concurrent requests with one key leave one payment.
THEOREM OnePayment == Spec => []OnePaymentPerKey
  <1>1. BookInv => OnePaymentPerKey
    BY DEF BookInv
  <1> QED BY <1>1, BookInvariant, PTL

\* A recorded payment is never changed or removed, not even by the
\* compensation of a saga whose commit was not acknowledged.
THEOREM Final == Spec => RecordedIsFinal
  <1>1. BookInv /\ [Next]_vars => [payments \subseteq payments']_vars
    <2> SUFFICES ASSUME BookInv, NEW r \in Requests, Action(r)
                 PROVE  payments \subseteq payments'
      BY DEF Next, Action, vars
    <2> QED BY OnlyCommitWrites DEF BookInv, TypeInv, Persist
  <1> QED BY <1>1, BookInvariant, PTL DEF Spec, RecordedIsFinal

\* Whatever fails, no row stays behind for the compensation to mark FAILED.
THEOREM NoneHalfDone == Spec => []NothingHalfDone
  <1>1. BookInv => NothingHalfDone
    BY DEF BookInv, Recorded, NothingHalfDone
  <1> QED BY <1>1, BookInvariant, PTL

LEMMA ImageAdd ==
    ASSUME NEW S, NEW T, NEW x, T = S \cup {x}
    PROVE  {o.of : o \in T} = {o.of : o \in S} \cup {x.of}
  OBVIOUS

\* The tables refine PaymentBook: a commit is a Record, every other step of
\* every handler leaves the book as it is.
THEOREM BookImplemented == Spec => ImplementsBook
  <1>1. Init => Book!Init
    BY DEF Init, Book!Init, Balances, OpeningBalances
  <1>2. BookInv /\ [Next]_vars => [Book!Next]_(Book!book)
    <2> SUFFICES ASSUME BookInv, [Next]_vars PROVE [Book!Next]_(Book!book)
      OBVIOUS
    <2>1. CASE UNCHANGED vars
      BY <2>1 DEF vars, Book!book, Balances
    <2>2. ASSUME NEW r \in Requests, Persist(r), pc[r] = "commit"
          PROVE  Book!Next
      <3> DEFINE p == [id |-> r, key |-> KeyOf(r), from |-> From(r), to |-> To(r),
                       amount |-> Amount(r), status |-> "COMPLETED"]
                 debit == Entry(r, From(r), "DEBIT", seen[r].snd.balance)
                 credit == Entry(r, To(r), "CREDIT", seen[r].rcv.balance)
                 announced == {o.of : o \in {x \in outbox :
                                  x.event = "payments.payment.initiated"}}
      <3>1. /\ payments' = payments \cup {p}
            /\ ledger' = ledger \cup {debit, credit}
        BY <2>2 DEF Persist
      <3>2. \A q \in payments : q.key # p.key
        BY <2>2 DEF BookInv, KeyReserved, KeyTaken, Writing
      <3>3. /\ From(r) \in Accounts /\ To(r) \in Accounts /\ From(r) # To(r)
        BY <2>2 DEF BookInv, TypeInv, Checked, PastSender, PastReceiver, InSaga
      <3>4. /\ Book!Posts(debit, p, "DEBIT", p.from)
            /\ Book!Posts(credit, p, "CREDIT", p.to)
        BY DEF Book!Posts, Entry
      <3>5. announced' = announced \cup {p.id}
        <4>1. outbox' = outbox \cup {[event |-> "payments.payment.initiated", of |-> r]}
          BY <2>2 DEF Persist, DomainEvents, Transitions
        <4> DEFINE ev == [event |-> "payments.payment.initiated", of |-> r]
                   S == {x \in outbox : x.event = "payments.payment.initiated"}
                   T == {x \in outbox' : x.event = "payments.payment.initiated"}
        <4>2. T = S \cup {ev}
          BY <4>1
        <4>3. announced' = {o.of : o \in T} /\ announced = {o.of : o \in S}
          OBVIOUS
        <4>4. ev.of = p.id
          OBVIOUS
        <4> HIDE DEF announced, ev, S, T, p
        <4> QED BY <4>2, <4>3, <4>4, ImageAdd
      <3>6. Balances' = [Balances EXCEPT ![p.from] = debit.balance, ![p.to] = credit.balance]
        <4>1. account' = [account EXCEPT ![From(r)].balance = seen[r].snd.balance,
                                         ![To(r)].balance = seen[r].rcv.balance]
          BY <2>2 DEF Persist
        <4>2. account \in [Accounts -> AccountRow]
          BY DEF BookInv, TypeInv, TypeOK
        <4>3. \A a \in Accounts : account'[a].balance =
                 IF a = To(r) THEN seen[r].rcv.balance
                 ELSE IF a = From(r) THEN seen[r].snd.balance
                 ELSE account[a].balance
          BY <3>3, <4>1, <4>2 DEF AccountRow
        <4> QED BY <3>3, <4>3 DEF Balances, Entry
      <3>7. p \in payments' /\ debit \in ledger' /\ credit \in ledger'
            /\ p.status = "COMPLETED" /\ p.from # p.to
        BY <3>1, <3>3
      <3> HIDE DEF p, debit, credit, announced
      <3> QED BY <3>1, <3>2, <3>4, <3>5, <3>6, <3>7 DEF Book!Next, Book!Record, announced
    <2>3. ASSUME NEW r \in Requests, UNCHANGED <<account, payments, ledger>>,
                 outbox' = outbox \/ outbox' = outbox \cup {BlockedEvent(r)}
          PROVE  UNCHANGED Book!book
      BY <2>3 DEF Book!book, Balances, BlockedEvent
    <2> QED BY <2>1, <2>2, <2>3, OnlyCommitWrites DEF BookInv, TypeInv, Next, Action
  <1> QED BY <1>1, <1>2, BookInvariant, PTL DEF Spec, ImplementsBook, Book!Spec
-----------------------------------------------------------------------------
(* Answers.                                                                  *)

AnswerInv == BookInv /\ AnswersAreDurable

LEMMA StepAnswerInv == AnswerInv /\ [Next]_vars => AnswerInv'
  <1> SUFFICES ASSUME BookInv, AnswersAreDurable, [Next]_vars PROVE AnswersAreDurable'
    BY StepBookInv DEF AnswerInv
  <1> DEFINE Durable(book, p, q) == \E x \in book : /\ x.id = p
                                                     /\ x.key = KeyOf(q)
                                                     /\ x.status = "COMPLETED"
  <1>0. TypeOK
    BY DEF BookInv, TypeInv
  <1>1. CASE UNCHANGED vars
    BY <1>1 DEF vars, AnswersAreDurable, KeyOf
  <1>2. ASSUME NEW r \in Requests, Action(r) PROVE AnswersAreDurable'
    <2>1. cmd' = cmd /\ payments \subseteq payments'
      BY <1>0, <1>2, Moves, OnlyCommitWrites DEF BookInv, Persist
    <2>2. \A q \in Requests : KeyOf(q)' = KeyOf(q)
      BY <2>1 DEF KeyOf
    <2>3. ASSUME NEW p, NEW q, Durable(payments, p, q) PROVE Durable(payments', p, q)
      BY <2>1, <2>3
    <2>4. /\ \A q \in Requests \ {r} : answer'[q] = answer[q]
          /\ answer'[r].code \in {"created", "replayed"} =>
                \/ answer'[r] = answer[r]
                \/ Durable(payments', answer'[r].payment, r)
      <3>a. answer \in [Requests -> [code : Code, payment : Requests \cup {None}]]
        BY <1>0 DEF TypeOK
      <3>1. CASE Receive(r) \/ FindSender(r) \/ FindReceiver(r) \/ SaveEvents(r)
                 \/ Compensate(r) \/ DatabaseError(r) \/ WriteUnacknowledged(r)
        BY <3>1, <3>a DEF Receive, FindSender, FindReceiver, SaveEvents, Compensate,
                    DatabaseError, WriteUnacknowledged, Reply
      <3>2. CASE Analyze(r) \/ InsertPayment(r) \/ DebitSender(r) \/ CreditReceiver(r)
                 \/ CommitUnacknowledged(r) \/ RollBack(r) \/ LockTimeout(r) \/ Crash(r)
        BY <3>2, <3>a DEF Analyze, InsertPayment, DebitSender, CreditReceiver,
                    CommitUnacknowledged, RollBack, LockTimeout, Crash
      <3>3. CASE FindKey(r)
        <4>1. CASE UNCHANGED answer
          BY <4>1
        <4>2. ASSUME NEW p \in payments, p.key = KeyOf(r), Reply(r, "replayed", p.id)
              PROVE  /\ \A q \in Requests \ {r} : answer'[q] = answer[q]
                     /\ Durable(payments', answer'[r].payment, r)
          BY <2>1, <2>2, <3>a, <4>2 DEF Reply, BookInv, Recorded
        <4> QED BY <3>3, <4>1, <4>2 DEF FindKey
      <3>4. CASE Commit(r)
        <4>1. answer' = [answer EXCEPT ![r] = [code |-> "created", payment |-> r]]
          BY <3>4 DEF Commit, Reply
        <4>2. [id |-> r, key |-> KeyOf(r), from |-> From(r), to |-> To(r),
               amount |-> Amount(r), status |-> "COMPLETED"] \in payments'
          BY <3>4 DEF Commit, Persist
        <4> QED BY <3>a, <4>1, <4>2
      <3> QED BY <1>2, <3>1, <3>2, <3>3, <3>4 DEF Action, Step
    <2> QED BY <2>2, <2>3, <2>4 DEF AnswersAreDurable
  <1> QED BY <1>1, <1>2 DEF Next, Action

\* What a client is told about a payment stays true: its payment is there,
\* COMPLETED and under the client's key.
THEOREM Durable == Spec => []AnswersAreDurable
  <1>1. Init => AnswerInv
    BY InitBookInv DEF Init, AnswerInv, AnswersAreDurable
  <1>2. AnswerInv => AnswersAreDurable
    BY DEF AnswerInv
  <1> QED BY <1>1, <1>2, StepAnswerInv, PTL DEF Spec
-----------------------------------------------------------------------------
(* The five tables.  A saga runs only after an analysis that let it through, *)
(* and an analysis keeps its decision, so what a commit adds to each table   *)
(* fits what the others hold.                                                *)

Analyzed(r, d) == \E x \in analyses : x.id = r /\ x.decision = d

Judged ==
    \A r \in Requests :
        /\ pc[r] \in InSaga => \E d \in Decision \ {"BLOCKED"} : Analyzed(r, d)
        /\ pc[r] = "saveEvents" => Analyzed(r, "BLOCKED")

TablesInv == BookInv /\ TablesAgree /\ Judged

LEMMA AnalysesSteps ==
    ASSUME TypeOK, NEW r \in Requests, Action(r)
    PROVE  /\ \/ UNCHANGED analyses
              \/ Persist(r) /\ pc[r] = "commit"
              \/ \E d \in Decision :
                    /\ SaveAnalysis(r, d)
                    /\ pc'[r] \in {"done", IF d = "BLOCKED" THEN "saveEvents" ELSE "insert"}
           /\ \A q \in Requests, d \in Decision : Analyzed(q, d) => Analyzed(q, d)'
           /\ \A q \in Requests \ {r} : answer'[q] = answer[q]
           /\ answer'[r].code = "blocked" => answer'[r] = answer[r] \/ SaveEvents(r)
  <1>a. /\ answer \in [Requests -> [code : Code, payment : Requests \cup {None}]]
        /\ pc \in [Requests -> Labels]
    BY DEF TypeOK
  <1> DEFINE Adds(d) ==
                /\ SaveAnalysis(r, d)
                /\ pc'[r] \in {"done", IF d = "BLOCKED" THEN "saveEvents" ELSE "insert"}
  <1>1. \/ UNCHANGED analyses
        \/ Persist(r) /\ pc[r] = "commit"
        \/ \E d \in Decision : Adds(d)
    <2>1. CASE Analyze(r)
      BY <1>a, <2>1 DEF Analyze, Goto
    <2>4. CASE WriteUnacknowledged(r)
      BY <1>a, <2>4 DEF WriteUnacknowledged, Reply, Goto
    <2>2. CASE Commit(r) \/ CommitUnacknowledged(r)
      BY <2>2 DEF Commit, CommitUnacknowledged
    <2>3. CASE \/ Receive(r) \/ FindKey(r) \/ FindSender(r) \/ FindReceiver(r)
               \/ SaveEvents(r) \/ InsertPayment(r) \/ DebitSender(r) \/ CreditReceiver(r)
               \/ RollBack(r) \/ LockTimeout(r) \/ Compensate(r) \/ DatabaseError(r) \/ Crash(r)
      BY <2>3 DEF Receive, FindKey, FindSender, FindReceiver, SaveEvents, InsertPayment,
                  DebitSender, CreditReceiver, RollBack, LockTimeout, Compensate,
                  DatabaseError, Crash, db
    <2> QED BY <2>1, <2>2, <2>3, <2>4 DEF Action, Step
  <1>2. ASSUME NEW q \in Requests, NEW d \in Decision, Analyzed(q, d)
        PROVE  Analyzed(q, d)'
    <2>1. PICK x \in analyses : x.id = q /\ x.decision = d
      BY <1>2 DEF Analyzed
    <2>2. CASE Persist(r)
      <3> DEFINE y == IF x.id = r THEN [x EXCEPT !.payment = r] ELSE x
      <3>1. x \in AnalysisRow
        BY <2>1 DEF TypeOK
      <3>2. y \in analyses'
        BY <2>1, <2>2 DEF Persist
      <3>3. y.id = q /\ y.decision = d
        BY <2>1, <3>1 DEF AnalysisRow
      <3> QED BY <3>2, <3>3 DEF Analyzed
    <2>3. CASE analyses \subseteq analyses'
      BY <2>1, <2>3 DEF Analyzed
    <2> QED BY <1>1, <2>2, <2>3 DEF SaveAnalysis
  <1>3. /\ \A q \in Requests \ {r} : answer'[q] = answer[q]
        /\ answer'[r].code = "blocked" => answer'[r] = answer[r] \/ SaveEvents(r)
    <2>1. CASE SaveEvents(r)
      BY <1>a, <2>1 DEF SaveEvents, Reply
    <2>2. CASE \/ Receive(r) \/ FindKey(r) \/ FindSender(r) \/ FindReceiver(r)
               \/ Commit(r) \/ Compensate(r) \/ DatabaseError(r) \/ WriteUnacknowledged(r)
      BY <1>a, <2>2 DEF Receive, FindKey, FindSender, FindReceiver, Commit, Compensate,
                        DatabaseError, WriteUnacknowledged, Reply
    <2>3. CASE \/ Analyze(r) \/ InsertPayment(r) \/ DebitSender(r) \/ CreditReceiver(r)
               \/ CommitUnacknowledged(r) \/ RollBack(r) \/ LockTimeout(r) \/ Crash(r)
      BY <2>3 DEF Analyze, InsertPayment, DebitSender, CreditReceiver,
                  CommitUnacknowledged, RollBack, LockTimeout, Crash
    <2> QED BY <2>1, <2>2, <2>3 DEF Action, Step
  <1> HIDE DEF Adds
  <1> QED BY <1>1, <1>2, <1>3 DEF Adds

LEMMA StepJudged ==
    ASSUME TypeOK, Judged, NEW r \in Requests, Action(r)
    PROVE  Judged'
  <1>1. /\ pc' = [pc EXCEPT ![r] = pc'[r]]
        /\ <<pc[r], pc'[r]>> \in Arcs
        /\ pc \in [Requests -> Labels]
    BY Moves DEF TypeOK
  <1>2. \A q \in Requests, d \in Decision : Analyzed(q, d) => Analyzed(q, d)'
    BY AnalysesSteps
  <1>3. ASSUME NEW q \in Requests \ {r}
        PROVE  /\ pc'[q] \in InSaga => \E d \in Decision \ {"BLOCKED"} : Analyzed(q, d)'
               /\ pc'[q] = "saveEvents" => Analyzed(q, "BLOCKED")'
    <2>1. pc'[q] = pc[q]
      BY <1>1
    <2> QED BY <1>2, <2>1 DEF Judged, Decision
  <1>4. CASE pc'[r] \in {"saveEvents", "insert"}
    <2>1. PICK d \in Decision :
              /\ SaveAnalysis(r, d)
              /\ pc'[r] = IF d = "BLOCKED" THEN "saveEvents" ELSE "insert"
      BY <1>1, <1>4, Entering DEF Analyze, Goto
    <2>2. Analyzed(r, d)'
      <3> DEFINE x == [id |-> r, sender |-> From(r), decision |-> d, payment |-> None]
      <3>1. x \in analyses' /\ x.id = r /\ x.decision = d
        BY <2>1 DEF SaveAnalysis
      <3> QED BY <3>1 DEF Analyzed
    <2> QED BY <1>3, <2>1, <2>2 DEF Judged, InSaga
  <1>5. CASE pc'[r] \notin {"saveEvents", "insert"}
    <2>1. pc'[r] \in InSaga => pc[r] \in InSaga
      BY <1>1, <1>5 DEF Arcs, InSaga, PreSaga, InFlight
    <2>2. pc'[r] \in InSaga => \E d \in Decision \ {"BLOCKED"} : Analyzed(r, d)'
      BY <1>2, <2>1 DEF Judged
    <2> QED BY <1>3, <1>5, <2>2 DEF Judged
  <1> QED BY <1>4, <1>5

LEMMA CommitAgrees ==
    ASSUME TablesInv, NEW r \in Requests, Action(r), Persist(r), pc[r] = "commit"
    PROVE  TablesAgree'
  <1> DEFINE new == [id |-> r, key |-> KeyOf(r), from |-> From(r), to |-> To(r),
                     amount |-> Amount(r), status |-> "COMPLETED"]
             debit == Entry(r, From(r), "DEBIT", seen[r].snd.balance)
             credit == Entry(r, To(r), "CREDIT", seen[r].rcv.balance)
             Linked(x) == IF x.id = r THEN [x EXCEPT !.payment = r] ELSE x
  <1>0. TypeOK /\ Recorded /\ Judged /\ TablesAgree
    BY DEF TablesInv, BookInv, TypeInv
  <1>1. /\ payments' = payments \cup {new}
        /\ ledger' = ledger \cup {debit, credit}
        /\ outbox' = outbox \cup {[event |-> "payments.payment.initiated", of |-> r]}
        /\ analyses' = {Linked(x) : x \in analyses}
    BY DEF Persist, DomainEvents, Transitions
  <1>2. /\ \A p \in payments : p.id # r
        /\ \A e \in ledger : e.payment # r
    BY <1>0 DEF Recorded, TablesAgree
  <1>3. \A x \in analyses : /\ Linked(x).id = x.id
                            /\ Linked(x).decision = x.decision
                            /\ Linked(x).payment = IF x.id = r THEN r ELSE x.payment
    BY <1>0 DEF TypeOK, AnalysisRow
  <1>4. /\ debit.payment = r /\ debit.type = "DEBIT" /\ debit.account = new.from
        /\ credit.payment = r /\ credit.type = "CREDIT" /\ credit.account = new.to
        /\ debit.amount = new.amount /\ credit.amount = new.amount /\ new.id = r
    BY DEF Entry
  <1> HIDE DEF new, debit, credit, Linked
  <1>5. ASSUME NEW p \in payments'
        PROVE  /\ \A t \in {"DEBIT", "CREDIT"} :
                     \E e \in ledger' :
                        /\ e.payment = p.id /\ e.type = t /\ e.amount = p.amount
                        /\ e.account = IF t = "DEBIT" THEN p.from ELSE p.to
               /\ [event |-> "payments.payment.initiated", of |-> p.id] \in outbox'
               /\ \E x \in analyses' : x.id = p.id /\ x.payment = p.id /\ x.decision # "BLOCKED"
    <2>1. CASE p = new
      <3>1. \A t \in {"DEBIT", "CREDIT"} :
               \E e \in ledger' : /\ e.payment = p.id /\ e.type = t /\ e.amount = p.amount
                                  /\ e.account = IF t = "DEBIT" THEN p.from ELSE p.to
        BY <1>1, <1>4, <2>1
      <3>2. PICK x \in analyses : x.id = r /\ x.decision # "BLOCKED"
        BY <1>0 DEF Judged, Analyzed, InSaga
      <3>3. Linked(x) \in analyses'
        BY <1>1
      <3> QED BY <1>1, <1>3, <1>4, <2>1, <3>1, <3>2, <3>3
    <2>2. CASE p \in payments
      <3>1. \A t \in {"DEBIT", "CREDIT"} :
               \E e \in ledger' : /\ e.payment = p.id /\ e.type = t /\ e.amount = p.amount
                                  /\ e.account = IF t = "DEBIT" THEN p.from ELSE p.to
        <4> SUFFICES ASSUME NEW t \in {"DEBIT", "CREDIT"}
                     PROVE  \E e \in ledger' :
                              /\ e.payment = p.id /\ e.type = t /\ e.amount = p.amount
                              /\ e.account = IF t = "DEBIT" THEN p.from ELSE p.to
          OBVIOUS
        <4>1. PICK e \in ledger :
                 /\ e.payment = p.id /\ e.type = t /\ e.amount = p.amount
                 /\ e.account = IF t = "DEBIT" THEN p.from ELSE p.to
          BY <1>0, <2>2 DEF TablesAgree
        <4>2. e \in ledger'
          BY <1>1
        <4> QED BY <4>1, <4>2
      <3>2. PICK x \in analyses : x.id = p.id /\ x.payment = p.id /\ x.decision # "BLOCKED"
        BY <1>0, <2>2 DEF TablesAgree
      <3>3. Linked(x) \in analyses'
        BY <1>1
      <3>4. [event |-> "payments.payment.initiated", of |-> p.id] \in outbox'
        BY <1>0, <1>1, <2>2 DEF TablesAgree
      <3> QED BY <1>2, <1>3, <2>2, <3>1, <3>2, <3>3, <3>4
    <2> QED BY <1>1, <2>1, <2>2
  <1>6. \A e, f \in ledger' : e.payment = f.payment /\ e.type = f.type => e = f
    BY <1>0, <1>1, <1>2, <1>4 DEF TablesAgree
  <1>7. \A e \in ledger' : \E p \in payments' : p.id = e.payment
    BY <1>0, <1>1, <1>4 DEF TablesAgree
  <1>8. \A o \in outbox' : o.event # "fraud.analysis.blocked" => \E p \in payments' : p.id = o.of
    BY <1>0, <1>1, <1>4 DEF TablesAgree
  <1>9. \A x \in analyses' : x.payment # None => \E p \in payments' : p.id = x.payment
    BY <1>0, <1>1, <1>3, <1>4 DEF TablesAgree
  <1>10. ASSUME NEW q \in Requests, answer'[q].code = "blocked"
         PROVE  /\ [event |-> "fraud.analysis.blocked", of |-> q] \in outbox'
                /\ \E x \in analyses' : x.id = q /\ x.decision = "BLOCKED"
    <2>1. answer'[q] = answer[q]
      BY <1>0, <1>10, AnalysesSteps DEF SaveEvents
    <2>2. Analyzed(q, "BLOCKED") /\ [event |-> "fraud.analysis.blocked", of |-> q] \in outbox
      BY <1>0, <1>10, <2>1 DEF TablesAgree, Analyzed
    <2>3. Analyzed(q, "BLOCKED")'
      BY <1>0, <2>2, AnalysesSteps DEF Decision
    <2> QED BY <1>1, <2>2, <2>3 DEF Analyzed
  <1> QED BY <1>5, <1>6, <1>7, <1>8, <1>9, <1>10 DEF TablesAgree

LEMMA OthersAgree ==
    ASSUME TablesInv, NEW r \in Requests, Action(r), ~(Persist(r) /\ pc[r] = "commit"),
           UNCHANGED <<account, payments, ledger>>,
           outbox' = outbox \/ outbox' = outbox \cup {BlockedEvent(r)}
    PROVE  TablesAgree'
  <1>0. TypeOK /\ Judged /\ TablesAgree
    BY DEF TablesInv, BookInv, TypeInv
  <1>1. /\ payments' = payments /\ ledger' = ledger /\ outbox \subseteq outbox'
        /\ \A o \in outbox' \ outbox : o.event = "fraud.analysis.blocked"
    BY DEF BlockedEvent
  <1>2. analyses \subseteq analyses' /\ \A x \in analyses' \ analyses : x.payment = None
    BY <1>0, AnalysesSteps DEF SaveAnalysis
  <1>3. ASSUME NEW q \in Requests, answer'[q].code = "blocked"
        PROVE  /\ [event |-> "fraud.analysis.blocked", of |-> q] \in outbox'
               /\ \E x \in analyses' : x.id = q /\ x.decision = "BLOCKED"
    <2>1. CASE answer'[q] = answer[q]
      BY <1>0, <1>1, <1>2, <1>3, <2>1 DEF TablesAgree
    <2>2. CASE q = r /\ SaveEvents(r)
      BY <1>0, <1>2, <2>2 DEF SaveEvents, Judged, Analyzed
    <2> QED BY <1>0, <1>3, <2>1, <2>2, AnalysesSteps
  <1>4. ASSUME NEW p \in payments'
        PROVE  /\ \A t \in {"DEBIT", "CREDIT"} :
                     \E e \in ledger' :
                        /\ e.payment = p.id /\ e.type = t /\ e.amount = p.amount
                        /\ e.account = IF t = "DEBIT" THEN p.from ELSE p.to
               /\ [event |-> "payments.payment.initiated", of |-> p.id] \in outbox'
               /\ \E x \in analyses' : x.id = p.id /\ x.payment = p.id /\ x.decision # "BLOCKED"
    <2>1. p \in payments
      BY <1>1
    <2>2. \A t \in {"DEBIT", "CREDIT"} :
             \E e \in ledger : /\ e.payment = p.id /\ e.type = t /\ e.amount = p.amount
                               /\ e.account = IF t = "DEBIT" THEN p.from ELSE p.to
      BY <1>0, <2>1 DEF TablesAgree
    <2>3. /\ [event |-> "payments.payment.initiated", of |-> p.id] \in outbox
          /\ \E x \in analyses : x.id = p.id /\ x.payment = p.id /\ x.decision # "BLOCKED"
      BY <1>0, <2>1 DEF TablesAgree
    <2> QED BY <1>1, <1>2, <2>2, <2>3
  <1>5. /\ \A e, f \in ledger' : e.payment = f.payment /\ e.type = f.type => e = f
        /\ \A e \in ledger' : \E p \in payments' : p.id = e.payment
        /\ \A o \in outbox' : o.event # "fraud.analysis.blocked" => \E p \in payments' : p.id = o.of
        /\ \A x \in analyses' : x.payment # None => \E p \in payments' : p.id = x.payment
    BY <1>0, <1>1, <1>2 DEF TablesAgree
  <1> QED BY <1>3, <1>4, <1>5 DEF TablesAgree

LEMMA StepTablesInv == TablesInv /\ [Next]_vars => TablesInv'
  <1> SUFFICES ASSUME TablesInv, [Next]_vars PROVE TablesAgree' /\ Judged'
    BY StepBookInv DEF TablesInv
  <1>1. CASE UNCHANGED vars
    BY <1>1 DEF vars, TablesInv, TablesAgree, Judged, Analyzed
  <1>2. ASSUME NEW r \in Requests, Action(r) PROVE TablesAgree' /\ Judged'
    <2>0. TypeOK /\ Recorded /\ Judged
      BY DEF TablesInv, BookInv, TypeInv
    <2>1. CASE Persist(r) /\ pc[r] = "commit"
      BY <1>2, <2>0, <2>1, CommitAgrees, StepJudged
    <2>2. CASE ~(Persist(r) /\ pc[r] = "commit")
      BY <1>2, <2>0, <2>2, OthersAgree, OnlyCommitWrites, StepJudged
    <2> QED BY <2>1, <2>2
  <1> QED BY <1>1, <1>2 DEF Next, Action

\* Payments, ledger, analyses and outbox tell one story, however many requests
\* write them and whichever of their calls fail.
THEOREM TablesTellOneStory == Spec => []TablesAgree
  <1>1. Init => TablesInv
    BY InitBookInv DEF Init, TablesInv, TablesAgree, Judged, InSaga
  <1>2. TablesInv => TablesAgree
    BY DEF TablesInv
  <1> QED BY <1>1, <1>2, StepTablesInv, PTL DEF Spec
-----------------------------------------------------------------------------
(* Money.  A saga may write a balance that is out of date, but never one     *)
(* below zero: what it writes was computed from a balance an account once    *)
(* had, and Money.subtract refuses to go below zero.                         *)

SeenSolvent ==
    \A r \in Requests : seen[r].snd.balance >= 0 /\ seen[r].rcv.balance >= 0

FundsInv == BookInv /\ NoOverdraft /\ SeenSolvent

LEMMA SeenSteps ==
    ASSUME BookInv, NoOverdraft, SeenSolvent, NEW r \in Requests, Action(r)
    PROVE  SeenSolvent'
  <1>t. /\ TypeOK /\ Checked
        /\ seen \in [Requests -> [snd : AccountRow, rcv : AccountRow]]
        /\ account \in [Accounts -> AccountRow]
    BY DEF BookInv, TypeInv, TypeOK
  <1>1. CASE UNCHANGED seen
    BY <1>1 DEF SeenSolvent
  <1>2. CASE FindSender(r)
    <2>1. SUFFICES ASSUME From(r) # NoAccount,
                          seen' = [seen EXCEPT ![r].snd = account[From(r)]]
                   PROVE  SeenSolvent'
      BY <1>1, <1>2 DEF FindSender
    <2>2. From(r) \in Accounts
      BY <1>t, <2>1, CommandParts DEF TypeOK
    <2> QED BY <1>t, <2>1, <2>2 DEF SeenSolvent, NoOverdraft
  <1>3. CASE FindReceiver(r)
    <2>1. SUFFICES ASSUME To(r) # NoAccount,
                          seen' = [seen EXCEPT ![r].rcv = account[To(r)]]
                   PROVE  SeenSolvent'
      BY <1>1, <1>3 DEF FindReceiver
    <2>2. To(r) \in Accounts
      BY <1>t, <2>1, CommandParts DEF TypeOK
    <2> QED BY <1>t, <2>1, <2>2 DEF SeenSolvent, NoOverdraft
  <1>4. CASE DebitSender(r)
    <2> DEFINE b == seen[r].snd.balance - Amount(r)
    <2>1. SUFFICES ASSUME DebitError(seen[r].snd, Amount(r)) = None,
                          seen' = [seen EXCEPT ![r].snd.balance = b]
                   PROVE  SeenSolvent'
      BY <1>1, <1>4 DEF DebitSender, MoneySubtract
    <2>2. Amount(r) \in Int /\ seen[r].snd.balance \in Int
      BY <1>t, CommandParts DEF TypeOK, AccountRow
    <2>3. b >= 0
      BY <2>1, <2>2, PaymentsAssumption DEF DebitError, SagaError
    <2> HIDE DEF b
    <2> QED BY <1>t, <2>1, <2>3 DEF SeenSolvent, AccountRow
  <1>5. CASE CreditReceiver(r)
    <2> DEFINE b == seen[r].rcv.balance + Amount(r)
    <2>1. SUFFICES ASSUME seen' = [seen EXCEPT ![r].rcv.balance = b]
                   PROVE  SeenSolvent'
      BY <1>1, <1>5 DEF CreditReceiver, MoneyAdd
    <2>2. Amount(r) \in Int /\ seen[r].rcv.balance \in Int
      BY <1>t, CommandParts DEF TypeOK, AccountRow
    <2>3. Amount(r) > 0
      BY <1>t, <1>5 DEF CreditReceiver, Checked, PastReceiver, InSaga
    <2>4. b >= 0
      BY <2>2, <2>3 DEF SeenSolvent
    <2> HIDE DEF b
    <2> QED BY <1>t, <2>1, <2>4 DEF SeenSolvent, AccountRow
  <1>6. CASE \/ Receive(r) \/ FindKey(r) \/ Analyze(r) \/ SaveEvents(r) \/ InsertPayment(r)
             \/ Commit(r) \/ CommitUnacknowledged(r) \/ RollBack(r) \/ LockTimeout(r)
             \/ Compensate(r) \/ DatabaseError(r) \/ WriteUnacknowledged(r) \/ Crash(r)
    BY <1>1, <1>6 DEF Receive, FindKey, Analyze, SaveEvents, InsertPayment, Commit,
                      CommitUnacknowledged, RollBack, LockTimeout, Compensate,
                      DatabaseError, WriteUnacknowledged, Crash
  <1> QED BY <1>2, <1>3, <1>4, <1>5, <1>6 DEF Action, Step

LEMMA StepFundsInv == FundsInv /\ [Next]_vars => FundsInv'
  <1> SUFFICES ASSUME BookInv, NoOverdraft, SeenSolvent, [Next]_vars
               PROVE  NoOverdraft' /\ SeenSolvent'
    BY StepBookInv DEF FundsInv
  <1>1. CASE UNCHANGED vars
    BY <1>1 DEF vars, NoOverdraft, SeenSolvent
  <1>2. ASSUME NEW r \in Requests, Action(r) PROVE NoOverdraft' /\ SeenSolvent'
    <2>1. CASE Persist(r) /\ pc[r] = "commit"
      <3>1. From(r) \in Accounts /\ To(r) \in Accounts /\ From(r) # To(r)
        BY <2>1 DEF BookInv, TypeInv, Checked, PastSender, PastReceiver, InSaga
      <3>2. account \in [Accounts -> AccountRow]
        BY DEF BookInv, TypeInv, TypeOK
      <3>3. /\ account' = [account EXCEPT ![From(r)].balance = seen[r].snd.balance,
                                          ![To(r)].balance = seen[r].rcv.balance]
            /\ ledger' = ledger \cup {Entry(r, From(r), "DEBIT", seen[r].snd.balance),
                                      Entry(r, To(r), "CREDIT", seen[r].rcv.balance)}
        BY <2>1 DEF Persist
      <3>4. \A a \in Accounts : account'[a].balance \in
               {account[a].balance, seen[r].snd.balance, seen[r].rcv.balance}
        BY <3>1, <3>2, <3>3 DEF AccountRow
      <3>5. \A a \in Accounts : account'[a].balance >= 0
        BY <3>4 DEF NoOverdraft, SeenSolvent
      <3>6. \A e \in ledger' : e.balance >= 0
        BY <3>3 DEF NoOverdraft, SeenSolvent, Entry
      <3> QED BY <1>2, <3>5, <3>6, SeenSteps DEF NoOverdraft
    <2>2. CASE UNCHANGED <<account, ledger>>
      BY <1>2, <2>2, SeenSteps DEF NoOverdraft
    <2> QED BY <1>2, <2>1, <2>2, OnlyCommitWrites DEF BookInv, TypeInv
  <1> QED BY <1>1, <1>2 DEF Next, Action

\* No interleaving of payments overdraws an account or records an overdraft.
THEOREM Solvent == Spec => []NoOverdraft
  <1>1. Init => FundsInv
    BY InitBookInv, PaymentsAssumption
       DEF Init, FundsInv, NoOverdraft, SeenSolvent, Unread
  <1>2. FundsInv => NoOverdraft
    BY DEF FundsInv
  <1> QED BY <1>1, <1>2, StepFundsInv, PTL DEF Spec
-----------------------------------------------------------------------------
(* The mapper's stub.  With it no handler gets past the debit.               *)

StubInv ==
    /\ BookInv
    /\ NothingMoves
    /\ MapperMoney = "stub" => \A r \in Requests : pc[r] \notin {"credit", "commit"}

LEMMA StepStubInv == StubInv /\ [Next]_vars => StubInv'
  <1> SUFFICES ASSUME StubInv, [Next]_vars, MapperMoney = "stub"
               PROVE  NothingMoves' /\ \A r \in Requests : pc'[r] \notin {"credit", "commit"}
    BY StepBookInv DEF StubInv, NothingMoves
  <1>0. TypeOK /\ Recorded
    BY DEF StubInv, BookInv, TypeInv
  <1>1. CASE UNCHANGED vars
    BY <1>1 DEF vars, StubInv, NothingMoves
  <1>2. ASSUME NEW r \in Requests, Action(r)
        PROVE  NothingMoves' /\ \A q \in Requests : pc'[q] \notin {"credit", "commit"}
    <2>1. /\ pc' = [pc EXCEPT ![r] = pc'[r]]
          /\ \A q \in Requests : pc[q] \notin {"credit", "commit"}
      BY <1>0, <1>2, Moves DEF StubInv
    <2>2. DebitError(seen[r].snd, Amount(r)) # None
      BY PaymentsAssumption DEF DebitError, SagaError
    <2>3. pc'[r] # "credit"
      BY <1>0, <1>2, <2>2, Entering DEF DebitSender, Throw, Goto, TypeOK
    <2>4. pc'[r] # "commit"
      BY <1>0, <1>2, <2>1, Entering DEF CreditReceiver
    <2>5. /\ UNCHANGED <<account, payments, ledger>>
          /\ outbox' = outbox \/ outbox' = outbox \cup {BlockedEvent(r)}
      BY <1>0, <1>2, <2>1, OnlyCommitWrites
    <2>6. \A x \in analyses' : x.payment = None
      <3>1. CASE Analyze(r) \/ WriteUnacknowledged(r)
        BY <3>1 DEF Analyze, WriteUnacknowledged, SaveAnalysis, StubInv, NothingMoves
      <3>2. CASE UNCHANGED analyses
        BY <3>2 DEF StubInv, NothingMoves
      <3> QED BY <1>2, <2>1, <3>1, <3>2
              DEF Action, Step, Receive, FindKey, FindSender, FindReceiver, SaveEvents,
                  InsertPayment, DebitSender, CreditReceiver, Commit, CommitUnacknowledged,
                  RollBack, LockTimeout, Compensate, DatabaseError, Crash, db
    <2>7. \A q \in Requests : answer'[q].code \notin {"created", "replayed"}
      <3>1. answer \in [Requests -> [code : Code, payment : Requests \cup {None}]]
        BY <1>0 DEF TypeOK
      <3>2. \/ UNCHANGED answer
            \/ \E code \in Code \ {"created", "replayed"}, p \in {None} : Reply(r, code, p)
        BY <1>2, <2>1
           DEF Action, Step, Receive, FindKey, FindSender, FindReceiver, Analyze, SaveEvents,
               InsertPayment, DebitSender, CreditReceiver, Commit, CommitUnacknowledged,
               RollBack, LockTimeout, Compensate, DatabaseError, WriteUnacknowledged, Crash,
               StubInv, NothingMoves, Code
      <3> QED BY <3>1, <3>2 DEF Reply, StubInv, NothingMoves
    <2>8. NothingMoves'
      BY <2>5, <2>6, <2>7 DEF StubInv, NothingMoves, BlockedEvent
    <2>9. \A q \in Requests : pc'[q] \notin {"credit", "commit"}
      BY <1>0, <2>1, <2>3, <2>4 DEF TypeOK
    <2> QED BY <2>8, <2>9
  <1> QED BY <1>1, <1>2 DEF Next, Action

\* At this commit no request moves money, completes a payment or says it did.
THEOREM AtAStandstill == Spec => []NothingMoves
  <1>1. Init => StubInv
    BY InitBookInv DEF Init, StubInv, NothingMoves
  <1>2. StubInv => NothingMoves
    BY DEF StubInv
  <1> QED BY <1>1, <1>2, StepStubInv, PTL DEF Spec
-----------------------------------------------------------------------------
(* Where balances come from.  What a saga holds of an account is a balance   *)
(* that account has had, which stays true whatever others record meanwhile;  *)
(* so with any number of handlers what a commit writes is such a balance     *)
(* with the amount applied.                                                  *)

ReadsWereHad ==
    /\ \A a \in Accounts : account[a].balance \in Had[a]
    /\ \A r \in Requests :
          /\ pc[r] \in {"findReceiver", "analyze", "insert", "debit"} =>
                seen[r].snd.balance \in Had[From(r)]
          /\ pc[r] \in {"analyze", "insert", "debit", "credit"} =>
                seen[r].rcv.balance \in Had[To(r)]
          /\ pc[r] \in {"credit", "commit"} =>
                seen[r].snd.balance + Amount(r) \in Had[From(r)]
          /\ pc[r] = "commit" =>
                seen[r].rcv.balance - Amount(r) \in Had[To(r)]

BankInv == FundsInv /\ ReadsWereHad

PaymentOf(r) == [id |-> r, key |-> KeyOf(r), from |-> From(r), to |-> To(r),
                 amount |-> Amount(r), status |-> "COMPLETED"]

LEMMA HadContains ==
    ASSUME NEW a \in Accounts, NEW b
    PROVE  b \in Had[a] <=> \/ b = Opening[a].balance
                            \/ \E e \in ledger : e.account = a /\ b = e.balance
  BY DEF Had

LEMMA HadContainsNext ==
    ASSUME NEW a \in Accounts, NEW b
    PROVE  b \in Had'[a] <=> \/ b = Opening[a].balance
                             \/ \E e \in ledger' : e.account = a /\ b = e.balance
  BY DEF Had

LEMMA HadTyped ==
    ASSUME TypeOK, NEW a \in Accounts
    PROVE  Had[a] \subseteq Int
  BY PaymentsAssumption DEF TypeOK, LedgerEntry, Had

\* A commit adds one balance to each of its accounts; no other step adds any.
LEMMA HadSteps ==
    ASSUME BookInv, NEW r \in Requests, Action(r)
    PROVE  /\ Persist(r) /\ pc[r] = "commit" =>
                Had' = [Had EXCEPT ![From(r)] = @ \cup {seen[r].snd.balance},
                                   ![To(r)] = @ \cup {seen[r].rcv.balance}]
           /\ UNCHANGED ledger => Had' = Had
           /\ \A a \in Accounts : Had[a] \subseteq Had'[a]
  <1>1. UNCHANGED ledger => Had' = Had
    BY DEF Had
  <1>2. ASSUME Persist(r), pc[r] = "commit"
        PROVE  Had' = [Had EXCEPT ![From(r)] = @ \cup {seen[r].snd.balance},
                                  ![To(r)] = @ \cup {seen[r].rcv.balance}]
    <2>1. From(r) \in Accounts /\ To(r) \in Accounts /\ From(r) # To(r)
      BY <1>2 DEF BookInv, TypeInv, Checked, PastSender, PastReceiver, InSaga
    <2> DEFINE debit == Entry(r, From(r), "DEBIT", seen[r].snd.balance)
               credit == Entry(r, To(r), "CREDIT", seen[r].rcv.balance)
    <2>2. ledger' = ledger \cup {debit, credit}
      BY <1>2 DEF Persist
    <2>3. /\ debit.account = From(r) /\ debit.balance = seen[r].snd.balance
          /\ credit.account = To(r) /\ credit.balance = seen[r].rcv.balance
      BY DEF Entry
    <2> HIDE DEF debit, credit
    <2>4. ASSUME NEW a \in Accounts
          PROVE  Had'[a] = Had[a] \cup {b \in {seen[r].snd.balance} : a = From(r)}
                                 \cup {b \in {seen[r].rcv.balance} : a = To(r)}
      <3>1. ASSUME NEW b
            PROVE  b \in Had'[a] <=> \/ b \in Had[a]
                                     \/ a = From(r) /\ b = seen[r].snd.balance
                                     \/ a = To(r) /\ b = seen[r].rcv.balance
        BY <2>2, <2>3, HadContains, HadContainsNext
      <3> QED BY <3>1
    <2>5. Had = [a \in Accounts |-> Had[a]] /\ Had' = [a \in Accounts |-> Had'[a]]
      BY DEF Had
    <2> QED BY <2>1, <2>4, <2>5
  <1>3. ledger \subseteq ledger'
    BY OnlyCommitWrites DEF BookInv, TypeInv, Persist
  <1>4. ASSUME NEW a \in Accounts
        PROVE  Had[a] \subseteq Had'[a]
    <2>1. ASSUME NEW b \in Had[a] PROVE b \in Had'[a]
      BY <1>3, HadContains, HadContainsNext
    <2> QED BY <2>1
  <1> QED BY <1>1, <1>2, <1>4

\* What a commit does to the balances, in terms of the two it started from.
LEMMA PersistPays ==
    ASSUME FundsInv, NEW r \in Requests, Action(r), Persist(r), pc[r] = "commit",
           NEW f \in Int, NEW t \in Int,
           seen[r].snd.balance = f - Amount(r), seen[r].rcv.balance = t + Amount(r)
    PROVE  Transfers!Pay(PaymentOf(r), f, t) /\ PaymentOf(r) \in payments'
  <1>1. payments' = payments \cup {PaymentOf(r)}
    BY DEF Persist, PaymentOf
  <1>2. \A q \in payments : q.key # KeyOf(r)
    BY DEF FundsInv, BookInv, KeyReserved, KeyTaken, Writing
  <1>3. /\ From(r) \in Accounts /\ To(r) \in Accounts /\ From(r) # To(r)
        /\ Amount(r) > 0 /\ Amount(r) \in Int
    BY CommandParts
       DEF FundsInv, BookInv, TypeInv, TypeOK, Checked, PastSender, PastReceiver, InSaga
  <1>4. Amount(r) <= f
    <2>1. f - Amount(r) >= 0
      BY DEF FundsInv, SeenSolvent
    <2> QED BY <1>3, <2>1
  <1>5. Balances' = [Balances EXCEPT ![From(r)] = f - Amount(r), ![To(r)] = t + Amount(r)]
    <2>1. account' = [account EXCEPT ![From(r)].balance = seen[r].snd.balance,
                                     ![To(r)].balance = seen[r].rcv.balance]
      BY DEF Persist
    <2>2. account \in [Accounts -> AccountRow]
      BY DEF FundsInv, BookInv, TypeInv, TypeOK
    <2>3. \A a \in Accounts : account'[a].balance =
             IF a = To(r) THEN t + Amount(r)
             ELSE IF a = From(r) THEN f - Amount(r)
             ELSE account[a].balance
      BY <1>3, <2>1, <2>2 DEF AccountRow
    <2> QED BY <1>3, <2>3 DEF Balances
  <1>6. Had' = [Had EXCEPT ![From(r)] = @ \cup {f - Amount(r)},
                           ![To(r)] = @ \cup {t + Amount(r)}]
    BY HadSteps DEF FundsInv
  <1>7. /\ PaymentOf(r).key = KeyOf(r) /\ PaymentOf(r).from = From(r)
        /\ PaymentOf(r).to = To(r) /\ PaymentOf(r).amount = Amount(r)
    BY DEF PaymentOf
  <1> QED BY <1>1, <1>2, <1>3, <1>4, <1>5, <1>6, <1>7 DEF Transfers!Pay

LEMMA StepReadsWereHad ==
    ASSUME BankInv, NEW r \in Requests, Action(r)
    PROVE  ReadsWereHad'
  <1>t. /\ TypeOK /\ Checked /\ Recorded /\ BookInv /\ FundsInv /\ ReadsWereHad
        /\ seen \in [Requests -> [snd : AccountRow, rcv : AccountRow]]
        /\ account \in [Accounts -> AccountRow] /\ pc \in [Requests -> Labels]
    BY DEF BankInv, FundsInv, BookInv, TypeInv, TypeOK
  <1>1. /\ cmd' = cmd /\ pc' = [pc EXCEPT ![r] = pc'[r]]
        /\ <<pc[r], pc'[r]>> \in Arcs
    BY <1>t, Moves
  <1>2. \A q \in Requests : From(q)' = From(q) /\ To(q)' = To(q) /\ Amount(q)' = Amount(q)
    BY <1>1 DEF From, To, Amount
  <1>3. \A a \in Accounts : Had[a] \subseteq Had'[a]
    BY <1>t, HadSteps
  <1>4. \A q \in Requests : /\ pc[q] \in PastSender => From(q) \in Accounts
                            /\ pc[q] \in PastReceiver => To(q) \in Accounts
    BY <1>t DEF Checked
  <1>5. \A a \in Accounts : account'[a].balance \in Had'[a]
    <2>1. CASE Persist(r) /\ pc[r] = "commit"
      <3>1. From(r) \in Accounts /\ To(r) \in Accounts /\ From(r) # To(r)
        BY <1>t, <2>1 DEF Checked, PastSender, PastReceiver, InSaga
      <3>2. account' = [account EXCEPT ![From(r)].balance = seen[r].snd.balance,
                                       ![To(r)].balance = seen[r].rcv.balance]
        BY <2>1 DEF Persist
      <3>3. \A a \in Accounts : account'[a].balance =
               IF a = To(r) THEN seen[r].rcv.balance
               ELSE IF a = From(r) THEN seen[r].snd.balance
               ELSE account[a].balance
        BY <1>t, <3>1, <3>2 DEF AccountRow
      <3>4. Had' = [Had EXCEPT ![From(r)] = @ \cup {seen[r].snd.balance},
                               ![To(r)] = @ \cup {seen[r].rcv.balance}]
        BY <1>t, <2>1, HadSteps
      <3>5. DOMAIN Had = Accounts
        BY DEF Had
      <3> QED BY <1>3, <1>t, <3>1, <3>3, <3>4, <3>5 DEF ReadsWereHad
    <2>2. CASE UNCHANGED account
      BY <1>3, <1>t, <2>2 DEF ReadsWereHad
    <2> QED BY <1>t, <2>1, <2>2, OnlyCommitWrites
  <1>6. ASSUME NEW q \in Requests, pc'[q] = pc[q], seen'[q] = seen[q]
        PROVE  /\ pc'[q] \in {"findReceiver", "analyze", "insert", "debit"} =>
                     seen'[q].snd.balance \in Had'[From(q)]
               /\ pc'[q] \in {"analyze", "insert", "debit", "credit"} =>
                     seen'[q].rcv.balance \in Had'[To(q)]
               /\ pc'[q] \in {"credit", "commit"} =>
                     seen'[q].snd.balance + Amount(q) \in Had'[From(q)]
               /\ pc'[q] = "commit" =>
                     seen'[q].rcv.balance - Amount(q) \in Had'[To(q)]
    BY <1>3, <1>4, <1>6, <1>t DEF ReadsWereHad, PastSender, PastReceiver, InSaga
  <1>7. \A q \in Requests \ {r} : pc'[q] = pc[q] /\ seen'[q] = seen[q]
    <2>1. \A q \in Requests \ {r} : pc'[q] = pc[q]
      BY <1>1, <1>t
    <2>2. CASE UNCHANGED seen
      BY <2>1, <2>2
    <2>3. CASE FindSender(r) \/ FindReceiver(r) \/ DebitSender(r) \/ CreditReceiver(r)
      BY <1>t, <2>1, <2>3 DEF FindSender, FindReceiver, DebitSender, CreditReceiver
    <2> QED BY <2>1, <2>2, <2>3
            DEF Action, Step, Receive, FindKey, Analyze, SaveEvents, InsertPayment, Commit,
                CommitUnacknowledged, RollBack, LockTimeout, Compensate, DatabaseError,
                WriteUnacknowledged, Crash
  <1>8. /\ pc'[r] \in {"findReceiver", "analyze", "insert", "debit"} =>
              seen'[r].snd.balance \in Had'[From(r)]
        /\ pc'[r] \in {"analyze", "insert", "debit", "credit"} =>
              seen'[r].rcv.balance \in Had'[To(r)]
        /\ pc'[r] \in {"credit", "commit"} =>
              seen'[r].snd.balance + Amount(r) \in Had'[From(r)]
        /\ pc'[r] = "commit" =>
              seen'[r].rcv.balance - Amount(r) \in Had'[To(r)]
    <2>1. CASE pc'[r] = "findReceiver"
      <3>1. FindSender(r)
        BY <1>t, <2>1, Entering
      <3>2. /\ seen' = [seen EXCEPT ![r].snd = account[From(r)]]
            /\ From(r) # NoAccount
        BY <1>t, <2>1, <3>1 DEF FindSender, Reply, Goto
      <3>3. From(r) \in Accounts
        BY <1>t, <3>2, CommandParts DEF TypeOK
      <3>4. seen'[r].snd.balance = account[From(r)].balance
        BY <1>t, <3>2
      <3> QED BY <1>3, <1>t, <2>1, <3>3, <3>4 DEF ReadsWereHad
    <2>2. CASE pc'[r] = "analyze"
      <3>1. FindReceiver(r)
        BY <1>t, <2>2, Entering
      <3>2. /\ seen' = [seen EXCEPT ![r].rcv = account[To(r)]] /\ pc[r] = "findReceiver"
            /\ To(r) # NoAccount
        BY <1>t, <2>2, <3>1 DEF FindReceiver, Reply, Goto
      <3>3. To(r) \in Accounts /\ From(r) \in Accounts
        BY <1>4, <1>t, <3>2, CommandParts DEF TypeOK, PastSender
      <3>4. seen'[r].rcv.balance = account[To(r)].balance /\ seen'[r].snd = seen[r].snd
        BY <1>t, <3>2
      <3> QED BY <1>3, <1>t, <2>2, <3>2, <3>3, <3>4 DEF ReadsWereHad
    <2>3. CASE pc'[r] \in {"insert", "debit"}
      <3>1. Analyze(r) \/ InsertPayment(r)
        BY <1>t, <2>3, Entering
      <3>2. seen' = seen /\ pc[r] \in {"analyze", "insert"}
        BY <3>1 DEF Analyze, InsertPayment
      <3>3. To(r) \in Accounts /\ From(r) \in Accounts
        BY <1>4, <3>2 DEF PastSender, PastReceiver, InSaga
      <3> QED BY <1>3, <1>t, <2>3, <3>2, <3>3 DEF ReadsWereHad
    <2>4. CASE pc'[r] = "credit"
      <3> DEFINE b == seen[r].snd.balance - Amount(r)
      <3>1. DebitSender(r)
        BY <1>t, <2>4, Entering
      <3>2. pc[r] = "debit" /\ seen' = [seen EXCEPT ![r].snd.balance = b]
        BY <1>t, <2>4, <3>1 DEF DebitSender, Throw, Goto, MoneySubtract
      <3>3. To(r) \in Accounts /\ From(r) \in Accounts
        BY <1>4, <3>2 DEF PastSender, PastReceiver, InSaga
      <3>4. b + Amount(r) = seen[r].snd.balance
        BY <1>t, CommandParts DEF TypeOK, AccountRow
      <3> HIDE DEF b
      <3>5. seen'[r].snd.balance = b /\ seen'[r].rcv = seen[r].rcv
        BY <1>t, <3>2 DEF AccountRow
      <3> QED BY <1>3, <1>t, <2>4, <3>2, <3>3, <3>4, <3>5 DEF ReadsWereHad
    <2>5. CASE pc'[r] = "commit"
      <3> DEFINE b == seen[r].rcv.balance + Amount(r)
      <3>1. CreditReceiver(r)
        BY <1>t, <2>5, Entering
      <3>2. pc[r] = "credit" /\ seen' = [seen EXCEPT ![r].rcv.balance = b]
        BY <1>t, <2>5, <3>1 DEF CreditReceiver, Throw, Goto, MoneyAdd
      <3>3. To(r) \in Accounts /\ From(r) \in Accounts
        BY <1>4, <3>2 DEF PastSender, PastReceiver, InSaga
      <3>4. b - Amount(r) = seen[r].rcv.balance
        BY <1>t, CommandParts DEF TypeOK, AccountRow
      <3> HIDE DEF b
      <3>5. seen'[r].rcv.balance = b /\ seen'[r].snd = seen[r].snd
        BY <1>t, <3>2 DEF AccountRow
      <3> QED BY <1>3, <1>t, <2>5, <3>2, <3>3, <3>4, <3>5 DEF ReadsWereHad
    <2>6. CASE pc'[r] \notin {"findReceiver", "analyze", "insert", "debit", "credit", "commit"}
      BY <2>6
    <2> QED BY <2>1, <2>2, <2>3, <2>4, <2>5, <2>6
  <1> QED BY <1>2, <1>5, <1>6, <1>7, <1>8 DEF ReadsWereHad

LEMMA BankInvariant == Spec => []BankInv
  <1>1. Init => BankInv
    <2>1. Init => FundsInv
      BY InitBookInv, PaymentsAssumption
         DEF Init, FundsInv, NoOverdraft, SeenSolvent, Unread
    <2>2. Init => ReadsWereHad
      BY DEF Init, ReadsWereHad, Had
    <2> QED BY <2>1, <2>2 DEF BankInv
  <1>2. BankInv /\ [Next]_vars => BankInv'
    <2> SUFFICES ASSUME BankInv, [Next]_vars PROVE ReadsWereHad'
      BY StepFundsInv DEF BankInv
    <2>1. CASE UNCHANGED vars
      BY <2>1 DEF vars, BankInv, ReadsWereHad, Had, From, To, Amount
    <2>2. ASSUME NEW r \in Requests, Action(r) PROVE ReadsWereHad'
      BY <2>2, StepReadsWereHad
    <2> QED BY <2>1, <2>2 DEF Next, Action
  <1> QED BY <1>1, <1>2, PTL DEF Spec

\* The tables refine Bank, however many handlers overlap: a commit is a payment
\* from and to balances its accounts have had, every other step no step at all.
THEOREM BankImplemented == Spec => ImplementsBank
  <1>1. Init => Transfers!Init
    BY DEF Init, Transfers!Init, Balances, OpeningBalances, Had
  <1>2. BankInv /\ [Next]_vars => [Transfers!Next]_(Transfers!bank)
    <2> SUFFICES ASSUME BankInv, [Next]_vars
                 PROVE  [Transfers!Next]_(Transfers!bank)
      OBVIOUS
    <2>1. CASE UNCHANGED vars
      BY <2>1 DEF vars, Transfers!bank, Balances, Had
    <2>2. ASSUME NEW r \in Requests, Action(r), Persist(r), pc[r] = "commit"
          PROVE  Transfers!Next
      <3> DEFINE f == seen[r].snd.balance + Amount(r)
                 t == seen[r].rcv.balance - Amount(r)
      <3>1. From(r) \in Accounts /\ To(r) \in Accounts /\ Amount(r) \in Int
        BY <2>2, CommandParts
           DEF BankInv, FundsInv, BookInv, TypeInv, TypeOK, Checked, PastSender,
               PastReceiver, InSaga
      <3>2. seen[r].snd.balance \in Int /\ seen[r].rcv.balance \in Int
        BY DEF BankInv, FundsInv, BookInv, TypeInv, TypeOK, AccountRow
      <3>3. f \in Had[From(r)] /\ t \in Had[To(r)]
        BY <2>2 DEF BankInv, ReadsWereHad
      <3>4. /\ f \in Int /\ t \in Int
            /\ seen[r].snd.balance = f - Amount(r) /\ seen[r].rcv.balance = t + Amount(r)
        BY <3>1, <3>2
      <3> HIDE DEF f, t
      <3>5. Transfers!Pay(PaymentOf(r), f, t) /\ PaymentOf(r) \in payments'
        BY <2>2, <3>4, PersistPays DEF BankInv
      <3>6. PaymentOf(r).from = From(r) /\ PaymentOf(r).to = To(r)
        BY DEF PaymentOf
      <3> QED BY <3>3, <3>5, <3>6 DEF Transfers!Next
    <2>3. ASSUME NEW r \in Requests, Action(r), UNCHANGED <<account, payments, ledger>>
          PROVE  UNCHANGED Transfers!bank
      BY <2>3 DEF Transfers!bank, Balances, Had
    <2> QED BY <2>1, <2>2, <2>3, OnlyCommitWrites
            DEF BankInv, FundsInv, BookInv, TypeInv, Next, Action
  <1> QED BY <1>1, <1>2, BankInvariant, PTL DEF Spec, ImplementsBank, Transfers!Spec

\* With any number of handlers, a commit that did not lose a race is a transfer.
THEOREM TransfersUnlessOvertaken == Spec => OnlyRacesBreakTheBank
  <1> DEFINE Races == \/ UNCHANGED <<Balances, payments>>
                      \/ \E p \in payments' : Transfers!Transfer(p)
                      \/ \E r \in Requests : pc[r] = "commit" /\ pc'[r] # "commit" /\ Stale(r)
  <1>1. BankInv /\ [Next]_vars => [Races]_vars
    <2> SUFFICES ASSUME BankInv, NEW r \in Requests, Action(r) PROVE Races
      BY DEF Next, Action
    <2>1. CASE UNCHANGED <<account, payments, ledger>>
      BY <2>1 DEF Balances
    <2>2. CASE Persist(r) /\ pc[r] = "commit" /\ pc'[r] \in {"done", "compensate"} /\ ~Stale(r)
      <3>1. From(r) \in Accounts /\ To(r) \in Accounts
        BY <2>2 DEF BankInv, FundsInv, BookInv, TypeInv, Checked, PastSender,
                    PastReceiver, InSaga
      <3>2. account[From(r)].balance \in Int /\ account[To(r)].balance \in Int
        BY <3>1 DEF BankInv, FundsInv, BookInv, TypeInv, TypeOK, AccountRow
      <3>3. /\ Transfers!Pay(PaymentOf(r), account[From(r)].balance, account[To(r)].balance)
            /\ PaymentOf(r) \in payments'
        BY <2>2, <3>2, PersistPays DEF BankInv, Stale
      <3>4. /\ Balances[PaymentOf(r).from] = account[From(r)].balance
            /\ Balances[PaymentOf(r).to] = account[To(r)].balance
        BY <3>1 DEF PaymentOf, Balances
      <3> QED BY <3>3, <3>4 DEF Transfers!Transfer
    <2>3. CASE pc[r] = "commit" /\ pc'[r] \in {"done", "compensate"} /\ Stale(r)
      BY <2>3
    <2> HIDE DEF Races
    <2> QED BY <2>1, <2>2, <2>3, OnlyCommitWrites DEF BankInv, FundsInv, BookInv, TypeInv
  <1> QED BY <1>1, BankInvariant, PTL DEF Spec, OnlyRacesBreakTheBank
=============================================================================
