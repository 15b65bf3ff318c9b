------------------------------- MODULE Fraud -------------------------------
(***************************************************************************)
(* Scoring a payment before it is made: AnalyzePaymentHandler.execute,     *)
(* called by every POST /v1/payments, over the table fraud_analyses.       *)
(*                                                                         *)
(* The score rests on three reads of that table (how many analyses of the  *)
(* sender, how much money, which receivers) and on the row this analysis   *)
(* adds to it, in four awaited calls with no transaction around them.      *)
(* Other requests of the sender, the clock and failures come between.      *)
(*                                                                         *)
(* The saga that follows an analysis is Payments; here it either links its *)
(* payment to the analysis or fails, and takes as long as it likes.        *)
(***************************************************************************)
EXTENDS Integers, FiniteSets, FiniteSetsExt

CONSTANTS
    Requests,           \* payment requests; an analysis has the name of its request
    Accounts,
    Commands,           \* the payments clients ask for
    LargeAmount,        \* 500_000 cents
    VeryLargeAmount,    \* 5_000_000 cents
    FrequencyThreshold, \* 5
    VolumeLimit,        \* 2_000_000 cents
    ColumnMax,          \* amount_cents is an Int of the database: 2^31 - 1
    Instants,           \* the minutes at which something happens
    MaxInFlight,        \* bound: requests running at the same time
    None                \* null

VARIABLES
    analyses,           \* table fraud_analyses, with the receiver of the linked payment
    announced,          \* analyses with a fraud.analysis.blocked row in the outbox
    now,                \* the clock, in minutes
    cmd,                \* the command of each request
    pc,                 \* the next awaited call of each request
    draft,              \* what the handler has found so far
    overtaken,          \* history: requests during whose reads the rows they
                        \* read from changed
    answer              \* what the client was told

vars == <<analyses, announced, now, cmd, pc, draft, overtaken, answer>>

Command == [sender : Accounts, receiver : Accounts, amount : Nat, age : Nat]

\* The risk factors and what each adds to the score.  NEW_ACCOUNT has two
\* weights: for an account of less than a week and of less than a month.
Weight == [LARGE_SINGLE_TRANSFER |-> 80, HIGH_AMOUNT |-> 30, HIGH_FREQUENCY |-> 40,
           UNUSUAL_AMOUNT |-> 35, NEW_ACCOUNT_WEEK |-> 25, NEW_ACCOUNT_MONTH |-> 10,
           REPEATED_RECEIVER |-> 20]
Factor == DOMAIN Weight

Analysis == [id : Requests, sender : Accounts, amount : Nat, factors : SUBSET Factor,
             at : Instants, paid : Accounts \cup {None}]
Draft == [factors : SUBSET Factor, begun : Instants, at : Instants]

ASSUME FraudAssumption ==
    /\ IsFiniteSet(Requests)
    /\ Commands \subseteq Command
    /\ \A c \in Commands : c.sender # c.receiver
    /\ {LargeAmount, VeryLargeAmount, VolumeLimit, ColumnMax, MaxInFlight} \subseteq Nat
    /\ FrequencyThreshold \in Nat \ {0}
    /\ LargeAmount <= VeryLargeAmount
    /\ Instants \subseteq Nat /\ 0 \in Instants
    /\ None \notin Accounts \cup Requests
-----------------------------------------------------------------------------
(* The score *)

Adds(F, f) == IF f \in F THEN Weight[f] ELSE 0

\* RiskScore.fromWeights: the sum, capped.
Score(F) ==
    LET sum == Adds(F, "LARGE_SINGLE_TRANSFER") + Adds(F, "HIGH_AMOUNT")
               + Adds(F, "HIGH_FREQUENCY") + Adds(F, "UNUSUAL_AMOUNT")
               + Adds(F, "NEW_ACCOUNT_WEEK") + Adds(F, "NEW_ACCOUNT_MONTH")
               + Adds(F, "REPEATED_RECEIVER")
    IN  IF sum > 100 THEN 100 ELSE sum

Decision(F) == IF Score(F) >= 75 THEN "BLOCKED"
               ELSE IF Score(F) >= 50 THEN "REVIEW" ELSE "APPROVED"

\* Rules 1 and 4, which look at the command alone.
CommandFactors(c) ==
    {f \in {"LARGE_SINGLE_TRANSFER"} : c.amount >= VeryLargeAmount}
    \cup {f \in {"HIGH_AMOUNT"} : c.amount >= LargeAmount /\ c.amount < VeryLargeAmount}
    \cup {f \in {"NEW_ACCOUNT_WEEK"} : c.age < 7}
    \cup {f \in {"NEW_ACCOUNT_MONTH"} : c.age >= 7 /\ c.age < 30}
-----------------------------------------------------------------------------
(* The three reads, for a sender at an instant t; windows are in minutes *)

FrequencyWindow == 10
VolumeWindow == 24 * 60
ReceiverWindow == 60

\* Mutant of Recent: analyzed_at > since.
RecentStrictly(s, t, window) ==
    {x \in analyses : x.sender = s /\ x.at > t - window}

Recent(s, t, window) == {x \in analyses : x.sender = s /\ x.at >= t - window}

\* countRecentBySender and rule 2: whatever became of them, requests count.
IsFrequent(s, t) ==
    Cardinality(Recent(s, t, FrequencyWindow)) >= FrequencyThreshold

SumOf(rows) == MapThenSumSet(LAMBDA x : x.amount, rows)

\* Mutant of Volume: WHERE decision = 'APPROVED'.
VolumeApproved(s, t) ==
    SumOf({x \in Recent(s, t, VolumeWindow) : Decision(x.factors) = "APPROVED"})

\* sumRecentAmountBySender: WHERE decision <> 'BLOCKED', paid or not.
Volume(s, t) ==
    SumOf({x \in Recent(s, t, VolumeWindow) : Decision(x.factors) # "BLOCKED"})

\* Rule 3.
IsTooMuch(s, t, amount) == Volume(s, t) + amount > VolumeLimit

\* findRecentReceivers, which joins the payments, and rule 5.
IsRepeated(s, t, receiver) ==
    \E x \in Recent(s, t, ReceiverWindow) : x.paid = receiver
-----------------------------------------------------------------------------
Reading == {"count", "sum", "receivers", "save"}
InFlight == Reading \cup {"saveEvents", "saga"}

\* Every row, draft and answer has the shape its table or type gives it.
TypeOK ==
    /\ analyses \subseteq Analysis
    /\ announced \subseteq Requests
    /\ now \in Instants
    /\ cmd \in [Requests -> Commands \cup {None}]
    /\ pc \in [Requests -> {"idle", "done", "crashed"} \cup InFlight]
    /\ draft \in [Requests -> Draft \cup {None}]
    /\ overtaken \subseteq Requests
    /\ answer \in [Requests -> {"none", "blocked", "paid", "failed", "error"}]

Init ==
    /\ analyses = {}
    /\ announced = {}
    /\ now = 0
    /\ cmd = [r \in Requests |-> None]
    /\ pc = [r \in Requests |-> "idle"]
    /\ draft = [r \in Requests |-> None]
    /\ overtaken = {}
    /\ answer = [r \in Requests |-> "none"]
-----------------------------------------------------------------------------
Goto(r, label) == pc' = [pc EXCEPT ![r] = label]
Reply(r, code) == Goto(r, "done") /\ answer' = [answer EXCEPT ![r] = code]

\* The handler goes on without what it found, or ends.
Forget(r) == draft' = [draft EXCEPT ![r] = None]

\* A row of sender s changed: who is between its first read and its own row
\* decides on reads of different tables.
Overtake(r, s) ==
    overtaken' = (overtaken \ {r}) \cup
        {q \in Requests \ {r} : pc[q] \in Reading /\ cmd[q].sender = s}

\* Note(r, f, fires): f joins the factors of r if its rule fires.
Note(r, f, fires) ==
    draft' = [draft EXCEPT ![r].factors = @ \cup {x \in {f} : fires}]

Receive(r) ==
    /\ pc[r] = "idle"
    /\ Cardinality({q \in Requests : pc[q] \in InFlight}) < MaxInFlight
    /\ \E c \in Commands :
          /\ cmd' = [cmd EXCEPT ![r] = c]
          /\ draft' = [draft EXCEPT ![r] =
                [factors |-> CommandFactors(c), begun |-> now, at |-> now]]
    /\ Goto(r, "count")
    /\ UNCHANGED <<analyses, announced, now, overtaken, answer>>

\* Mutant of CountRecent: the requests of the receiver.
CountRecentOfReceiver(r) ==
    /\ pc[r] = "count"
    /\ Note(r, "HIGH_FREQUENCY", IsFrequent(cmd[r].receiver, now))
    /\ Goto(r, "sum")
    /\ UNCHANGED <<analyses, announced, now, cmd, overtaken, answer>>

CountRecent(r) ==
    /\ pc[r] = "count"
    /\ Note(r, "HIGH_FREQUENCY", IsFrequent(cmd[r].sender, now))
    /\ Goto(r, "sum")
    /\ UNCHANGED <<analyses, announced, now, cmd, overtaken, answer>>

\* Mutant of SumRecent: dailyVolume > limit, without this payment.
SumRecentWithoutThis(r) ==
    /\ pc[r] = "sum"
    /\ Note(r, "UNUSUAL_AMOUNT", IsTooMuch(cmd[r].sender, now, 0))
    /\ Goto(r, "receivers")
    /\ UNCHANGED <<analyses, announced, now, cmd, overtaken, answer>>

SumRecent(r) ==
    /\ pc[r] = "sum"
    /\ Note(r, "UNUSUAL_AMOUNT", IsTooMuch(cmd[r].sender, now, cmd[r].amount))
    /\ Goto(r, "receivers")
    /\ UNCHANGED <<analyses, announced, now, cmd, overtaken, answer>>

\* The last read; FraudAnalysis.create stamps the analysis on its answer.
FindReceivers(r) ==
    /\ pc[r] = "receivers"
    /\ LET f == {x \in {"REPEATED_RECEIVER"} : IsRepeated(cmd[r].sender, now, cmd[r].receiver)}
       IN  draft' = [draft EXCEPT ![r].factors = @ \cup f, ![r].at = now]
    /\ Goto(r, "save")
    /\ UNCHANGED <<analyses, announced, now, cmd, overtaken, answer>>
-----------------------------------------------------------------------------
(* What the analysis leaves behind *)

IsBlocked(r) == Decision(draft[r].factors) = "BLOCKED"

Saved(r) == [id |-> r, sender |-> cmd[r].sender, amount |-> cmd[r].amount,
             factors |-> draft[r].factors, at |-> draft[r].at, paid |-> None]

\* The INSERT; an amount the column cannot hold is an error of the call.
Insert(r) ==
    /\ pc[r] = "save"
    /\ cmd[r].amount <= ColumnMax
    /\ analyses' = analyses \cup {Saved(r)}
    /\ Overtake(r, cmd[r].sender)
    /\ Forget(r)
    /\ UNCHANGED <<announced, now, cmd>>

\* Mutant of Save: the handler goes on whatever the decision.
SaveUnjudged(r) ==
    /\ Insert(r)
    /\ Goto(r, "saga")
    /\ UNCHANGED answer

Save(r) ==
    /\ Insert(r)
    /\ Goto(r, IF IsBlocked(r) THEN "saveEvents" ELSE "saga")
    /\ UNCHANGED answer

SaveUnacknowledged(r) == Insert(r) /\ Reply(r, "error")

\* outboxService.saveEvents, in a call of its own; then 403.
SaveEvents(r) ==
    /\ pc[r] = "saveEvents"
    /\ announced' = announced \cup {r}
    /\ Reply(r, "blocked") \/ Reply(r, "error")
    /\ UNCHANGED <<analyses, now, cmd, draft, overtaken>>

\* Another module: the saga commits its payment, linked to the analysis.
Pay(r) ==
    /\ pc[r] = "saga"
    /\ analyses' = {IF x.id = r THEN [x EXCEPT !.paid = cmd[r].receiver] ELSE x : x \in analyses}
    /\ Overtake(r, cmd[r].sender)
    /\ Reply(r, "paid") \/ Reply(r, "failed")
    /\ UNCHANGED <<announced, now, cmd, draft>>

\* Or it rolls back: no funds, a blocked account, a lost race for the key.
PayFails(r) ==
    /\ pc[r] = "saga"
    /\ Reply(r, "failed")
    /\ UNCHANGED <<analyses, announced, now, cmd, draft, overtaken>>

\* A call of the analysis fails without effect.
CallFails(r) ==
    /\ pc[r] \in Reading \cup {"saveEvents"}
    /\ Reply(r, "error")
    /\ Forget(r)
    /\ overtaken' = overtaken \ {r}
    /\ UNCHANGED <<analyses, announced, now, cmd>>

Crash(r) ==
    /\ pc[r] \in InFlight
    /\ Goto(r, "crashed")
    /\ Forget(r)
    /\ overtaken' = overtaken \ {r}
    /\ UNCHANGED <<analyses, announced, now, cmd, answer>>

\* Time passes, also between two calls of one handler.
Pass ==
    /\ \E t \in Instants : t > now /\ now' = t
    /\ UNCHANGED <<analyses, announced, cmd, pc, draft, overtaken, answer>>

Step(r) ==
    \/ Receive(r) \/ CountRecent(r) \/ SumRecent(r) \/ FindReceivers(r)
    \/ Save(r) \/ SaveUnacknowledged(r) \/ SaveEvents(r)
    \/ Pay(r) \/ PayFails(r) \/ CallFails(r) \/ Crash(r)

Next == Pass \/ \E r \in Requests : Step(r)

Spec == Init /\ [][Next]_vars
-----------------------------------------------------------------------------
(* Properties *)

\* A factor is judged right when it is there if its rule fires now, and fired
\* when the handler began if it is there: rows leave a window as time passes, and
\* only rows that were written meanwhile can enter it.
Judged(r, f, firesNow, firedThen) ==
    /\ firesNow => f \in draft[r].factors
    /\ f \in draft[r].factors => firedThen

FrequencyJudged(r) ==
    Judged(r, "HIGH_FREQUENCY", IsFrequent(cmd[r].sender, now),
                                IsFrequent(cmd[r].sender, draft[r].begun))

ReceiverJudged(r) ==
    Judged(r, "REPEATED_RECEIVER",
           IsRepeated(cmd[r].sender, now, cmd[r].receiver),
           IsRepeated(cmd[r].sender, draft[r].begun, cmd[r].receiver))

\* An analysis nobody overtook decides on frequency and receivers as if its
\* reads and its row were one step: at the time it saves, it is neither milder
\* than the rows there are demand nor harsher than they were when it began.
HistoryIsJudgedRight ==
    \A r \in Requests :
        pc[r] = "save" /\ r \notin overtaken => FrequencyJudged(r) /\ ReceiverJudged(r)

\* And likewise on the volume of a day.
VolumeIsJudgedRight ==
    \A r \in Requests : pc[r] = "save" /\ r \notin overtaken =>
        Judged(r, "UNUSUAL_AMOUNT", IsTooMuch(cmd[r].sender, now, cmd[r].amount),
                  IsTooMuch(cmd[r].sender, draft[r].begun, cmd[r].amount))

\* The analyses of s in a window that starts at t and did not see factor f.
Unnoticed(s, t, window, f) ==
    {x \in analyses : x.sender = s /\ f \notin x.factors
                      /\ x.at >= t /\ x.at <= t + window}

\* Requests that overtake each other slip past the frequency rule, but only as
\* many as run at the same time.
FrequencyOvershootBounded ==
    \A s \in Accounts, t \in Instants :
        Cardinality(Unnoticed(s, t, FrequencyWindow, "HIGH_FREQUENCY"))
            < FrequencyThreshold + MaxInFlight

\* The same of the daily limit: what goes unnoticed in 24 hours is at most the
\* limit for each request that can run at the same time.
VolumeOvershootBounded ==
    \A s \in Accounts, t \in Instants :
        SumOf({x \in Unnoticed(s, t, VolumeWindow, "UNUSUAL_AMOUNT") :
                  Decision(x.factors) # "BLOCKED"}) <= MaxInFlight * VolumeLimit

\* No payment is linked to a blocked analysis, what is announced as blocked was,
\* and a blocked analysis that is not announced is one whose handler did not end.
BlockedStaysBlocked ==
    /\ \A x \in analyses : Decision(x.factors) = "BLOCKED" =>
          /\ x.paid = None
          /\ answer[x.id] \notin {"paid", "failed"}
          /\ answer[x.id] = "blocked" => x.id \in announced
    /\ \A r \in announced :
          \E x \in analyses : x.id = r /\ Decision(x.factors) = "BLOCKED"
=============================================================================
