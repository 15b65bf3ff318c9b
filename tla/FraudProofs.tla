---------------------------- MODULE FraudProofs ----------------------------
(***************************************************************************)
(* Theorems about Fraud, for any number of requests, any commands and any  *)
(* thresholds.                                                             *)
(*                                                                         *)
(* FraudInv is inductive.  Its history part says of a handler nobody has   *)
(* overtaken what each of its reads found; it survives the steps of other  *)
(* senders because they write no row of this sender, and the clock because *)
(* a window only loses rows as time passes.                                *)
(***************************************************************************)
EXTENDS Fraud, FiniteSetTheorems, TLAPS

\* A handler has a command, and a draft until its row is written.
ControlInv ==
    \A r \in Requests :
        /\ pc[r] # "idle" => cmd[r] \in Commands
        /\ pc[r] \in Reading => draft[r] \in Draft /\ draft[r].begun <= now
        /\ pc[r] \in {"idle", "crashed"} \cup InFlight => answer[r] = "none"

\* A row is written at the end of its request's analysis, for its sender.
RowInv ==
    /\ IsFiniteSet(analyses)
    /\ \A x \in analyses :
          /\ pc[x.id] \in {"saveEvents", "saga", "done", "crashed"}
          /\ x.sender = cmd[x.id].sender

\* What the reads of a handler nobody overtook have found.
HistoryInv ==
    \A r \in Requests :
        /\ pc[r] = "count" => "HIGH_FREQUENCY" \notin draft[r].factors
        /\ pc[r] \in {"count", "sum", "receivers"} => "REPEATED_RECEIVER" \notin draft[r].factors
        /\ (pc[r] \in {"sum", "receivers", "save"} /\ r \notin overtaken) => FrequencyJudged(r)
        /\ (pc[r] = "save" /\ r \notin overtaken) => ReceiverJudged(r)

\* The saga runs for unblocked analyses, the announcement for blocked ones.
BlockedInv ==
    /\ \A x \in analyses : Decision(x.factors) = "BLOCKED" => pc[x.id] # "saga"
    /\ \A r \in Requests : pc[r] = "saveEvents" =>
          \E x \in analyses : x.id = r /\ Decision(x.factors) = "BLOCKED"

FraudInv == TypeOK /\ ControlInv /\ RowInv /\ HistoryInv /\ BlockedInv /\ BlockedStaysBlocked
-----------------------------------------------------------------------------
(* The score *)

LEMMA AddsMonotone ==
    ASSUME NEW F \in SUBSET Factor, NEW G \in SUBSET Factor, F \subseteq G, NEW f \in Factor
    PROVE  /\ Adds(F, f) \in Int /\ Adds(G, f) \in Int
           /\ 0 <= Adds(F, f) /\ Adds(F, f) <= Adds(G, f)
  <1>1. Weight[f] \in Int /\ Weight[f] >= 0
    BY DEF Factor, Weight
  <1> QED BY <1>1 DEF Adds

LEMMA FactorParts ==
    Factor = {"LARGE_SINGLE_TRANSFER", "HIGH_AMOUNT", "HIGH_FREQUENCY", "UNUSUAL_AMOUNT",
              "NEW_ACCOUNT_WEEK", "NEW_ACCOUNT_MONTH", "REPEATED_RECEIVER"}
    BY DEF Factor, Weight

LEMMA CappedSums ==
    ASSUME NEW a \in Nat, NEW b \in Nat, a <= b
    PROVE  LET x == IF a > 100 THEN 100 ELSE a
               y == IF b > 100 THEN 100 ELSE b
           IN  x \in 0 .. 100 /\ y \in 0 .. 100 /\ x <= y
    OBVIOUS

\* More risk factors never make a payment less risky, whatever the cap does:
\* RiskScore.fromWeights and its thresholds are monotone.
THEOREM ScoreMonotone ==
    ASSUME NEW F \in SUBSET Factor, NEW G \in SUBSET Factor, F \subseteq G
    PROVE  /\ Score(F) \in 0 .. 100 /\ Score(F) <= Score(G)
           /\ Decision(F) = "BLOCKED" => Decision(G) = "BLOCKED"
           /\ Decision(G) = "APPROVED" => Decision(F) = "APPROVED"
  <1> DEFINE Sum(H) == Adds(H, "LARGE_SINGLE_TRANSFER") + Adds(H, "HIGH_AMOUNT")
                       + Adds(H, "HIGH_FREQUENCY") + Adds(H, "UNUSUAL_AMOUNT")
                       + Adds(H, "NEW_ACCOUNT_WEEK") + Adds(H, "NEW_ACCOUNT_MONTH")
                       + Adds(H, "REPEATED_RECEIVER")
  <1>1. \A f \in Factor : /\ Adds(F, f) \in Int /\ Adds(G, f) \in Int
                          /\ 0 <= Adds(F, f) /\ Adds(F, f) <= Adds(G, f)
    BY AddsMonotone
  <1>2. Sum(F) \in Nat /\ Sum(G) \in Nat /\ Sum(F) <= Sum(G)
    BY <1>1, FactorParts
  <1>3. /\ Score(F) = IF Sum(F) > 100 THEN 100 ELSE Sum(F)
        /\ Score(G) = IF Sum(G) > 100 THEN 100 ELSE Sum(G)
    BY DEF Score
  <1> HIDE DEF Sum
  <1>4. Score(F) \in 0 .. 100 /\ Score(G) \in 0 .. 100 /\ Score(F) <= Score(G)
    BY <1>2, <1>3, CappedSums
  <1> QED BY <1>4 DEF Decision

\* The only factor that blocks a payment by itself is the very large amount; any
\* other factor alone leaves it approved.
THEOREM OneFactorDecides ==
    ASSUME NEW F \in SUBSET Factor
    PROVE  /\ "LARGE_SINGLE_TRANSFER" \in F => Decision(F) = "BLOCKED"
           /\ \A f \in Factor \ {"LARGE_SINGLE_TRANSFER"} : F = {f} => Decision(F) = "APPROVED"
  <1>1. \A f \in Factor : Adds(F, f) \in Int /\ 0 <= Adds(F, f)
    BY AddsMonotone
  <1>2. ASSUME "LARGE_SINGLE_TRANSFER" \in F PROVE Decision(F) = "BLOCKED"
    <2>1. Adds(F, "LARGE_SINGLE_TRANSFER") = 80
      BY <1>2 DEF Adds, Weight
    <2>2. Score(F) \in Int /\ Score(F) >= 75
      BY <1>1, <2>1, FactorParts DEF Score
    <2> QED BY <2>2 DEF Decision
  <1>3. ASSUME NEW f \in Factor \ {"LARGE_SINGLE_TRANSFER"}, F = {f}
        PROVE  Decision(F) = "APPROVED"
    <2>1. \A g \in Factor : Adds(F, g) = IF g = f THEN Weight[f] ELSE 0
      BY <1>3 DEF Adds
    <2>2. Weight[f] \in Int /\ Weight[f] < 50
      BY <1>3, FactorParts DEF Weight
    <2>3. Score(F) \in Int /\ Score(F) < 50
      BY <2>1, <2>2, <1>3, FactorParts DEF Score
    <2> QED BY <2>3 DEF Decision
  <1> QED BY <1>2, <1>3
-----------------------------------------------------------------------------
(* The reads *)

LEMMA RecentFinite ==
    ASSUME IsFiniteSet(analyses), NEW s, NEW t, NEW w
    PROVE  IsFiniteSet(Recent(s, t, w)) /\ Cardinality(Recent(s, t, w)) \in Nat
  <1>1. Recent(s, t, w) \subseteq analyses
    BY DEF Recent
  <1> QED BY <1>1, FS_Subset, FS_CardinalityType

\* A window only loses rows as time passes.
LEMMA WindowShrinks ==
    ASSUME TypeOK, IsFiniteSet(analyses), NEW s, NEW t \in Nat, NEW u \in Nat, t <= u
    PROVE  /\ \A w \in Nat : Recent(s, u, w) \subseteq Recent(s, t, w)
           /\ IsFrequent(s, u) => IsFrequent(s, t)
           /\ \A c : IsRepeated(s, u, c) => IsRepeated(s, t, c)
  <1>1. \A w \in Nat : Recent(s, u, w) \subseteq Recent(s, t, w)
    <2>1. \A x \in analyses : x.at \in Nat
      BY FraudAssumption DEF TypeOK, Analysis
    <2> QED BY <2>1 DEF Recent
  <1>2. IsFrequent(s, u) => IsFrequent(s, t)
    <2>1. Recent(s, u, 10) \subseteq Recent(s, t, 10)
      BY <1>1
    <2>2. Cardinality(Recent(s, u, 10)) <= Cardinality(Recent(s, t, 10))
      BY <2>1, RecentFinite, FS_Subset
    <2>3. Cardinality(Recent(s, u, 10)) \in Nat /\ Cardinality(Recent(s, t, 10)) \in Nat
      BY RecentFinite
    <2> QED BY <2>2, <2>3, FraudAssumption DEF IsFrequent, FrequencyWindow
  <1>3. \A c : IsRepeated(s, u, c) => IsRepeated(s, t, c)
    <2>1. Recent(s, u, 60) \subseteq Recent(s, t, 60)
      BY <1>1
    <2> QED BY <2>1 DEF IsRepeated, ReceiverWindow
  <1> QED BY <1>1, <1>2, <1>3

\* What a read found stays a right judgement while other senders write and
\* time passes.
LEMMA JudgementKept ==
    ASSUME TypeOK, IsFiniteSet(analyses), NEW r \in Requests,
           NEW u \in Nat, now' = u, now <= u, draft[r].begun \in Nat,
           cmd'[r] = cmd[r], draft'[r].begun = draft[r].begun,
           \A x : x.sender = cmd[r].sender => (x \in analyses <=> x \in analyses')
    PROVE  /\ ("HIGH_FREQUENCY" \in draft[r].factors <=> "HIGH_FREQUENCY" \in draft'[r].factors)
              /\ FrequencyJudged(r) => FrequencyJudged(r)'
           /\ ("REPEATED_RECEIVER" \in draft[r].factors <=> "REPEATED_RECEIVER" \in draft'[r].factors)
              /\ ReceiverJudged(r) => ReceiverJudged(r)'
  <1> DEFINE s == cmd[r].sender
             b == draft[r].begun
             c == cmd[r].receiver
  <1>1. now \in Nat
    BY FraudAssumption DEF TypeOK
  <1>2. /\ IsFrequent(s, u) => IsFrequent(s, now)
        /\ IsRepeated(s, u, c) => IsRepeated(s, now, c)
    BY <1>1, WindowShrinks
  <1>3. ASSUME NEW t \in Nat, NEW w
        PROVE  {x \in analyses' : x.sender = s /\ x.at >= t - w}
                   = {x \in analyses : x.sender = s /\ x.at >= t - w}
    OBVIOUS
  <1>4. /\ IsFrequent(cmd[r].sender, now)' <=> IsFrequent(s, u)
        /\ IsRepeated(cmd[r].sender, now, cmd[r].receiver)' <=> IsRepeated(s, u, c)
    BY <1>3 DEF IsFrequent, IsRepeated, Recent
  <1>5. /\ IsFrequent(cmd[r].sender, draft[r].begun)' <=> IsFrequent(s, b)
        /\ IsRepeated(cmd[r].sender, draft[r].begun, cmd[r].receiver)' <=> IsRepeated(s, b, c)
    BY <1>3 DEF IsFrequent, IsRepeated, Recent
  <1> QED BY <1>2, <1>4, <1>5 DEF FrequencyJudged, ReceiverJudged, Judged
-----------------------------------------------------------------------------
(* Types and control *)

LEMMA InitFraudInv == Init => FraudInv
  <1> SUFFICES ASSUME Init PROVE FraudInv
    OBVIOUS
  <1>1. TypeOK
    BY FraudAssumption DEF Init, TypeOK
  <1>2. RowInv
    BY FS_EmptySet DEF Init, RowInv
  <1> QED BY <1>1, <1>2 DEF Init, FraudInv, ControlInv, HistoryInv, BlockedInv,
             BlockedStaysBlocked, Reading, InFlight

LEMMA CommandFactorsTyped == \A c \in Commands : CommandFactors(c) \in SUBSET Factor
    BY FactorParts DEF CommandFactors

LEMMA ReceiveGives ==
    ASSUME FraudInv, NEW r \in Requests, Receive(r)
    PROVE  \E c \in Commands :
              /\ cmd' = [cmd EXCEPT ![r] = c]
              /\ draft' = [draft EXCEPT ![r] =
                    [factors |-> CommandFactors(c), begun |-> now, at |-> now]]
              /\ draft' \in [Requests -> Draft \cup {None}]
              /\ draft'[r] \in Draft
              /\ pc[r] = "idle" /\ pc' = [pc EXCEPT ![r] = "count"]
              /\ UNCHANGED <<analyses, announced, now, overtaken, answer>>
  <1>1. PICK c \in Commands :
           /\ cmd' = [cmd EXCEPT ![r] = c]
           /\ draft' = [draft EXCEPT ![r] =
                 [factors |-> CommandFactors(c), begun |-> now, at |-> now]]
    BY DEF Receive
  <1>2. [factors |-> CommandFactors(c), begun |-> now, at |-> now] \in Draft
    BY CommandFactorsTyped DEF Draft, FraudInv, TypeOK
  <1>3. draft' \in [Requests -> Draft \cup {None}] /\ draft'[r] \in Draft
    BY <1>1, <1>2 DEF FraudInv, TypeOK
  <1> QED BY <1>1, <1>3 DEF Receive, Goto

\* The factor a read may find, and where the handler goes on.
LEMMA ReadGives ==
    ASSUME FraudInv, NEW r \in Requests, CountRecent(r) \/ SumRecent(r) \/ FindReceivers(r)
    PROVE  /\ UNCHANGED <<analyses, announced, now, cmd, overtaken, answer>>
           /\ draft' \in [Requests -> Draft \cup {None}]
           /\ draft'[r] \in Draft
           /\ draft'[r].begun = draft[r].begun
           /\ \A q \in Requests \ {r} : draft'[q] = draft[q]
           /\ \/ /\ pc[r] = "count" /\ pc' = [pc EXCEPT ![r] = "sum"]
                 /\ draft'[r].factors = draft[r].factors \cup
                       {x \in {"HIGH_FREQUENCY"} : IsFrequent(cmd[r].sender, now)}
              \/ /\ pc[r] = "sum" /\ pc' = [pc EXCEPT ![r] = "receivers"]
                 /\ draft'[r].factors = draft[r].factors \cup
                       {x \in {"UNUSUAL_AMOUNT"} : IsTooMuch(cmd[r].sender, now, cmd[r].amount)}
              \/ /\ pc[r] = "receivers" /\ pc' = [pc EXCEPT ![r] = "save"]
                 /\ draft'[r].at = now
                 /\ draft'[r].factors = draft[r].factors \cup
                       {x \in {"REPEATED_RECEIVER"} :
                           IsRepeated(cmd[r].sender, now, cmd[r].receiver)}
  <1>1. pc[r] \in Reading /\ draft[r] \in Draft /\ now \in Instants
        /\ draft \in [Requests -> Draft \cup {None}]
    BY DEF FraudInv, ControlInv, TypeOK, Reading, CountRecent, SumRecent, FindReceivers
  <1>2. ASSUME NEW F, F \subseteq Factor, NEW i \in Instants,
               draft' = [draft EXCEPT ![r].factors = @ \cup F, ![r].at = i]
               \/ draft' = [draft EXCEPT ![r].factors = @ \cup F]
        PROVE  /\ draft' \in [Requests -> Draft \cup {None}]
               /\ draft'[r] \in Draft
               /\ draft'[r].begun = draft[r].begun
               /\ draft'[r].factors = draft[r].factors \cup F
               /\ \A q \in Requests \ {r} : draft'[q] = draft[q]
    BY <1>1, <1>2 DEF Draft
  <1>3. CASE CountRecent(r)
    <2>1. {x \in {"HIGH_FREQUENCY"} : IsFrequent(cmd[r].sender, now)} \subseteq Factor
      BY FactorParts
    <2>2. draft' = [draft EXCEPT ![r].factors = @ \cup
                       {x \in {"HIGH_FREQUENCY"} : IsFrequent(cmd[r].sender, now)}]
      BY <1>3 DEF CountRecent, Note
    <2> QED BY <1>1, <1>2, <1>3, <2>1, <2>2 DEF CountRecent, Goto
  <1>4. CASE SumRecent(r)
    <2>1. {x \in {"UNUSUAL_AMOUNT"} : IsTooMuch(cmd[r].sender, now, cmd[r].amount)} \subseteq Factor
      BY FactorParts
    <2>2. draft' = [draft EXCEPT ![r].factors = @ \cup
                       {x \in {"UNUSUAL_AMOUNT"} : IsTooMuch(cmd[r].sender, now, cmd[r].amount)}]
      BY <1>4 DEF SumRecent, Note
    <2> QED BY <1>1, <1>2, <1>4, <2>1, <2>2 DEF SumRecent, Goto
  <1>5. CASE FindReceivers(r)
    <2>1. {x \in {"REPEATED_RECEIVER"} : IsRepeated(cmd[r].sender, now, cmd[r].receiver)} \subseteq Factor
      BY FactorParts
    <2>2. draft' = [draft EXCEPT ![r].factors = @ \cup
                       {x \in {"REPEATED_RECEIVER"} :
                           IsRepeated(cmd[r].sender, now, cmd[r].receiver)}, ![r].at = now]
      BY <1>5 DEF FindReceivers
    <2>3. draft'[r].at = now
      BY <1>1, <2>2
    <2> QED BY <1>1, <1>2, <1>5, <2>1, <2>2, <2>3 DEF FindReceivers, Goto
  <1> QED BY <1>3, <1>4, <1>5

\* The row an analysis saves, and where the handler goes on.
LEMMA SaveGives ==
    ASSUME FraudInv, NEW r \in Requests, Save(r) \/ SaveUnacknowledged(r)
    PROVE  /\ pc[r] = "save" /\ draft[r] \in Draft /\ UNCHANGED <<announced, now, cmd>>
           /\ analyses' = analyses \cup {Saved(r)} /\ Saved(r) \in Analysis
           /\ draft' = [draft EXCEPT ![r] = None]
           /\ overtaken' = (overtaken \ {r}) \cup {q \in Requests \ {r} :
                               pc[q] \in Reading /\ cmd[q].sender = cmd[r].sender}
           /\ answer' \in [Requests -> {"none", "blocked", "paid", "failed", "error"}]
           /\ \/ pc' = [pc EXCEPT ![r] = "saveEvents"] /\ IsBlocked(r) /\ answer' = answer
              \/ pc' = [pc EXCEPT ![r] = "saga"] /\ ~IsBlocked(r) /\ answer' = answer
              \/ pc' = [pc EXCEPT ![r] = "done"] /\ answer' = [answer EXCEPT ![r] = "error"]
  <1>1. Insert(r)
    BY DEF Save, SaveUnacknowledged
  <1>2. pc[r] = "save" /\ draft[r] \in Draft /\ cmd[r] \in Command
    BY <1>1, FraudAssumption DEF Insert, FraudInv, ControlInv, Reading
  <1>3. Saved(r) \in Analysis
    BY <1>2 DEF Saved, Analysis, Draft, Command
  <1>4. answer' \in [Requests -> {"none", "blocked", "paid", "failed", "error"}]
    BY DEF Save, SaveUnacknowledged, Reply, FraudInv, TypeOK
  <1> QED BY <1>1, <1>2, <1>3, <1>4
          DEF Insert, Overtake, Forget, Save, SaveUnacknowledged, Goto, Reply

\* The saga changes at most one column of one row.
LEMMA PayGives ==
    ASSUME FraudInv, NEW r \in Requests, Pay(r)
    PROVE  /\ pc[r] = "saga" /\ pc' = [pc EXCEPT ![r] = "done"]
           /\ UNCHANGED <<announced, now, cmd, draft>>
           /\ analyses' = {IF x.id = r THEN [x EXCEPT !.paid = cmd[r].receiver] ELSE x : x \in analyses}
           /\ analyses' \subseteq Analysis
           /\ overtaken' = (overtaken \ {r}) \cup {q \in Requests \ {r} :
                               pc[q] \in Reading /\ cmd[q].sender = cmd[r].sender}
           /\ answer' \in [Requests -> {"none", "blocked", "paid", "failed", "error"}]
           /\ \A q \in Requests \ {r} : answer'[q] = answer[q]
  <1>1. cmd[r].receiver \in Accounts
    BY FraudAssumption DEF Pay, FraudInv, ControlInv, Command
  <1>2. \A x \in analyses : [x EXCEPT !.paid = cmd[r].receiver] \in Analysis
    BY <1>1 DEF FraudInv, TypeOK, Analysis
  <1>3. analyses' \subseteq Analysis
    BY <1>2 DEF Pay, FraudInv, TypeOK
  <1>4. /\ answer' \in [Requests -> {"none", "blocked", "paid", "failed", "error"}]
        /\ \A q \in Requests \ {r} : answer'[q] = answer[q]
    BY DEF Pay, Reply, FraudInv, TypeOK
  <1> QED BY <1>3, <1>4 DEF Pay, Overtake, Reply, Goto

LEMMA TypeStep ==
    ASSUME FraudInv, [Next]_vars PROVE TypeOK' /\ ControlInv'
  <1>t. TypeOK /\ ControlInv /\ \A i \in Instants : i \in Nat
    BY FraudAssumption DEF FraudInv
  <1>1. CASE Pass
    BY <1>1, <1>t DEF Pass, TypeOK, ControlInv, Draft
  <1>2. ASSUME NEW r \in Requests, Step(r) PROVE TypeOK' /\ ControlInv'
    <2>1. CASE Receive(r)
      <3>1. PICK c \in Commands :
              /\ cmd' = [cmd EXCEPT ![r] = c]
              /\ draft' = [draft EXCEPT ![r] =
                    [factors |-> CommandFactors(c), begun |-> now, at |-> now]]
              /\ draft' \in [Requests -> Draft \cup {None}] /\ draft'[r] \in Draft
              /\ pc[r] = "idle" /\ pc' = [pc EXCEPT ![r] = "count"]
              /\ UNCHANGED <<analyses, announced, now, overtaken, answer>>
        BY <2>1, ReceiveGives
      <3>2. draft'[r].begun = now
        BY <3>1, <1>t DEF TypeOK
      <3>3. TypeOK'
        BY <3>1, <1>t DEF TypeOK, InFlight, Reading
      <3> QED BY <3>1, <3>2, <3>3, <1>t DEF TypeOK, ControlInv, InFlight, Reading
    <2>2. CASE CountRecent(r) \/ SumRecent(r) \/ FindReceivers(r)
      BY <2>2, <1>t, ReadGives DEF TypeOK, ControlInv, InFlight, Reading
    <2>3. CASE Save(r) \/ SaveUnacknowledged(r)
      BY <2>3, <1>t, SaveGives DEF TypeOK, ControlInv, InFlight, Reading
    <2>4. CASE SaveEvents(r)
      BY <2>4, <1>t DEF SaveEvents, Reply, Goto, TypeOK, ControlInv, InFlight, Reading
    <2>5. CASE Pay(r)
      BY <2>5, <1>t, PayGives DEF TypeOK, ControlInv, InFlight, Reading
    <2>6. CASE PayFails(r)
      BY <2>6, <1>t DEF PayFails, Reply, Goto, TypeOK, ControlInv, InFlight, Reading
    <2>7. CASE CallFails(r)
      BY <2>7, <1>t DEF CallFails, Reply, Goto, Forget, TypeOK, ControlInv, InFlight, Reading
    <2>8. CASE Crash(r)
      BY <2>8, <1>t DEF Crash, Goto, Forget, TypeOK, ControlInv, InFlight, Reading
    <2> QED BY <1>2, <2>1, <2>2, <2>3, <2>4, <2>5, <2>6, <2>7, <2>8 DEF Step
  <1>3. CASE UNCHANGED vars
    BY <1>3, <1>t DEF vars, TypeOK, ControlInv
  <1> QED BY <1>1, <1>2, <1>3 DEF Next
-----------------------------------------------------------------------------
(* Rows and the history they make *)

LEMMA RowStep ==
    ASSUME FraudInv, [Next]_vars PROVE RowInv'
  <1>t. RowInv /\ TypeOK /\ ControlInv
    BY DEF FraudInv
  <1>i. \A x \in analyses : x.id \in Requests
    BY <1>t DEF TypeOK, Analysis
  <1>1. CASE Pass \/ UNCHANGED vars
    BY <1>1, <1>t DEF Pass, vars, RowInv
  <1>2. ASSUME NEW r \in Requests, Step(r) PROVE RowInv'
    <2>1. CASE Receive(r)
      BY <2>1, <1>t, <1>i, ReceiveGives DEF RowInv, TypeOK
    <2>2. CASE CountRecent(r) \/ SumRecent(r) \/ FindReceivers(r)
      BY <2>2, <1>t, <1>i, ReadGives DEF RowInv, TypeOK
    <2>3. CASE Save(r) \/ SaveUnacknowledged(r)
      <3>1. /\ analyses' = analyses \cup {Saved(r)} /\ cmd' = cmd
            /\ \A q \in Requests \ {r} : pc'[q] = pc[q]
            /\ pc'[r] \in {"saveEvents", "saga", "done"}
        BY <2>3, <1>t, SaveGives DEF TypeOK
      <3>2. IsFiniteSet(analyses')
        BY <3>1, <1>t, FS_AddElement DEF RowInv
      <3>3. Saved(r).id = r /\ Saved(r).sender = cmd[r].sender
        BY DEF Saved
      <3> QED BY <3>1, <3>2, <3>3, <1>t, <1>i DEF RowInv
    <2>5. CASE Pay(r)
      <3> DEFINE row(x) == IF x.id = r THEN [x EXCEPT !.paid = cmd[r].receiver] ELSE x
      <3>1. /\ analyses' = {row(x) : x \in analyses} /\ cmd' = cmd
            /\ pc' = [pc EXCEPT ![r] = "done"]
        BY <2>5, PayGives
      <3>2. IsFiniteSet(analyses')
        <4>1. [x \in analyses |-> row(x)] \in Surjection(analyses, analyses')
          BY <3>1 DEF Surjection
        <4> QED BY <4>1, <1>t, FS_Surjection DEF RowInv
      <3>3. \A x \in analyses : row(x).id = x.id /\ row(x).sender = x.sender
        BY <1>t DEF TypeOK, Analysis
      <3> HIDE DEF row
      <3>4. \A y \in analyses' : \E x \in analyses : y.id = x.id /\ y.sender = x.sender
        BY <3>1, <3>3
      <3> QED BY <3>1, <3>2, <3>4, <1>t, <1>i DEF RowInv, TypeOK
    <2>6. CASE SaveEvents(r) \/ PayFails(r) \/ CallFails(r) \/ Crash(r)
      BY <2>6, <1>t, <1>i
      DEF SaveEvents, PayFails, CallFails, Crash, Reply, Goto, RowInv, TypeOK, Reading, InFlight
    <2> QED BY <1>2, <2>1, <2>2, <2>3, <2>5, <2>6 DEF Step
  <1> QED BY <1>1, <1>2 DEF Next

\* A handler that does not move keeps what is known of it.
LEMMA HistoryOfOthers ==
    ASSUME FraudInv, NEW q \in Requests, NEW u \in Nat, now' = u, now <= u,
           pc'[q] = pc[q], cmd'[q] = cmd[q], draft'[q] = draft[q],
           q \notin overtaken' /\ pc[q] \in Reading =>
               /\ q \notin overtaken
               /\ \A x : x.sender = cmd[q].sender => (x \in analyses <=> x \in analyses')
    PROVE  /\ pc'[q] = "count" => "HIGH_FREQUENCY" \notin draft'[q].factors
           /\ pc'[q] \in {"count", "sum", "receivers"} => "REPEATED_RECEIVER" \notin draft'[q].factors
           /\ (pc'[q] \in {"sum", "receivers", "save"} /\ q \notin overtaken') => FrequencyJudged(q)'
           /\ (pc'[q] = "save" /\ q \notin overtaken') => ReceiverJudged(q)'
  <1>1. pc[q] \in Reading => draft[q].begun \in Nat
    BY FraudAssumption DEF FraudInv, ControlInv, Draft
  <1>2. CASE pc[q] \in Reading /\ q \notin overtaken'
    <2>1. /\ FrequencyJudged(q) => FrequencyJudged(q)'
          /\ ReceiverJudged(q) => ReceiverJudged(q)'
      BY <1>1, <1>2, JudgementKept DEF FraudInv, RowInv
    <2> QED BY <2>1, <1>2 DEF FraudInv, HistoryInv
  <1>3. CASE pc[q] \notin Reading \/ q \in overtaken'
    BY <1>3 DEF FraudInv, HistoryInv, Reading
  <1> QED BY <1>2, <1>3

\* A write of r changes rows of its sender only.
LEMMA WritesOwnRows ==
    ASSUME FraudInv, NEW r \in Requests, Save(r) \/ SaveUnacknowledged(r) \/ Pay(r)
    PROVE  \A x : x.sender # cmd[r].sender => (x \in analyses <=> x \in analyses')
  <1>1. CASE Save(r) \/ SaveUnacknowledged(r)
    <2>1. Saved(r).sender = cmd[r].sender
      BY DEF Saved
    <2>2. analyses' = analyses \cup {Saved(r)}
      BY <1>1, SaveGives
    <2> QED BY <2>1, <2>2
  <1>2. CASE Pay(r)
    <2> DEFINE row(x) == IF x.id = r THEN [x EXCEPT !.paid = cmd[r].receiver] ELSE x
    <2>1. analyses' = {row(x) : x \in analyses}
      BY <1>2, PayGives
    <2>2. \A x \in analyses : row(x).sender = x.sender
      BY DEF FraudInv, TypeOK, Analysis
    <2>3. \A x \in analyses : x.sender # cmd[r].sender => row(x) = x
      BY DEF FraudInv, RowInv
    <2> HIDE DEF row
    <2> QED BY <2>1, <2>2, <2>3
  <1> QED BY <1>1, <1>2

\* What a read of r adds is what it found.
LEMMA HistoryOfReader ==
    ASSUME FraudInv, NEW r \in Requests, CountRecent(r) \/ SumRecent(r) \/ FindReceivers(r)
    PROVE  /\ pc'[r] \in {"sum", "receivers"} => "REPEATED_RECEIVER" \notin draft'[r].factors
           /\ pc'[r] \in {"sum", "receivers", "save"}
           /\ r \notin overtaken' => FrequencyJudged(r)'
           /\ (pc'[r] = "save" /\ r \notin overtaken') => ReceiverJudged(r)'
  <1> DEFINE s == cmd[r].sender
             c == cmd[r].receiver
  <1>1. /\ TypeOK /\ IsFiniteSet(analyses) /\ pc \in [Requests -> {"idle", "done", "crashed"} \cup InFlight]
        /\ pc[r] \in Reading /\ now \in Nat /\ draft[r].begun \in Nat /\ draft[r].begun <= now
        /\ draft[r].factors \subseteq Factor
    BY FraudAssumption
    DEF FraudInv, RowInv, TypeOK, ControlInv, Draft, Reading, CountRecent, SumRecent, FindReceivers
  <1>2. /\ IsFrequent(s, now) => IsFrequent(s, draft[r].begun)
        /\ IsRepeated(s, now, c) => IsRepeated(s, draft[r].begun, c)
    BY <1>1, WindowShrinks
  <1>3. /\ UNCHANGED <<analyses, now, cmd, overtaken>> /\ draft'[r].begun = draft[r].begun
    BY ReadGives
  <1>4. /\ IsFrequent(cmd[r].sender, now)' <=> IsFrequent(s, now)
        /\ IsRepeated(cmd[r].sender, now, cmd[r].receiver)' <=> IsRepeated(s, now, c)
        /\ IsFrequent(cmd[r].sender, draft[r].begun)' <=> IsFrequent(s, draft[r].begun)
        /\ IsRepeated(cmd[r].sender, draft[r].begun, cmd[r].receiver)'
              <=> IsRepeated(s, draft[r].begun, c)
    BY <1>3 DEF IsFrequent, IsRepeated, Recent
  <1>5. CASE /\ pc[r] = "count" /\ pc' = [pc EXCEPT ![r] = "sum"]
             /\ draft'[r].factors = draft[r].factors \cup {x \in {"HIGH_FREQUENCY"} : IsFrequent(s, now)}
    <2>1. "HIGH_FREQUENCY" \notin draft[r].factors /\ "REPEATED_RECEIVER" \notin draft[r].factors
      BY <1>5 DEF FraudInv, HistoryInv
    <2>2. "HIGH_FREQUENCY" \in draft'[r].factors <=> IsFrequent(s, now)
      BY <1>5, <2>1
    <2>3. FrequencyJudged(r)'
      BY <1>2, <1>4, <2>2 DEF FrequencyJudged, Judged
    <2> QED BY <1>1, <1>5, <2>1, <2>3
  <1>6. CASE /\ pc[r] = "sum" /\ pc' = [pc EXCEPT ![r] = "receivers"]
             /\ draft'[r].factors = draft[r].factors \cup
                     {x \in {"UNUSUAL_AMOUNT"} : IsTooMuch(s, now, cmd[r].amount)}
    <2>1. /\ "REPEATED_RECEIVER" \notin draft[r].factors
          /\ r \notin overtaken => FrequencyJudged(r)
      BY <1>6 DEF FraudInv, HistoryInv
    <2>2. /\ "HIGH_FREQUENCY" \in draft'[r].factors <=> "HIGH_FREQUENCY" \in draft[r].factors
          /\ "REPEATED_RECEIVER" \notin draft'[r].factors
      BY <1>6, <2>1
    <2>3. r \notin overtaken' => FrequencyJudged(r)'
      BY <1>3, <1>4, <2>1, <2>2 DEF FrequencyJudged, Judged
    <2> QED BY <1>1, <1>6, <2>2, <2>3
  <1>7. CASE /\ pc[r] = "receivers" /\ pc' = [pc EXCEPT ![r] = "save"]
             /\ draft'[r].factors = draft[r].factors \cup
                     {x \in {"REPEATED_RECEIVER"} : IsRepeated(s, now, c)}
    <2>1. /\ "REPEATED_RECEIVER" \notin draft[r].factors
          /\ r \notin overtaken => FrequencyJudged(r)
      BY <1>7 DEF FraudInv, HistoryInv
    <2>2. /\ "HIGH_FREQUENCY" \in draft'[r].factors <=> "HIGH_FREQUENCY" \in draft[r].factors
          /\ "REPEATED_RECEIVER" \in draft'[r].factors <=> IsRepeated(s, now, c)
      BY <1>7, <2>1
    <2>3. r \notin overtaken' => FrequencyJudged(r)'
      BY <1>3, <1>4, <2>1, <2>2 DEF FrequencyJudged, Judged
    <2>4. ReceiverJudged(r)'
      BY <1>2, <1>4, <2>2 DEF ReceiverJudged, Judged
    <2> QED BY <1>1, <1>7, <2>3, <2>4
  <1> QED BY <1>5, <1>6, <1>7, ReadGives

\* A request does not touch what another one has found, nor, unless it says
\* so, the rows that one reads.
LEMMA StepOfOthers ==
    ASSUME FraudInv, NEW r \in Requests, Step(r), NEW q \in Requests \ {r}
    PROVE  /\ pc'[q] = pc[q] /\ cmd'[q] = cmd[q] /\ draft'[q] = draft[q] /\ now' = now
           /\ (q \notin overtaken' /\ pc[q] \in Reading) =>
                 /\ q \notin overtaken
                 /\ \A x : x.sender = cmd[q].sender => (x \in analyses <=> x \in analyses')
  <1>t. TypeOK
    BY DEF FraudInv
  <1>1. CASE Receive(r)
    BY <1>1, <1>t, ReceiveGives DEF TypeOK
  <1>2. CASE CountRecent(r) \/ SumRecent(r) \/ FindReceivers(r)
    BY <1>2, <1>t, ReadGives DEF TypeOK
  <1>3. CASE Save(r) \/ SaveUnacknowledged(r)
    <2>1. \A x : x.sender # cmd[r].sender => (x \in analyses <=> x \in analyses')
      BY <1>3, WritesOwnRows
    <2> QED BY <1>3, <2>1, <1>t, SaveGives DEF TypeOK
  <1>4. CASE Pay(r)
    <2>1. \A x : x.sender # cmd[r].sender => (x \in analyses <=> x \in analyses')
      BY <1>4, WritesOwnRows
    <2> QED BY <1>4, <2>1, <1>t, PayGives DEF TypeOK
  <1>5. CASE SaveEvents(r) \/ PayFails(r) \/ CallFails(r) \/ Crash(r)
    BY <1>5, <1>t DEF SaveEvents, PayFails, CallFails, Crash, Reply, Goto, Forget, TypeOK
  <1> QED BY <1>1, <1>2, <1>3, <1>4, <1>5 DEF Step

LEMMA HistoryStep ==
    ASSUME FraudInv, [Next]_vars PROVE HistoryInv'
  <1>t. TypeOK /\ now \in Nat
    BY FraudAssumption DEF FraudInv, TypeOK
  <1>1. CASE Pass \/ UNCHANGED vars
    <2>1. /\ now' \in Nat /\ now <= now'
          /\ UNCHANGED <<analyses, cmd, pc, draft, overtaken>>
      <3>1. CASE Pass
        <4>1. PICK t \in Instants : t > now /\ now' = t
          BY <3>1 DEF Pass
        <4>2. t \in Nat
          BY FraudAssumption
        <4> QED BY <3>1, <4>1, <4>2, <1>t DEF Pass
      <3>2. CASE UNCHANGED vars
        BY <3>2, <1>t DEF vars
      <3> QED BY <1>1, <3>1, <3>2
    <2>2. ASSUME NEW q \in Requests
          PROVE  /\ pc'[q] = "count" => "HIGH_FREQUENCY" \notin draft'[q].factors
                 /\ pc'[q] \in {"count", "sum", "receivers"} => "REPEATED_RECEIVER" \notin draft'[q].factors
                 /\ (pc'[q] \in {"sum", "receivers", "save"} /\ q \notin overtaken') => FrequencyJudged(q)'
                 /\ (pc'[q] = "save" /\ q \notin overtaken') => ReceiverJudged(q)'
      BY <2>1, HistoryOfOthers
    <2> QED BY <2>2 DEF HistoryInv
  <1>2. ASSUME NEW r \in Requests, Step(r) PROVE HistoryInv'
    <2>1. ASSUME NEW q \in Requests \ {r}
          PROVE  /\ pc'[q] = pc[q] /\ cmd'[q] = cmd[q] /\ draft'[q] = draft[q] /\ now' = now
                 /\ (q \notin overtaken' /\ pc[q] \in Reading) =>
                       /\ q \notin overtaken
                       /\ \A x : x.sender = cmd[q].sender => (x \in analyses <=> x \in analyses')
      BY <1>2, StepOfOthers
    <2>2. ASSUME NEW q \in Requests \ {r}
          PROVE  /\ pc'[q] = "count" => "HIGH_FREQUENCY" \notin draft'[q].factors
                 /\ pc'[q] \in {"count", "sum", "receivers"} => "REPEATED_RECEIVER" \notin draft'[q].factors
                 /\ (pc'[q] \in {"sum", "receivers", "save"} /\ q \notin overtaken') => FrequencyJudged(q)'
                 /\ (pc'[q] = "save" /\ q \notin overtaken') => ReceiverJudged(q)'
      BY <2>1, <1>t, HistoryOfOthers
    <2>3. /\ pc'[r] = "count" => "HIGH_FREQUENCY" \notin draft'[r].factors
          /\ pc'[r] \in {"count", "sum", "receivers"} => "REPEATED_RECEIVER" \notin draft'[r].factors
          /\ (pc'[r] \in {"sum", "receivers", "save"} /\ r \notin overtaken') => FrequencyJudged(r)'
          /\ (pc'[r] = "save" /\ r \notin overtaken') => ReceiverJudged(r)'
      <3>1. CASE Receive(r)
        <4>1. \A c \in Commands : /\ "HIGH_FREQUENCY" \notin CommandFactors(c)
                                  /\ "REPEATED_RECEIVER" \notin CommandFactors(c)
          BY DEF CommandFactors
        <4> QED BY <3>1, <4>1, <1>t, ReceiveGives DEF TypeOK
      <3>2. CASE CountRecent(r) \/ SumRecent(r) \/ FindReceivers(r)
        BY <3>2, HistoryOfReader
      <3>3. CASE Save(r) \/ SaveUnacknowledged(r)
        BY <3>3, <1>t, SaveGives DEF TypeOK
      <3>4. CASE Pay(r)
        BY <3>4, <1>t, PayGives DEF TypeOK
      <3>5. CASE SaveEvents(r) \/ PayFails(r) \/ CallFails(r) \/ Crash(r)
        BY <3>5, <1>t DEF SaveEvents, PayFails, CallFails, Crash, Reply, Goto, TypeOK
      <3> QED BY <1>2, <3>1, <3>2, <3>3, <3>4, <3>5 DEF Step
    <2> QED BY <2>2, <2>3 DEF HistoryInv
  <1> QED BY <1>1, <1>2 DEF Next
-----------------------------------------------------------------------------
(* Blocked analyses *)

LEMMA BlockedStep ==
    ASSUME FraudInv, [Next]_vars PROVE BlockedInv' /\ BlockedStaysBlocked'
  <1>t. TypeOK /\ ControlInv /\ RowInv /\ BlockedInv /\ BlockedStaysBlocked
    BY DEF FraudInv
  <1>i. /\ \A x \in analyses : x \in Analysis /\ x.id \in Requests
        /\ \A x \in analyses : pc[x.id] \in {"saveEvents", "saga", "done", "crashed"}
    BY <1>t DEF TypeOK, Analysis, RowInv
  <1>1. CASE Pass \/ UNCHANGED vars
    BY <1>1, <1>t DEF Pass, vars, BlockedInv, BlockedStaysBlocked
  <1>2. ASSUME NEW r \in Requests, Step(r) PROVE BlockedInv' /\ BlockedStaysBlocked'
    <2>1. CASE Receive(r)
      <3>1. /\ UNCHANGED <<analyses, announced, answer>> /\ pc[r] = "idle"
            /\ pc' = [pc EXCEPT ![r] = "count"]
        BY <2>1, ReceiveGives
      <3> QED BY <3>1, <1>t, <1>i DEF TypeOK, BlockedInv, BlockedStaysBlocked
    <2>2. CASE CountRecent(r) \/ SumRecent(r) \/ FindReceivers(r)
      <3>1. /\ UNCHANGED <<analyses, announced, answer>> /\ pc[r] \in Reading
            /\ \E l \in Reading : pc' = [pc EXCEPT ![r] = l]
        BY <2>2, ReadGives DEF Reading
      <3> QED BY <3>1, <1>t, <1>i DEF TypeOK, BlockedInv, BlockedStaysBlocked, Reading
    <2>3. CASE Save(r) \/ SaveUnacknowledged(r)
      <3>1. /\ Saved(r).id = r /\ Saved(r).paid = None
            /\ IsBlocked(r) <=> Decision(Saved(r).factors) = "BLOCKED"
        BY DEF Saved, IsBlocked
      <3>2. /\ analyses' = analyses \cup {Saved(r)} /\ announced' = announced /\ pc[r] = "save"
            /\ \/ pc' = [pc EXCEPT ![r] = "saveEvents"] /\ IsBlocked(r) /\ answer' = answer
               \/ pc' = [pc EXCEPT ![r] = "saga"] /\ ~IsBlocked(r) /\ answer' = answer
               \/ pc' = [pc EXCEPT ![r] = "done"] /\ answer' = [answer EXCEPT ![r] = "error"]
        BY <2>3, SaveGives
      <3>3. answer[r] = "none"
        BY <3>2, <1>t DEF ControlInv, InFlight, Reading
      <3>4. \A x \in analyses : x.id # r
        BY <1>i, <3>2
      <3> QED BY <3>1, <3>2, <3>3, <3>4, <1>t, <1>i DEF TypeOK, BlockedInv, BlockedStaysBlocked
    <2>4. CASE SaveEvents(r)
      <3>1. /\ analyses' = analyses /\ announced' = announced \cup {r} /\ pc[r] = "saveEvents"
            /\ pc' = [pc EXCEPT ![r] = "done"]
            /\ answer' = [answer EXCEPT ![r] = "blocked"] \/ answer' = [answer EXCEPT ![r] = "error"]
        BY <2>4 DEF SaveEvents, Reply, Goto
      <3>2. \E x \in analyses : x.id = r /\ Decision(x.factors) = "BLOCKED"
        BY <3>1, <1>t DEF BlockedInv
      <3> QED BY <3>1, <3>2, <1>t, <1>i DEF TypeOK, BlockedInv, BlockedStaysBlocked
    <2>5. CASE Pay(r)
      <3> DEFINE row(x) == IF x.id = r THEN [x EXCEPT !.paid = cmd[r].receiver] ELSE x
      <3>1. /\ analyses' = {row(x) : x \in analyses} /\ announced' = announced
            /\ pc[r] = "saga" /\ pc' = [pc EXCEPT ![r] = "done"]
            /\ \A q \in Requests \ {r} : answer'[q] = answer[q]
        BY <2>5, PayGives
      <3>2. \A x \in analyses : row(x).id = x.id /\ row(x).factors = x.factors
        BY <1>i DEF Analysis
      <3>3. \A x \in analyses : Decision(x.factors) = "BLOCKED" => x.id # r /\ row(x) = x
        BY <3>1, <1>t DEF BlockedInv
      <3> HIDE DEF row
      <3>4. /\ \A y \in analyses' : Decision(y.factors) = "BLOCKED" => y \in analyses /\ y.id # r
            /\ \A y \in analyses : Decision(y.factors) = "BLOCKED" => y \in analyses'
        BY <3>1, <3>2, <3>3
      <3> QED BY <3>1, <3>4, <1>t, <1>i DEF TypeOK, BlockedInv, BlockedStaysBlocked
    <2>6. CASE PayFails(r)
      <3>1. /\ UNCHANGED <<analyses, announced>> /\ pc[r] = "saga"
            /\ pc' = [pc EXCEPT ![r] = "done"] /\ answer' = [answer EXCEPT ![r] = "failed"]
        BY <2>6 DEF PayFails, Reply, Goto
      <3>2. \A x \in analyses : Decision(x.factors) = "BLOCKED" => x.id # r
        BY <3>1, <1>t DEF BlockedInv
      <3> QED BY <3>1, <3>2, <1>t, <1>i DEF TypeOK, BlockedInv, BlockedStaysBlocked
    <2>7. CASE CallFails(r)
      BY <2>7, <1>t, <1>i
      DEF CallFails, Reply, Goto, TypeOK, BlockedInv, BlockedStaysBlocked, Reading
    <2>8. CASE Crash(r)
      BY <2>8, <1>t, <1>i DEF Crash, Goto, TypeOK, BlockedInv, BlockedStaysBlocked, Reading, InFlight
    <2> QED BY <1>2, <2>1, <2>2, <2>3, <2>4, <2>5, <2>6, <2>7, <2>8 DEF Step
  <1> QED BY <1>1, <1>2 DEF Next

THEOREM FraudInvariant == Spec => []FraudInv
  <1>1. FraudInv /\ [Next]_vars => FraudInv'
    BY TypeStep, RowStep, HistoryStep, BlockedStep DEF FraudInv
  <1> QED BY InitFraudInv, <1>1, PTL DEF Spec

\* Every reachable state has the types of the tables and of the handlers.
THEOREM TypeCorrect == Spec => []TypeOK
  <1>1. FraudInv => TypeOK
    BY DEF FraudInv
  <1> QED BY <1>1, FraudInvariant, PTL

\* Unless a row of its sender was written while it was reading, an analysis
\* decides on frequency and receivers as if it were one step, whatever the
\* other senders and the clock do between its calls.
THEOREM HistoryJudgement == Spec => []HistoryIsJudgedRight
  <1>1. FraudInv => HistoryIsJudgedRight
    BY DEF FraudInv, HistoryInv, HistoryIsJudgedRight
  <1> QED BY <1>1, FraudInvariant, PTL

\* A blocked analysis never gets a payment, and is announced if its client was
\* told; what is announced was blocked.
THEOREM BlockedForGood == Spec => []BlockedStaysBlocked
  <1>1. FraudInv => BlockedStaysBlocked
    BY DEF FraudInv
  <1> QED BY <1>1, FraudInvariant, PTL
=============================================================================
