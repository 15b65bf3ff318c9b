---------------------------- MODULE OutboxProofs ----------------------------
(***************************************************************************)
(* Theorems about Outbox: for any number of events, processes, runs and    *)
(* faults, and two that need a single relaying process.                    *)
(***************************************************************************)
EXTENDS Outbox, FiniteSetTheorems, TLAPS

\* The flag of a process is up while a run of it is open, and only one is.
FlagInv ==
    /\ \A r \in Runs : run[r] # "idle" => isRunning[Owner[r]]
    /\ \A r, s \in Runs : run[r] # "idle" /\ run[s] # "idle" /\ Owner[r] = Owner[s] => r = s
    /\ \A r \in Runs, e \in Events : task[r][e] # "none" => run[r] = "relay"

\* What is in the hands of a run, or PUBLISHED, was inserted; what Kafka has
\* acknowledged, or is marked PUBLISHED, is in its topic.
SentInv ==
    /\ \A r \in Runs, e \in Events : task[r][e] # "none" => table[e] \in Row
    /\ \A r \in Runs, e \in Mapped : task[r][e] = "markPublished" => e \in topic
    /\ PublishedMeansSent

OutboxInv == TypeOK /\ FlagInv /\ SentInv /\ RetriesMatchStatus

Label == {"none", "publish", "markPublished", "markFailed"}
-----------------------------------------------------------------------------
\* The two sorts of row.
LEMMA RowParts ==
    /\ \A row \in Row : /\ row.status \in {"PENDING", "PUBLISHED", "FAILED"}
                        /\ row.retries \in 0..RetryLimit /\ row # Absent
    /\ Absent.status = "ABSENT" /\ Absent.retries = 0
    BY DEF Row, Absent, RetryLimit

LEMMA AdvanceResult ==
    ASSUME TypeOK, NEW r \in Runs, NEW e \in Events, NEW next \in Label, Advance(r, e, next)
    PROVE  /\ task' \in [Runs -> [Events -> Label]]
           /\ \A s \in Runs, f \in Events :
                 task'[s][f] = IF s = r /\ f = e THEN next ELSE task[s][f]
    BY DEF TypeOK, Advance, Label

LEMMA SendResult ==
    ASSUME TypeOK, NEW e \in Events, Send(e) \/ UNCHANGED sends
    PROVE  /\ sends' \in [Events -> Nat]
           /\ \A f \in Events : sends'[f] >= sends[f] /\ (f # e => sends'[f] = sends[f])
           /\ sends'[e] <= sends[e] + 1
    BY DEF TypeOK, Send

LEMMA ArriveResult ==
    ASSUME TypeOK, NEW e \in Events, Arrive(e) \/ UNCHANGED topic
    PROVE  /\ topic' \subseteq Events /\ topic \subseteq topic'
           /\ Arrive(e) => e \in topic'
    BY DEF TypeOK, Arrive

LEMMA FaultResult == TypeOK /\ Fault => faults' \in 0..MaxFaults /\ faults' = faults + 1
    BY OutboxAssumption DEF TypeOK, Fault

LEMMA SetPublishedResult ==
    ASSUME TypeOK, NEW e \in Events, table[e] \in Row, SetPublished(e)
    PROVE  /\ table' \in [Events -> Row \cup {Absent}] /\ table'[e] \in Row
           /\ table'[e].status = "PUBLISHED" /\ table'[e].retries = table[e].retries
           /\ \A f \in Events \ {e} : table'[f] = table[f]
  <1>1. [table[e] EXCEPT !.status = "PUBLISHED"] \in Row
    BY DEF Row
  <1>2. table'[e] = [table[e] EXCEPT !.status = "PUBLISHED"]
    BY DEF SetPublished, TypeOK
  <1>3. table'[e].status = "PUBLISHED" /\ table'[e].retries = table[e].retries
    BY <1>2 DEF Row
  <1> QED BY <1>1, <1>2, <1>3 DEF SetPublished, TypeOK

LEMMA SetFailedResult ==
    ASSUME TypeOK, NEW r \in Runs, NEW e \in Events, table[e] \in Row, SetFailed(r, e)
    PROVE  /\ table' \in [Events -> Row \cup {Absent}] /\ table'[e] \in Row
           /\ table'[e].status = IF read[r][e] >= 4 THEN "FAILED" ELSE "PENDING"
           /\ table'[e].retries = read[r][e] + 1
           /\ read[r][e] \in 0..4
           /\ \A f \in Events \ {e} : table'[f] = table[f]
  <1> DEFINE row == [table[e] EXCEPT !.status = IF read[r][e] >= 4 THEN "FAILED" ELSE "PENDING",
                                     !.retries = read[r][e] + 1]
  <1>1. read[r][e] \in 0..4
    BY DEF TypeOK, RetryLimit
  <1>2. read[r][e] + 1 \in 0..RetryLimit
    BY <1>1 DEF RetryLimit
  <1>3. row \in Row
    BY <1>2 DEF Row
  <1>4. /\ row.status = IF read[r][e] >= 4 THEN "FAILED" ELSE "PENDING"
        /\ row.retries = read[r][e] + 1
    BY DEF Row
  <1>5. table'[e] = row
    BY DEF SetFailed, TypeOK
  <1>6. \A f \in Events \ {e} : table'[f] = table[f]
    BY DEF SetFailed, TypeOK
  <1>7. table' \in [Events -> Row \cup {Absent}]
    BY <1>3, <1>5, <1>6 DEF SetFailed, TypeOK
  <1> HIDE DEF row
  <1> QED BY <1>1, <1>3, <1>4, <1>5, <1>6, <1>7

\* The steps of one task, and of a run as a whole.
TaskStep(r, e) ==
    \/ Publish(r, e) \/ PublishFails(r, e) \/ MarkPublished(r, e)
    \/ MarkPublishedFails(r, e) \/ MarkFailed(r, e) \/ MarkFailedFails(r, e)
RunStep(r) == Tick(r) \/ Fetch(r) \/ FetchFails(r) \/ Finish(r)

LEMMA Steps ==
    ASSUME [Next]_vars
    PROVE  \/ \E e \in Events : Insert(e)
           \/ \E r \in Runs, e \in Events : TaskStep(r, e)
           \/ \E r \in Runs : RunStep(r)
           \/ \E p \in Processes : Crash(p)
           \/ \E e \in Events : ArriveLate(e)
           \/ UNCHANGED vars
    BY DEF Next, Step, TaskStep, RunStep

\* A task moves on by itself: nothing else of its run changes.
LEMMA TaskResult ==
    ASSUME OutboxInv, NEW r \in Runs, NEW e \in Events, TaskStep(r, e)
    PROVE  /\ TypeOK'
           /\ UNCHANGED <<isRunning, run, read>>
           /\ task[r][e] # "none" /\ table[e] \in Row /\ table'[e] \in Row
           /\ \A s \in Runs, f \in Events : s # r \/ f # e => task'[s][f] = task[s][f]
           /\ \A f \in Events \ {e} : table'[f] = table[f] /\ sends'[f] = sends[f]
           /\ faults <= faults' /\ topic \subseteq topic'
  <1>t. TypeOK /\ r \in Runs /\ e \in Events
    BY DEF OutboxInv
  <1>f. faults \in Nat
    BY <1>t, OutboxAssumption DEF TypeOK
  <1>1. task[r][e] # "none" /\ table[e] \in Row
    BY DEF TaskStep, Publish, PublishFails, MarkPublished, MarkPublishedFails, MarkFailed,
       MarkFailedFails, OutboxInv, SentInv
  <1>2. CASE Publish(r, e) \/ PublishFails(r, e)
    <2>1. UNCHANGED <<table, isRunning, run, read, faults>>
      BY <1>2 DEF Publish, PublishFails
    <2>2. \E next \in Label : Advance(r, e, next)
      BY <1>2 DEF Publish, PublishFails, Label
    <2>3. (Send(e) \/ UNCHANGED sends) /\ (Arrive(e) \/ UNCHANGED topic)
      BY <1>2 DEF Publish, PublishFails
    <2>4. /\ sends' \in [Events -> Nat] /\ topic' \subseteq Events /\ topic \subseteq topic'
          /\ \A f \in Events \ {e} : sends'[f] = sends[f]
      BY <2>3, <1>t, SendResult, ArriveResult
    <2>5. TypeOK'
      BY <2>1, <2>2, <2>4, <1>t, AdvanceResult DEF TypeOK, Label
    <2> QED BY <1>1, <2>1, <2>2, <2>4, <2>5, <1>t, <1>f, AdvanceResult
  <1>3. CASE MarkPublished(r, e) \/ MarkFailed(r, e)
    <2>1. UNCHANGED <<isRunning, run, read, sends, topic, faults>>
      BY <1>3 DEF MarkPublished, MarkFailed
    <2>2. Advance(r, e, "none") /\ "none" \in Label
      BY <1>3 DEF MarkPublished, MarkFailed, Label
    <2>3. SetPublished(e) \/ SetFailed(r, e)
      BY <1>3 DEF MarkPublished, MarkFailed
    <2>4. /\ table' \in [Events -> Row \cup {Absent}] /\ table'[e] \in Row
          /\ \A f \in Events \ {e} : table'[f] = table[f]
      BY <2>3, <1>1, <1>t, SetPublishedResult, SetFailedResult
    <2>5. TypeOK'
      BY <2>1, <2>2, <2>4, <1>t, AdvanceResult DEF TypeOK, Label
    <2> QED BY <1>1, <2>1, <2>2, <2>4, <2>5, <1>t, <1>f, AdvanceResult
  <1>4. CASE MarkPublishedFails(r, e) \/ MarkFailedFails(r, e)
    <2>1. UNCHANGED <<isRunning, run, read, sends, topic>> /\ Fault
      BY <1>4 DEF MarkPublishedFails, MarkFailedFails
    <2>2. \E next \in Label : Advance(r, e, next)
      BY <1>4 DEF MarkPublishedFails, MarkFailedFails, Label
    <2>3. SetPublished(e) \/ SetFailed(r, e) \/ UNCHANGED table
      BY <1>4 DEF MarkPublishedFails, MarkFailedFails
    <2>4. /\ table' \in [Events -> Row \cup {Absent}] /\ table'[e] \in Row
          /\ \A f \in Events \ {e} : table'[f] = table[f]
      BY <2>3, <1>1, <1>t, SetPublishedResult, SetFailedResult DEF TypeOK
    <2>5. TypeOK'
      BY <2>1, <2>2, <2>4, <1>t, AdvanceResult, FaultResult DEF TypeOK, Label
    <2> QED BY <1>1, <2>1, <2>2, <2>4, <2>5, <1>t, <1>f, AdvanceResult, FaultResult
  <1> QED BY <1>2, <1>3, <1>4 DEF TaskStep

\* A run opens, fetches its batch or closes; the table is not written.
LEMMA RunResult ==
    ASSUME OutboxInv, NEW r \in Runs, RunStep(r)
    PROVE  /\ TypeOK'
           /\ UNCHANGED <<table, sends, topic>> /\ faults <= faults'
           /\ \/ /\ UNCHANGED <<task, read>>
                 /\ \/ /\ run[r] = "idle" /\ ~isRunning[Owner[r]]
                       /\ run' = [run EXCEPT ![r] = "fetch"]
                       /\ isRunning' = [isRunning EXCEPT ![Owner[r]] = TRUE]
                    \/ /\ run[r] # "idle"
                       /\ \A e \in Events : task[r][e] = "none"
                       /\ run' = [run EXCEPT ![r] = "idle"]
                       /\ isRunning' = [isRunning EXCEPT ![Owner[r]] = FALSE]
              \/ /\ run[r] = "fetch" /\ run' = [run EXCEPT ![r] = "relay"]
                 /\ UNCHANGED isRunning
                 /\ \A s \in Runs, e \in Events :
                       \/ task'[s][e] = task[s][e] /\ read'[s][e] = read[s][e]
                       \/ s = r /\ task'[s][e] = "none"
                       \/ /\ s = r /\ task'[s][e] = "publish" /\ e \in Batch
                          /\ read'[s][e] = table[e].retries
  <1>t. TypeOK /\ FlagInv /\ r \in Runs /\ Owner[r] \in Processes
    BY OutboxAssumption DEF OutboxInv
  <1>f. faults \in Nat
    BY <1>t, OutboxAssumption DEF TypeOK
  <1>1. CASE Tick(r)
    BY <1>1, <1>t, <1>f DEF Tick, TypeOK
  <1>2. CASE Release(r) /\ UNCHANGED <<task, read, table, sends, topic>> /\ (UNCHANGED faults \/ Fault)
             /\ run[r] # "idle" /\ \A e \in Events : task[r][e] = "none"
    BY <1>2, <1>t, <1>f, FaultResult DEF Release, TypeOK
  <1>3. CASE /\ run[r] = "fetch" /\ run' = [run EXCEPT ![r] = "relay"]
             /\ task' = [task EXCEPT ![r] =
                   [e \in Events |-> IF e \in Batch THEN "publish" ELSE "none"]]
             /\ read' = [read EXCEPT ![r] =
                   [e \in Events |-> IF e \in Batch THEN table[e].retries ELSE 0]]
             /\ UNCHANGED <<isRunning, table, sends, topic, faults>>
    <2>1. \A e \in Batch : e \in Events /\ table[e].retries \in 0..(RetryLimit - 1)
      <3> SUFFICES ASSUME NEW e \in Batch PROVE e \in Events /\ table[e].retries \in 0..(RetryLimit - 1)
        OBVIOUS
      <3>1. e \in Events /\ table[e].status = "PENDING" /\ table[e].retries < RetryLimit
        BY DEF Batch, Fetchable
      <3>2. table[e].retries \in 0..RetryLimit
        BY <3>1, <1>t, RowParts DEF TypeOK
      <3> QED BY <3>1, <3>2 DEF RetryLimit
    <2>2. task' \in [Runs -> [Events -> Label]] /\ read' \in [Runs -> [Events -> 0..(RetryLimit - 1)]]
      <3>1. [e \in Events |-> IF e \in Batch THEN "publish" ELSE "none"] \in [Events -> Label]
        BY DEF Label
      <3>2. [e \in Events |-> IF e \in Batch THEN table[e].retries ELSE 0] \in [Events -> 0..(RetryLimit - 1)]
        BY <2>1 DEF RetryLimit
      <3> QED BY <1>3, <1>t, <3>1, <3>2 DEF TypeOK, Label
    <2>3. TypeOK'
      BY <1>3, <1>t, <2>2 DEF TypeOK, Label
    <2>4. ASSUME NEW s \in Runs, NEW e \in Events
          PROVE  \/ task'[s][e] = task[s][e] /\ read'[s][e] = read[s][e]
                 \/ s = r /\ task'[s][e] = "none"
                 \/ /\ s = r /\ task'[s][e] = "publish" /\ e \in Batch
                    /\ read'[s][e] = table[e].retries
      BY <1>3, <1>t DEF TypeOK
    <2> QED BY <1>3, <1>f, <2>3, <2>4
  <1>4. run[r] = "fetch" => \A e \in Events : task[r][e] = "none"
    BY <1>t DEF FlagInv
  <1> QED BY <1>1, <1>2, <1>3, <1>4 DEF RunStep, Fetch, FetchFails, Finish

LEMMA InsertResult ==
    ASSUME OutboxInv, NEW e \in Events, Insert(e)
    PROVE  /\ TypeOK'
           /\ UNCHANGED <<isRunning, run, task, read, sends, topic, faults>>
           /\ table[e] = Absent /\ table'[e] \in Row
           /\ table'[e].status = "PENDING" /\ table'[e].retries = 0
           /\ \A f \in Events \ {e} : table'[f] = table[f]
  <1> DEFINE n == Cardinality({f \in Events : table[f] # Absent})
             row == [status |-> "PENDING", retries |-> 0, createdAt |-> n]
  <1>1. IsFiniteSet({f \in Events : table[f] # Absent})
    BY FS_Subset, OutboxAssumption
  <1>2. n \in Nat
    BY <1>1, FS_CardinalityType
  <1>3. row \in Row
    BY <1>2 DEF Row, RetryLimit
  <1>4. table' = [table EXCEPT ![e] = row] /\ table[e] = Absent
    BY DEF Insert
  <1>5. row.status = "PENDING" /\ row.retries = 0
    OBVIOUS
  <1> HIDE DEF row
  <1>6. TypeOK /\ UNCHANGED <<isRunning, run, task, read, sends, topic, faults>>
    BY DEF OutboxInv, Insert
  <1> QED BY <1>3, <1>4, <1>5, <1>6 DEF TypeOK

LEMMA LateResult ==
    ASSUME OutboxInv, NEW e \in Events, ArriveLate(e)
    PROVE  /\ TypeOK'
           /\ UNCHANGED <<table, isRunning, run, task, read, sends, faults>>
           /\ topic \subseteq topic'
  <1>1. TypeOK /\ UNCHANGED <<table, isRunning, run, task, read, sends, faults>>
    BY DEF OutboxInv, ArriveLate
  <1>2. topic' \subseteq Events /\ topic \subseteq topic'
    BY <1>1, ArriveResult DEF ArriveLate
  <1> QED BY <1>1, <1>2 DEF TypeOK

LEMMA CrashResult ==
    ASSUME OutboxInv, NEW p \in Processes, Crash(p)
    PROVE  /\ TypeOK'
           /\ UNCHANGED <<table, read, sends, topic>> /\ faults' = faults + 1
           /\ isRunning' = [isRunning EXCEPT ![p] = FALSE]
           /\ \A r \in Runs : run'[r] = IF Owner[r] = p THEN "idle" ELSE run[r]
           /\ \A r \in Runs, e \in Events :
                 task'[r][e] = IF Owner[r] = p THEN "none" ELSE task[r][e]
  <1>t. TypeOK
    BY DEF OutboxInv
  <1>1. run' \in [Runs -> {"idle", "fetch", "relay"}]
    BY <1>t DEF Crash, TypeOK
  <1>2. task' \in [Runs -> [Events -> {"none", "publish", "markPublished", "markFailed"}]]
    BY <1>t DEF Crash, TypeOK
  <1>3. isRunning' \in [Processes -> BOOLEAN]
    BY <1>t DEF Crash, TypeOK
  <1>4. UNCHANGED <<table, read, sends, topic>> /\ faults' \in 0..MaxFaults /\ faults' = faults + 1
    BY <1>t, FaultResult DEF Crash
  <1>5. TypeOK'
    BY <1>1, <1>2, <1>3, <1>4, <1>t DEF TypeOK
  <1> QED BY <1>4, <1>5 DEF Crash
-----------------------------------------------------------------------------
LEMMA InitOutboxInv == Init => OutboxInv
  <1> SUFFICES ASSUME Init PROVE OutboxInv
    OBVIOUS
  <1>1. TypeOK
    BY OutboxAssumption DEF Init, TypeOK, RetryLimit
  <1>2. FlagInv
    BY DEF Init, FlagInv
  <1>3. \A e \in Events : table[e].status = "ABSENT"
    BY RowParts DEF Init
  <1>4. SentInv /\ RetriesMatchStatus
    BY <1>3, OutboxAssumption DEF Init, SentInv, PublishedMeansSent, RetriesMatchStatus
  <1> QED BY <1>1, <1>2, <1>4 DEF OutboxInv

LEMMA StepTypeOK == OutboxInv /\ [Next]_vars => TypeOK'
  BY Steps, InsertResult, TaskResult, RunResult, CrashResult, LateResult DEF OutboxInv, TypeOK, vars

LEMMA StepFlagInv == OutboxInv /\ [Next]_vars => FlagInv'
  <1> SUFFICES ASSUME OutboxInv, [Next]_vars PROVE FlagInv'
    OBVIOUS
  <1>t. TypeOK /\ FlagInv /\ \A r \in Runs : Owner[r] \in Processes
    BY OutboxAssumption DEF OutboxInv
  <1>1. CASE UNCHANGED <<isRunning, run, task>>
    BY <1>1, <1>t DEF FlagInv
  <1>2. ASSUME NEW r \in Runs, NEW e \in Events, TaskStep(r, e) PROVE FlagInv'
    <2>1. /\ UNCHANGED <<isRunning, run>> /\ task[r][e] # "none"
          /\ \A s \in Runs, f \in Events : s # r \/ f # e => task'[s][f] = task[s][f]
      BY <1>2, TaskResult
    <2> QED BY <2>1, <1>t DEF FlagInv
  <1>3. ASSUME NEW r \in Runs, RunStep(r) PROVE FlagInv'
    <2>1. CASE /\ task' = task
               /\ run[r] = "idle" /\ ~isRunning[Owner[r]]
               /\ run' = [run EXCEPT ![r] = "fetch"]
               /\ isRunning' = [isRunning EXCEPT ![Owner[r]] = TRUE]
      <3>1. /\ \A s \in Runs : run'[s] = IF s = r THEN "fetch" ELSE run[s]
            /\ \A p \in Processes : isRunning'[p] <=> p = Owner[r] \/ isRunning[p]
        BY <2>1, <1>t DEF TypeOK
      <3> QED BY <2>1, <3>1, <1>t DEF FlagInv
    <2>2. CASE /\ task' = task
               /\ run[r] # "idle" /\ \A e \in Events : task[r][e] = "none"
               /\ run' = [run EXCEPT ![r] = "idle"]
               /\ isRunning' = [isRunning EXCEPT ![Owner[r]] = FALSE]
      <3>1. /\ \A s \in Runs : run'[s] = IF s = r THEN "idle" ELSE run[s]
            /\ \A p \in Processes : isRunning'[p] <=> p # Owner[r] /\ isRunning[p]
        BY <2>2, <1>t DEF TypeOK
      <3> QED BY <2>2, <3>1, <1>t DEF FlagInv
    <2>3. CASE /\ run[r] = "fetch" /\ run' = [run EXCEPT ![r] = "relay"] /\ UNCHANGED isRunning
               /\ \A s \in Runs, e \in Events : s = r \/ task'[s][e] = task[s][e]
      <3>1. \A s \in Runs : run'[s] = IF s = r THEN "relay" ELSE run[s]
        BY <2>3, <1>t DEF TypeOK
      <3> QED BY <2>3, <3>1, <1>t DEF FlagInv
    <2> QED BY <1>3, <2>1, <2>2, <2>3, RunResult
  <1>4. ASSUME NEW p \in Processes, Crash(p) PROVE FlagInv'
    <2>1. \A q \in Processes : isRunning'[q] <=> q # p /\ isRunning[q]
      BY <1>4, <1>t, CrashResult DEF TypeOK
    <2> QED BY <1>4, <2>1, <1>t, CrashResult DEF FlagInv
  <1> QED BY <1>1, <1>2, <1>3, <1>4, Steps, InsertResult, LateResult DEF vars

LEMMA StepSentInv == OutboxInv /\ [Next]_vars => SentInv' /\ RetriesMatchStatus'
  <1> SUFFICES ASSUME OutboxInv, [Next]_vars PROVE SentInv' /\ RetriesMatchStatus'
    OBVIOUS
  <1>t. TypeOK /\ FlagInv /\ SentInv /\ RetriesMatchStatus /\ Mapped \subseteq Events
    BY OutboxAssumption DEF OutboxInv
  <1>1. CASE UNCHANGED <<table, task>> /\ topic \subseteq topic'
    BY <1>1, <1>t DEF SentInv, PublishedMeansSent, RetriesMatchStatus
  <1>2. ASSUME NEW e \in Events, Insert(e) PROVE SentInv' /\ RetriesMatchStatus'
    <2>1. /\ UNCHANGED <<task, topic>> /\ table[e] = Absent
          /\ table'[e] \in Row /\ table'[e].status = "PENDING" /\ table'[e].retries = 0
          /\ \A f \in Events \ {e} : table'[f] = table[f]
      BY <1>2, InsertResult
    <2> QED BY <2>1, <1>t DEF SentInv, PublishedMeansSent, RetriesMatchStatus, RetryLimit
  <1>3. ASSUME NEW r \in Runs, NEW e \in Events, TaskStep(r, e)
        PROVE  SentInv' /\ RetriesMatchStatus'
    <2>0. /\ task[r][e] # "none" /\ table[e] \in Row /\ table'[e] \in Row
          /\ \A s \in Runs, f \in Events : s # r \/ f # e => task'[s][f] = task[s][f]
          /\ \A f \in Events \ {e} : table'[f] = table[f]
          /\ topic \subseteq topic'
      BY <1>3, TaskResult
    <2>1. e \in Mapped /\ task'[r][e] = "markPublished" => e \in topic'
      <3>1. CASE Publish(r, e)
        BY <3>1, <1>t, ArriveResult DEF Publish
      <3>2. CASE ~Publish(r, e)
        BY <3>2, <1>3, <1>t, AdvanceResult DEF TaskStep, PublishFails, MarkPublished,
           MarkPublishedFails, MarkFailed, MarkFailedFails, Label
      <3> QED BY <3>1, <3>2
    <2>2. e \in Mapped /\ table'[e].status = "PUBLISHED" => e \in topic'
      <3>1. CASE task[r][e] = "markPublished" \/ table' = table
        BY <3>1, <2>0, <1>t DEF SentInv, PublishedMeansSent
      <3>2. CASE SetFailed(r, e)
        BY <3>2, <2>0, <1>t, SetFailedResult
      <3> QED BY <3>1, <3>2, <1>3 DEF TaskStep, Publish, PublishFails, MarkPublished,
                 MarkPublishedFails, MarkFailed, MarkFailedFails
    <2>3. /\ table'[e].status = "PENDING" => table'[e].retries < RetryLimit
          /\ table'[e].status = "FAILED" => table'[e].retries = RetryLimit
      <3>1. CASE SetFailed(r, e)
        BY <3>1, <2>0, <1>t, SetFailedResult DEF RetryLimit
      <3>2. CASE SetPublished(e)
        BY <3>2, <2>0, <1>t, SetPublishedResult
      <3>3. CASE UNCHANGED table
        BY <3>3, <1>t DEF RetriesMatchStatus
      <3> QED BY <3>1, <3>2, <3>3, <1>3 DEF TaskStep, Publish, PublishFails, MarkPublished,
                 MarkPublishedFails, MarkFailed, MarkFailedFails
    <2>4. ASSUME NEW s \in Runs, NEW f \in Events, task'[s][f] # "none" PROVE table'[f] \in Row
      BY <2>0, <2>4, <1>t DEF SentInv
    <2>5. ASSUME NEW s \in Runs, NEW f \in Mapped, task'[s][f] = "markPublished" PROVE f \in topic'
      BY <2>0, <2>1, <2>5, <1>t DEF SentInv
    <2>6. PublishedMeansSent'
      BY <2>0, <2>2, <1>t DEF SentInv, PublishedMeansSent
    <2>7. RetriesMatchStatus'
      BY <2>0, <2>3, <1>t DEF RetriesMatchStatus
    <2> QED BY <2>4, <2>5, <2>6, <2>7 DEF SentInv
  <1>4. ASSUME NEW r \in Runs, RunStep(r) PROVE SentInv' /\ RetriesMatchStatus'
    <2>1. /\ UNCHANGED <<table, topic>>
          /\ \A s \in Runs, e \in Events :
                \/ task'[s][e] \in {task[s][e], "none"}
                \/ task'[s][e] = "publish" /\ e \in Batch
      BY <1>4, RunResult
    <2>2. \A e \in Batch : table[e] \in Row
      BY <1>t, RowParts DEF Batch, Fetchable, TypeOK
    <2> QED BY <2>1, <2>2, <1>t DEF SentInv, PublishedMeansSent, RetriesMatchStatus
  <1>5. ASSUME NEW p \in Processes, Crash(p) PROVE SentInv' /\ RetriesMatchStatus'
    <2>1. /\ UNCHANGED <<table, topic>>
          /\ \A r \in Runs, e \in Events : task'[r][e] \in {task[r][e], "none"}
      BY <1>5, CrashResult
    <2> QED BY <2>1, <1>t DEF SentInv, PublishedMeansSent, RetriesMatchStatus
  <1>6. ASSUME NEW e \in Events, ArriveLate(e) PROVE SentInv' /\ RetriesMatchStatus'
    BY <1>1, <1>6, LateResult
  <1> QED BY <1>1, <1>2, <1>3, <1>4, <1>5, <1>6, Steps DEF vars

LEMMA OutboxInvAlways == Spec => []OutboxInv
  <1>1. OutboxInv /\ [Next]_vars => OutboxInv'
    BY StepTypeOK, StepFlagInv, StepSentInv DEF OutboxInv
  <1> QED BY <1>1, InitOutboxInv, PTL DEF Spec
-----------------------------------------------------------------------------
\* Rows, flags, runs and counters keep their shape, the retry counts written
\* back from stale reads included.
THEOREM TypeCorrect == Spec => []TypeOK
  <1>1. OutboxInv => TypeOK
    BY DEF OutboxInv
  <1> QED BY <1>1, OutboxInvAlways, PTL

\* However many processes relay, and whatever fails, nothing is marked
\* PUBLISHED that is not in its topic.
THEOREM PublishedIsSent == Spec => []PublishedMeansSent
  <1>1. OutboxInv => PublishedMeansSent
    BY DEF OutboxInv, SentInv
  <1> QED BY <1>1, OutboxInvAlways, PTL

\* No interleaving of stale retry counts leaves a row PENDING that is never
\* fetched again, or FAILED before its fifth try.
THEOREM RetriesAgree == Spec => []RetriesMatchStatus
  <1>1. OutboxInv => RetriesMatchStatus
    BY DEF OutboxInv
  <1> QED BY <1>1, OutboxInvAlways, PTL

\* The flag keeps the runs of a process apart, also when runs outlast the timer
\* and the process dies.
THEOREM OneSender == Spec => []SingleSender
  <1>1. OutboxInv => SingleSender
    BY DEF OutboxInv, FlagInv, SingleSender
  <1> QED BY <1>1, OutboxInvAlways, PTL
-----------------------------------------------------------------------------
\* A single relaying process: the retry counts of its run are not stale.
OneOwner == \A r, s \in Runs : Owner[r] = Owner[s]

Marking(e) == \E r \in Runs : task[r][e] \in {"markPublished", "markFailed"}

\* An event in the hands of the run is not given up, and was handed over no more
\* often than tries and faults explain; once more if the last try is not yet counted.
TriesInv ==
    \A e \in Events :
        /\ \A r \in Runs : task[r][e] # "none" =>
              read[r][e] = table[e].retries /\ table[e].status # "FAILED"
        /\ \A r \in Runs : task[r][e] = "publish" => table[e].status = "PENDING"
        /\ table[e].status = "PUBLISHED" => table[e].retries < RetryLimit
        /\ sends[e] <= table[e].retries + faults + 1
        /\ Marking(e) \/ table[e].status = "PUBLISHED" \/ sends[e] <= table[e].retries + faults

LEMMA Numbers ==
    ASSUME TypeOK, NEW e \in Events
    PROVE  table[e].retries \in Nat /\ sends[e] \in Nat /\ faults \in Nat
  <1>1. table[e].retries \in 0..RetryLimit
    BY RowParts DEF TypeOK, RetryLimit
  <1> QED BY <1>1, OutboxAssumption DEF TypeOK, RetryLimit

LEMMA OneTask ==
    ASSUME OneOwner, FlagInv, NEW r \in Runs, NEW e \in Events, task[r][e] # "none",
           NEW s \in Runs \ {r}, NEW f \in Events
    PROVE  task[s][f] = "none"
    BY DEF OneOwner, FlagInv

\* What a step of the only task on an event does to its counters.
LEMMA TaskCounts ==
    ASSUME OneOwner, OutboxInv, TriesInv, NEW r \in Runs, NEW e \in Events, TaskStep(r, e)
    PROVE  /\ table'[e].retries >= table[e].retries
           /\ task'[r][e] # "none" => read'[r][e] = table'[e].retries /\ table'[e].status # "FAILED"
           /\ table'[e].status = "PUBLISHED" => table'[e].retries < RetryLimit
           /\ sends'[e] <= table'[e].retries + faults' + 1
           /\ \/ task'[r][e] \in {"markPublished", "markFailed"}
              \/ table'[e].status = "PUBLISHED"
              \/ sends'[e] <= table'[e].retries + faults'
  <1>t. /\ TypeOK /\ RetriesMatchStatus
        /\ table[e].retries \in Nat /\ sends[e] \in Nat /\ faults \in Nat
    BY Numbers DEF OutboxInv
  <1>1. /\ task[r][e] # "none" /\ table[e] \in Row /\ read' = read
        /\ \A s \in Runs : s # r => task[s][e] = "none"
    BY <1>t, TaskResult, OneTask DEF OutboxInv
  <1>2. /\ read[r][e] = table[e].retries /\ table[e].status \in {"PENDING", "PUBLISHED"}
        /\ table[e].retries < RetryLimit /\ sends[e] <= table[e].retries + faults + 1
    BY <1>1, <1>t, RowParts DEF TriesInv, RetriesMatchStatus
  <1>3. CASE task[r][e] = "publish" /\ UNCHANGED <<table, faults>> /\ (Send(e) \/ UNCHANGED sends)
             /\ (Advance(r, e, "markPublished") \/ Advance(r, e, "markFailed"))
    <2>1. task'[r][e] \in {"markPublished", "markFailed"}
      BY <1>3, <1>t, AdvanceResult DEF Label
    <2>2. ~Marking(e)
      BY <1>1, <1>3 DEF Marking
    <2>3. table[e].status = "PUBLISHED" \/ sends[e] <= table[e].retries + faults
      BY <2>2 DEF TriesInv
    <2>4. sends'[e] \in Nat /\ sends'[e] <= sends[e] + 1
      BY <1>3, <1>t, SendResult
    <2>5. table[e].status = "PENDING"
      BY <1>3 DEF TriesInv
    <2> QED BY <1>1, <1>2, <1>3, <1>t, <2>1, <2>3, <2>4, <2>5
  <1>4. CASE task[r][e] = "markPublished" /\ SetPublished(e) /\ UNCHANGED sends
             /\ (UNCHANGED faults \/ faults' = faults + 1)
    <2>1. table'[e].status = "PUBLISHED" /\ table'[e].retries = table[e].retries
      BY <1>1, <1>4, <1>t, SetPublishedResult
    <2>2. task'[r][e] # "none" => table'[e].status # "FAILED"
      BY <2>1
    <2> QED BY <1>1, <1>2, <1>4, <1>t, <2>1, <2>2
  <1>5. CASE UNCHANGED <<table, sends>> /\ faults' = faults + 1
    BY <1>1, <1>2, <1>5, <1>t
  <1>6. CASE task[r][e] = "markFailed" /\ SetFailed(r, e) /\ UNCHANGED sends /\ Advance(r, e, "none")
             /\ (UNCHANGED faults \/ faults' = faults + 1)
    <2>1. /\ table'[e].retries = table[e].retries + 1
          /\ table'[e].status = IF table[e].retries >= 4 THEN "FAILED" ELSE "PENDING"
      BY <1>1, <1>2, <1>6, <1>t, SetFailedResult
    <2>2. task'[r][e] = "none"
      BY <1>6, <1>t, AdvanceResult DEF Label
    <2> QED BY <1>2, <1>6, <1>t, <2>1, <2>2
  <1>7. Fault => faults' = faults + 1
    BY <1>t, FaultResult
  <1> QED BY <1>3, <1>4, <1>5, <1>6, <1>7 DEF TaskStep, Publish, PublishFails, MarkPublished,
          MarkPublishedFails, MarkFailed, MarkFailedFails

LEMMA StepTriesInv == OneOwner /\ OutboxInv /\ TriesInv /\ [Next]_vars => TriesInv'
  <1> SUFFICES ASSUME OneOwner, OutboxInv, TriesInv, [Next]_vars, NEW e \in Events
               PROVE  /\ \A r \in Runs : task'[r][e] # "none" =>
                            read'[r][e] = table'[e].retries /\ table'[e].status # "FAILED"
                      /\ \A r \in Runs : task'[r][e] = "publish" => table'[e].status = "PENDING"
                      /\ table'[e].status = "PUBLISHED" => table'[e].retries < RetryLimit
                      /\ sends'[e] <= table'[e].retries + faults' + 1
                      /\ Marking(e)' \/ table'[e].status = "PUBLISHED"
                                     \/ sends'[e] <= table'[e].retries + faults'
    BY DEF TriesInv
  <1> DEFINE Goal ==
        /\ \A r \in Runs : task'[r][e] # "none" =>
              read'[r][e] = table'[e].retries /\ table'[e].status # "FAILED"
        /\ \A r \in Runs : task'[r][e] = "publish" => table'[e].status = "PENDING"
        /\ table'[e].status = "PUBLISHED" => table'[e].retries < RetryLimit
        /\ sends'[e] <= table'[e].retries + faults' + 1
        /\ Marking(e)' \/ table'[e].status = "PUBLISHED" \/ sends'[e] <= table'[e].retries + faults'
  <1>t. /\ TypeOK /\ FlagInv /\ SentInv
        /\ table[e].retries \in Nat /\ sends[e] \in Nat /\ faults \in Nat
    BY Numbers DEF OutboxInv
  <1>n. table'[e].retries \in Nat /\ sends'[e] \in Nat /\ faults' \in Nat
    <2>1. TypeOK'
      BY StepTypeOK
    <2>2. table'[e].retries \in 0..RetryLimit
      BY <2>1, RowParts DEF TypeOK, RetryLimit
    <2> QED BY <2>1, <2>2, OutboxAssumption DEF TypeOK, RetryLimit
  <1>1. CASE UNCHANGED <<task, read>> /\ table'[e] = table[e] /\ sends'[e] = sends[e] /\ faults <= faults'
    BY <1>1, <1>t, <1>n DEF TriesInv, Marking
  <1>2. ASSUME NEW f \in Events, Insert(f) PROVE Goal
    <2>1. CASE f = e
      <3>1. \A r \in Runs : task[r][e] = "none"
        BY <1>2, <2>1, <1>t, InsertResult, RowParts DEF SentInv
      <3>2. sends[e] <= faults
        BY <1>2, <2>1, <3>1, <1>t, InsertResult, RowParts DEF TriesInv, Marking
      <3> QED BY <1>2, <2>1, <3>1, <3>2, <1>t, InsertResult
    <2>2. CASE f # e
      BY <1>2, <2>2, <1>1, <1>t, InsertResult
    <2> QED BY <2>1, <2>2
  <1>3. ASSUME NEW r \in Runs, NEW f \in Events, TaskStep(r, f) PROVE Goal
    <2>0. /\ \A s \in Runs, g \in Events : s # r \/ g # f => task'[s][g] = task[s][g]
          /\ \A g \in Events \ {f} : table'[g] = table[g] /\ sends'[g] = sends[g]
          /\ read' = read /\ faults <= faults' /\ task[r][f] # "none"
      BY <1>3, TaskResult
    <2>1. CASE f = e
      <3>1. \A s \in Runs : s # r => task'[s][e] = "none"
        BY <2>0, <2>1, <1>t, OneTask
      <3>2. task'[r][e] # "publish"
        BY <1>3, <2>1, <1>t, AdvanceResult DEF TaskStep, Publish, PublishFails, MarkPublished,
           MarkPublishedFails, MarkFailed, MarkFailedFails, Label
      <3> QED BY <1>3, <2>1, <3>1, <3>2, TaskCounts DEF Marking
    <2>2. CASE f # e
      BY <2>0, <2>2, <1>t, <1>n DEF TriesInv, Marking
    <2> QED BY <2>1, <2>2
  <1>4. ASSUME NEW r \in Runs, RunStep(r) PROVE Goal
    <2>0. table' = table /\ sends' = sends /\ faults <= faults'
      BY <1>4, RunResult
    <2>1. CASE UNCHANGED <<task, read>>
      BY <2>0, <2>1, <1>1
    <2>2. CASE /\ run[r] = "fetch"
               /\ \A s \in Runs, f \in Events :
                     \/ task'[s][f] = task[s][f] /\ read'[s][f] = read[s][f]
                     \/ s = r /\ task'[s][f] = "none"
                     \/ s = r /\ task'[s][f] = "publish" /\ f \in Batch /\ read'[s][f] = table[f].retries
      <3>1. \A s \in Runs : task[s][e] = "none"
        BY <2>2 DEF OneOwner, OutboxInv, FlagInv
      <3>2. ~Marking(e)
        BY <3>1 DEF Marking
      <3>3. e \in Batch => table[e].status = "PENDING"
        BY DEF Batch, Fetchable
      <3>4. \A s \in Runs : task'[s][e] # "none" =>
               task'[s][e] = "publish" /\ read'[s][e] = table[e].retries /\ table[e].status = "PENDING"
        BY <2>2, <3>1, <3>3
      <3> QED BY <2>0, <3>2, <3>4, <1>t, <1>n DEF TriesInv
    <2> QED BY <1>4, <2>1, <2>2, RunResult
  <1>5. ASSUME NEW p \in Processes, Crash(p) PROVE Goal
    BY <1>5, <1>t, CrashResult DEF TriesInv, Marking
  <1>6. CASE UNCHANGED vars
    BY <1>6, <1>1, <1>t DEF vars
  <1>7. ASSUME NEW f \in Events, ArriveLate(f) PROVE Goal
    BY <1>7, <1>1, <1>t, LateResult
  <1> QED BY <1>2, <1>3, <1>4, <1>5, <1>6, <1>7, Steps

LEMMA TriesInvAlways == ASSUME OneOwner PROVE Spec => []TriesInv
  <1>1. Init => TriesInv
    <2> SUFFICES ASSUME Init, NEW e \in Events
                 PROVE  /\ \A r \in Runs : task[r][e] = "none"
                        /\ table[e].status = "ABSENT" /\ table[e].retries = 0
                        /\ sends[e] = 0 /\ faults = 0
      BY DEF TriesInv, RetryLimit
    <2> QED BY RowParts DEF Init
  <1>2. OutboxInv /\ TriesInv /\ [Next]_vars => TriesInv'
    BY StepTriesInv
  <1> QED BY <1>1, <1>2, OutboxInvAlways, PTL DEF Spec

\* With one relaying process, lost acknowledgements, faults and crashes never
\* make it call producer.send for an event more often than five times and once
\* per fault.
THEOREM SendsAreBounded ==
    ASSUME OneOwner
    PROVE  Spec => []SendsBounded
  <1>1. OutboxInv /\ TriesInv => SendsBounded
    <2> SUFFICES ASSUME OutboxInv, TriesInv, NEW e \in Events PROVE sends[e] <= RetryLimit + faults
      BY DEF SendsBounded
    <2>t. /\ TypeOK /\ SentInv /\ RetriesMatchStatus
          /\ table[e].retries \in Nat /\ sends[e] \in Nat /\ faults \in Nat
      BY Numbers DEF OutboxInv
    <2>1. table[e].status \in {"PENDING", "PUBLISHED", "FAILED", "ABSENT"}
      BY <2>t, RowParts DEF TypeOK
    <2>2. CASE table[e].status \in {"PENDING", "PUBLISHED"}
      BY <2>2, <2>t DEF TriesInv, RetriesMatchStatus, RetryLimit
    <2>3. CASE table[e].status = "FAILED"
      BY <2>3, <2>t DEF TriesInv, Marking, RetriesMatchStatus, RetryLimit
    <2>4. CASE table[e].status = "ABSENT"
      BY <2>4, <2>t, RowParts DEF TriesInv, TypeOK, RetryLimit
    <2> QED BY <2>1, <2>2, <2>3, <2>4
  <1> QED BY <1>1, OutboxInvAlways, TriesInvAlways, PTL

\* With one relaying process a retry count never goes back, and an event that
\* was given up stays given up.
THEOREM TriesAreKept ==
    ASSUME OneOwner
    PROVE  Spec => TriesAreRemembered
  <1>1. OutboxInv /\ TriesInv /\ [Next]_vars =>
          [\A e \in Events :
             /\ table'[e].retries >= table[e].retries
             /\ table[e].status = "FAILED" => table'[e].status = "FAILED"]_vars
    <2> SUFFICES ASSUME OutboxInv, TriesInv, [Next]_vars, NEW e \in Events
                 PROVE  /\ table'[e].retries >= table[e].retries
                        /\ table[e].status = "FAILED" => table'[e].status = "FAILED"
      OBVIOUS
    <2>t. TypeOK /\ table[e].retries \in Nat
      BY Numbers DEF OutboxInv
    <2>1. CASE table'[e] = table[e]
      BY <2>1, <2>t
    <2>2. CASE Insert(e)
      BY <2>2, <2>t, InsertResult, RowParts
    <2>3. ASSUME NEW r \in Runs, TaskStep(r, e)
          PROVE  table'[e].retries >= table[e].retries /\ table[e].status # "FAILED"
      BY <2>3, TaskResult, TaskCounts DEF TriesInv
    <2> QED BY <2>1, <2>2, <2>3, Steps, InsertResult, TaskResult, RunResult, CrashResult,
                   LateResult DEF vars
  <1> QED BY <1>1, OutboxInvAlways, TriesInvAlways, PTL DEF Spec, TriesAreRemembered
=============================================================================
