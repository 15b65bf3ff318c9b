------------------------------- MODULE Outbox -------------------------------
(***************************************************************************)
(* The relay of the transactional outbox: OutboxRelayService.relay, fired  *)
(* by a timer in every API process, over the rows other modules insert.    *)
(*                                                                         *)
(* One execution of relay() (a run) fetches a batch and publishes all of   *)
(* it concurrently (Promise.allSettled): each event is a task of the run   *)
(* that awaits Kafka and then the database.  A run keeps the retry counts  *)
(* it fetched and writes them back incremented.  Kafka can refuse a        *)
(* message, or take it and lose the acknowledgement; a database call can   *)
(* fail before or after it took effect; a process can die.                 *)
(*                                                                         *)
(* The relay counts calls of producer.send.  Within one call the producer, *)
(* which is not idempotent, resends what is not acknowledged in time: how  *)
(* many copies of an event its topic holds is not in the relay's hands.    *)
(***************************************************************************)
EXTENDS Integers, FiniteSets

CONSTANTS
    Events,      \* ids of outbox rows
    Mapped,      \* the events whose name EVENT_TOPIC_MAP routes to a topic
    Processes,   \* API processes; each has its own isRunning flag
    Runs,        \* executions of relay() the timers can have open at a time
    Owner,       \* the process of each run
    BatchLimit,  \* rows fetched by one run; 50 in the code
    MaxFaults    \* bound: database errors and crashes in a behaviour

VARIABLES
    table,       \* outbox_events
    isRunning,   \* the lock flag of each process
    run,         \* what each run is doing
    task,        \* what each run is doing about each event
    read,        \* the retry counts each run fetched
    sends,       \* how often each event was handed to producer.send
    topic,       \* the events of which Kafka holds a copy, or several
    faults

vars == <<table, isRunning, run, task, read, sends, topic, faults>>

RetryLimit == 5

Absent == [status |-> "ABSENT", retries |-> 0, createdAt |-> 0]
Row == [status : {"PENDING", "PUBLISHED", "FAILED"}, retries : 0..RetryLimit,
        createdAt : Nat]

ASSUME OutboxAssumption ==
    /\ IsFiniteSet(Events)
    /\ Mapped \subseteq Events
    /\ Owner \in [Runs -> Processes]
    /\ BatchLimit \in Nat \ {0}
    /\ MaxFaults \in Nat

TypeOK ==
    /\ table \in [Events -> Row \cup {Absent}]
    /\ isRunning \in [Processes -> BOOLEAN]
    /\ run \in [Runs -> {"idle", "fetch", "relay"}]
    /\ task \in [Runs -> [Events -> {"none", "publish", "markPublished", "markFailed"}]]
    /\ read \in [Runs -> [Events -> 0..(RetryLimit - 1)]]
    /\ sends \in [Events -> Nat]
    /\ topic \subseteq Events
    /\ faults \in 0..MaxFaults

Init ==
    /\ table = [e \in Events |-> Absent]
    /\ isRunning = [p \in Processes |-> FALSE]
    /\ run = [r \in Runs |-> "idle"]
    /\ task = [r \in Runs |-> [e \in Events |-> "none"]]
    /\ read = [r \in Runs |-> [e \in Events |-> 0]]
    /\ sends = [e \in Events |-> 0]
    /\ topic = {}
    /\ faults = 0

Fault == faults < MaxFaults /\ faults' = faults + 1
-----------------------------------------------------------------------------
\* buildOutboxInserts or saveEvents of some handler commits.
Insert(e) ==
    /\ table[e] = Absent
    /\ table' = [table EXCEPT ![e] =
          [status |-> "PENDING", retries |-> 0,
           createdAt |-> Cardinality({f \in Events : table[f] # Absent})]]
    /\ UNCHANGED <<isRunning, run, task, read, sends, topic, faults>>

\* Mutant of Tick: no lock flag.
TickUnguarded(r) ==
    /\ run[r] = "idle"
    /\ isRunning' = [isRunning EXCEPT ![Owner[r]] = TRUE]
    /\ run' = [run EXCEPT ![r] = "fetch"]
    /\ UNCHANGED <<table, task, read, sends, topic, faults>>

\* The timer fires; a process whose flag is up returns at once.
Tick(r) ==
    /\ run[r] = "idle"
    /\ ~isRunning[Owner[r]]
    /\ isRunning' = [isRunning EXCEPT ![Owner[r]] = TRUE]
    /\ run' = [run EXCEPT ![r] = "fetch"]
    /\ UNCHANGED <<table, task, read, sends, topic, faults>>

\* Mutant of Release: the flag is not lowered.
ReleaseNothing(r) == run' = [run EXCEPT ![r] = "idle"] /\ UNCHANGED isRunning

\* The `finally' of relay().
Release(r) ==
    /\ run' = [run EXCEPT ![r] = "idle"]
    /\ isRunning' = [isRunning EXCEPT ![Owner[r]] = FALSE]

\* fetchPending: the oldest rows still to be tried.
Fetchable == {e \in Events : table[e].status = "PENDING" /\ table[e].retries < RetryLimit}
Batch == {e \in Fetchable :
            Cardinality({f \in Fetchable : table[f].createdAt < table[e].createdAt}) < BatchLimit}

Fetch(r) ==
    /\ run[r] = "fetch"
    /\ \/ Batch = {} /\ Release(r) /\ UNCHANGED <<task, read>>
       \/ /\ Batch # {}
          /\ run' = [run EXCEPT ![r] = "relay"]
          /\ task' = [task EXCEPT ![r] =
                [e \in Events |-> IF e \in Batch THEN "publish" ELSE "none"]]
          /\ read' = [read EXCEPT ![r] =
                [e \in Events |-> IF e \in Batch THEN table[e].retries ELSE 0]]
          /\ UNCHANGED isRunning
    /\ UNCHANGED <<table, sends, topic, faults>>

FetchFails(r) ==
    /\ run[r] = "fetch"
    /\ Fault
    /\ Release(r)
    /\ UNCHANGED <<table, task, read, sends, topic>>

Advance(r, e, next) == task' = [task EXCEPT ![r][e] = next]
Send(e) == sends' = [sends EXCEPT ![e] = @ + 1]
Arrive(e) == topic' = topic \cup {e}

\* KafkaProducerService.publish: an event without a topic is dropped as if it
\* had been sent.
Publish(r, e) ==
    /\ task[r][e] = "publish"
    /\ Advance(r, e, "markPublished")
    /\ IF e \in Mapped THEN Send(e) /\ Arrive(e) ELSE UNCHANGED <<sends, topic>>
    /\ UNCHANGED <<table, isRunning, run, read, faults>>

\* Mutant of PublishFails: publish() is not awaited.
PublishUnawaited(r, e) ==
    /\ task[r][e] = "publish" /\ e \in Mapped
    /\ Advance(r, e, "markPublished")
    /\ Send(e)
    /\ Arrive(e) \/ UNCHANGED topic
    /\ UNCHANGED <<table, isRunning, run, read, faults>>

\* producer.send rejects after the last of its own attempts: the broker refused
\* the message, or took it and its acknowledgements were lost.
PublishFails(r, e) ==
    /\ task[r][e] = "publish" /\ e \in Mapped
    /\ Advance(r, e, "markFailed")
    /\ Send(e)
    /\ Arrive(e) \/ UNCHANGED topic
    /\ UNCHANGED <<table, isRunning, run, read, faults>>

\* A request the producer has given up may still be under way to the broker.
ArriveLate(e) ==
    /\ sends[e] > 0 /\ e \notin topic
    /\ Arrive(e)
    /\ UNCHANGED <<table, isRunning, run, task, read, sends, faults>>

SetPublished(e) == table' = [table EXCEPT ![e].status = "PUBLISHED"]

MarkPublished(r, e) ==
    /\ task[r][e] = "markPublished"
    /\ SetPublished(e)
    /\ Advance(r, e, "none")
    /\ UNCHANGED <<isRunning, run, read, sends, topic, faults>>

\* The update fails or its answer is lost: the catch clause marks the event
\* failed although Kafka has it.
MarkPublishedFails(r, e) ==
    /\ task[r][e] = "markPublished"
    /\ Fault
    /\ SetPublished(e) \/ UNCHANGED table
    /\ Advance(r, e, "markFailed")
    /\ UNCHANGED <<isRunning, run, read, sends, topic>>

\* Mutants of SetFailed: the failed try is not counted, or one try too many is
\* allowed before the event is given up.
SetFailedUncounted(r, e) ==
    table' = [table EXCEPT ![e].status = IF read[r][e] >= 4 THEN "FAILED" ELSE "PENDING"]
SetFailedLate(r, e) ==
    table' = [table EXCEPT ![e].status = IF read[r][e] > 4 THEN "FAILED" ELSE "PENDING",
                           ![e].retries = read[r][e] + 1]

\* markFailed writes back the retry count that was fetched, plus one.
SetFailed(r, e) ==
    table' = [table EXCEPT ![e].status = IF read[r][e] >= 4 THEN "FAILED" ELSE "PENDING",
                           ![e].retries = read[r][e] + 1]

MarkFailed(r, e) ==
    /\ task[r][e] = "markFailed"
    /\ SetFailed(r, e)
    /\ Advance(r, e, "none")
    /\ UNCHANGED <<isRunning, run, read, sends, topic, faults>>

\* The rejection of publishOne is swallowed by Promise.allSettled.
MarkFailedFails(r, e) ==
    /\ task[r][e] = "markFailed"
    /\ Fault
    /\ SetFailed(r, e) \/ UNCHANGED table
    /\ Advance(r, e, "none")
    /\ UNCHANGED <<isRunning, run, read, sends, topic>>

\* Every promise of the batch has settled.
Finish(r) ==
    /\ run[r] = "relay"
    /\ \A e \in Events : task[r][e] = "none"
    /\ Release(r)
    /\ UNCHANGED <<table, task, read, sends, topic, faults>>

\* A process dies and is restarted: its flag is down and its runs are gone.
Crash(p) ==
    /\ Fault
    /\ isRunning' = [isRunning EXCEPT ![p] = FALSE]
    /\ run' = [r \in Runs |-> IF Owner[r] = p THEN "idle" ELSE run[r]]
    /\ task' = [r \in Runs |-> IF Owner[r] = p THEN [e \in Events |-> "none"] ELSE task[r]]
    /\ UNCHANGED <<table, read, sends, topic>>

\* A step of relay() in which no call fails but Kafka's.
Step(r) ==
    \/ Tick(r) \/ Fetch(r) \/ Finish(r)
    \/ \E e \in Events :
          Publish(r, e) \/ PublishFails(r, e) \/ MarkPublished(r, e) \/ MarkFailed(r, e)

Next ==
    \/ \E e \in Events : Insert(e) \/ ArriveLate(e)
    \/ \E r \in Runs :
          \/ Step(r) \/ FetchFails(r)
          \/ \E e \in Events : MarkPublishedFails(r, e) \/ MarkFailedFails(r, e)
    \/ \E p \in Processes : Crash(p)

Spec == Init /\ [][Next]_vars

\* The timer keeps firing and every awaited call settles.
FairSpec == Spec /\ \A r \in Runs : WF_vars(Step(r))
-----------------------------------------------------------------------------
\* An event marked PUBLISHED is in its topic, whatever was lost on the way and
\* however many processes relay: nothing is dropped while it looks delivered.
PublishedMeansSent ==
    \A e \in Mapped : table[e].status = "PUBLISHED" => e \in topic

\* fetchPending's `retries < 5' and markFailed's `retries >= 4' fit together:
\* no row is PENDING yet never fetched again, or FAILED before its fifth try.
RetriesMatchStatus ==
    \A e \in Events : /\ table[e].status = "PENDING" => table[e].retries < RetryLimit
                      /\ table[e].status = "FAILED" => table[e].retries = RetryLimit

\* "Uses a lock flag to prevent overlapping runs": within one process no event
\* is in the hands of two runs, before and after crashes too.
SingleSender ==
    \A r, s \in Runs, e \in Events :
        r # s /\ Owner[r] = Owner[s] => task[r][e] = "none" \/ task[s][e] = "none"

\* One relaying process hands an event to the producer at most five times, and
\* once more for every database error or crash: the relay does not go on sending
\* what Kafka keeps refusing, or has without its acknowledgement getting through.
\* (How many copies one call of producer.send makes is the producer's affair.)
SendsBounded ==
    \A e \in Events : sends[e] <= RetryLimit + faults

\* With one relaying process a failed try is never forgotten: retry counts only
\* grow, and an event given up is never taken up again.
TriesAreRemembered ==
    [][\A e \in Events :
        /\ table'[e].retries >= table[e].retries
        /\ table[e].status = "FAILED" => table'[e].status = "FAILED"]_vars

\* Every inserted event is eventually published or given up, also one that
\* waits behind a full batch of events Kafka keeps refusing.
EventuallySettled ==
    \A e \in Events :
        table[e].status = "PENDING" ~> table[e].status \in {"PUBLISHED", "FAILED"}
=============================================================================
