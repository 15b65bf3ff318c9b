# Formal verification of fintech-api

`fintech-api` is a NestJS service over one PostgreSQL database (through Prisma)
and one Kafka cluster: users with sessions, accounts with PIX keys, payments
between accounts with a fraud check, and a transactional outbox that carries
domain events to Kafka. This directory holds TLA+ models of it, the TLC runs
that check them and the TLAPS proofs about them.

Paths below are relative to the repository's `src/` directory (so
`modules/payments` is `src/modules/payments` of the repository).

## 1. Inventory

| Component | State | Operations | Hard behaviour | Correct when |
|---|---|---|---|---|
| **Payments** `modules/payments` | `payments`, `ledger_entries`; two account aggregates in the memory of each request | `InitiatePaymentHandler.execute`: replay by idempotency key, find both accounts, analyse, saga in one transaction, compensation | handlers interleave at every await; row locks and the unique index; a commit whose acknowledgement is lost; death of the process; balances computed from rows read before the transaction | one payment per key; payment, ledger, balances, analysis and event agree; answers are true; no overdraft; only a payment overtaken by another is not a transfer; every request is answered |
| **Fraud** `modules/fraud` | `fraud_analyses` | `AnalyzePaymentHandler.execute`: five rules, three of them over recent analyses, a score, a decision | three reads, then the row they are about, with other requests and the clock in between; analysis and event are two statements | an undisturbed analysis judges as one step would; overlapping ones exceed the limits by a bound; a payment whose analysis says BLOCKED is never made; a block is announced |
| **Accounts** `modules/accounts` | `accounts`, `pix_keys` | open an account, register and remove a PIX key, debit, credit, block, unblock | read-modify-write of the whole account row; the upsert of PIX keys; the limit of five keys | a user has one account and a key one owner; only overlapping requests exceed the limit or undo each other's writes |
| **Outbox** `shared/infrastructure/outbox` | `outbox_events`; a lock flag in each process | insert with a transaction, relay on a five-second timer, publish to Kafka, mark published or failed | runs outlast the timer; several processes; lost acknowledgements; retries counted from a stale read | nothing is lost while it looks delivered; every event is settled; calls of the producer are bounded |
| **Sessions** `modules/identity` | `sessions` | login, refresh (rotation, reuse detection), logout of one or all, two cleanup jobs | a refresh reads, verifies with bcrypt and loads the user before it revokes; concurrent refreshes and logouts | a rotated token is spent before its successor exists; a revoked session stays revoked; a global revocation stops every refresh that reads after it; a session is ended by a logout of its owner or a refresh of a session of the same user; reuse stays detectable |
| **Users** `modules/identity` | `users` | register, look a user up to log in, suspend | look-up, bcrypt, then insert behind a unique index; two places that normalise an address | one user per address, for good; answers stay true; a login needs the password, and the password is enough |
| **Queries** | none | statement, payment list, one payment | pages of a table that grows meanwhile; rows and total of a page are two reads; ties of the sort column | a walk through the pages is complete, or shows by itself that something came between |
| **HTTP layer** | none | controllers, guards, validation, exception filter | none | - |

How they interact. The payment handler reads `accounts` through the account
repository, awaits the fraud handler (which writes `fraud_analyses` and, for a
block, `outbox_events`), then runs the saga: one `$transaction` that inserts the
payment, links the analysis, updates both accounts, inserts two ledger entries,
completes the payment and inserts its events into `outbox_events`. The relay,
in every API process, moves those rows to Kafka. Nothing in the repository
consumes the topics. Sessions share only the `users` table with the rest: the
other controllers trust the JWT.

What can go wrong, line by line, is the `hazards` list of `PROJECT.json`.

## 2. Modules

| Module | Models | Depends on |
|---|---|---|
| `Payments.tla` | the payment handler, its fraud step, saga and compensation, over five tables | |
| `PaymentBook.tla` | abstract: what readers of the payment tables are promised | refined by `Payments` |
| `Bank.tla` | abstract: a payment moves its amount, once per key, from and to balances its accounts have had; a transfer if they are those of today | refined by `Payments` |
| `PaymentsProofs.tla` | theorems about `Payments`, proved by TLAPS | `Payments`, TLAPS |
| `MCPayments.tla` | instances of `Payments` for TLC | `Payments` |
| `Outbox.tla` | the outbox table, the relay of every process, Kafka | |
| `OutboxProofs.tla` | theorems about `Outbox` | `Outbox`, TLAPS |
| `MCOutbox.tla` | instances of `Outbox` for TLC | `Outbox` |
| `Sessions.tla` | login, refresh, logout, the cleanup jobs, time | |
| `SessionsProofs.tla` | theorems about `Sessions` | `Sessions`, TLAPS |
| `MCSessions.tla` | the symmetry of `Sessions` for TLC | `Sessions` |
| `Accounts.tla` | opening accounts, registering and removing PIX keys | |
| `KeyDirectory.tla` | abstract: keys are given to accounts with room and given back | what every step of `Accounts` does but an overtaken registration |
| `AccountsProofs.tla` | theorems about `Accounts` | `Accounts`, TLAPS |
| `MCAccounts.tla` | an instance of `Accounts` for TLC | `Accounts` |
| `Fraud.tla` | the fraud analysis call by call: rules, score, decision, row, event, time | |
| `FraudProofs.tla` | theorems about `Fraud` | `Fraud`, TLAPS |
| `FraudBoundsProofs.tla` | theorems about sums of rows, and about the limits that overlapping analyses pass | `FraudProofs` |
| `MCFraud.tla` | an instance of `Fraud` for TLC | `Fraud` |
| `Users.tla` | registration and the look-up of a login | |
| `UsersProofs.tla` | theorems about `Users` | `Users`, TLAPS |
| `MCUsers.tla` | an instance of `Users` for TLC | `Users` |
| `Queries.tla` | statement, payment list and payment detail while payments commit | |
| `QueriesProofs.tla` | theorems about `Queries` | `Queries`, TLAPS |
| `MCQueries.tla` | an instance of `Queries` for TLC | `Queries` |

The modules meet where the code does. `Payments` takes the fraud decision as
arbitrary, `Fraud` makes it and takes the saga as arbitrary. `Accounts` takes the
balances that payments write as arbitrary (`Pay`), `Queries` the commits of
their sagas (`Stamp`, `Record`). `Users` ends where `Sessions` goes on, at a
login that got in.

### Payments and the code

A **request** is one execution of `InitiatePaymentHandler.execute`. `pc[r]` names
the database call it awaits next; one action is one await together with the
synchronous code that follows it. The uuids an execution makes (payment,
analysis) are named by the execution itself.

| `pc` | Action | Code (`initiate-payment.handler.ts` unless named) |
|---|---|---|
| `idle` | `Receive` | the command arrives, `IdempotencyKey.create`/`generate` |
| `findKey` | `FindKey` | 1. `findByIdempotencyKey`, replay |
| `findSender`, `findReceiver` | `FindSender`, `FindReceiver` | 2. both account rows into memory (`seen`), 3. self-transfer and amount checks |
| `analyze` | `Analyze` | 4. `AnalyzePaymentHandler`: the row of `fraud_analyses`, any decision |
| `saveEvents` | `SaveEvents` | `outboxService.saveEvents` of a BLOCKED analysis, then 403 |
| `insert` | `InsertPayment` | 6a. `tx.payment.create`, status PROCESSING |
| `debit` | `DebitSender` | 6c. `Account.debit` in memory, `tx.account.update` |
| `credit` | `CreditReceiver` | 6d. `Account.credit` in memory, `tx.account.update` |
| `commit` | `Commit`, `CommitUnacknowledged` | 6b, 6e-6g and the COMMIT; in the second the commit happens and its answer is lost |
| in the saga | `RollBack`, `LockTimeout` | a statement or the connection fails; a wait for a lock is cut short |
| `compensate` | `Compensate` | the catch clause: `updateMany` to FAILED (whose own failure is swallowed), 400 |
| before the saga | `DatabaseError`, `WriteUnacknowledged` | an awaited call rejects, 500; in the second it was a write (the analysis, its event) that took effect |
| anywhere | `Crash` | the process dies |

Abstractions. The open transaction is not a copy of the database: under READ
COMMITTED nobody sees its writes, so they are applied by `Persist` when it
commits, and until then it shows only through the locks it holds, which follow
from `pc` (`HoldsKey` for the entry in the unique index, `HoldsAccount` for the
two account rows). 6b, 6e, 6f and 6g write rows no one else touches before the
commit, so they and the COMMIT are one step; `RollBack` at `commit` stands for
any of them failing. A time limit of Prisma that expires anywhere in the
transaction is a `RollBack` too. The wait for a lock may always end in
`LockTimeout`: PostgreSQL's deadlock detection, or the time limit. Fraud's
decision is an arbitrary choice, which covers every score the rules of `Fraud`
could give.

`MapperMoney` says which balance `AccountMapper.toDomain` puts in an account.
At this commit it is an object whose `add` and `subtract` are `() => {}`
(`"stub"`); its declared type is `Money`, whose operations are real
(`"money"`). With the stub every saga stops at the debit, so the properties of
the saga are checked for `"money"`, the code as its types describe it, and
finding 1, and the theorem `AtAStandstill`, are about `"stub"`.

Opening balances and account states are parameters: the repository has no
deposit operation and nobody calls `Account.block()`, so a balance other than
zero or a BLOCKED account comes from outside.

### Outbox and the code

A **run** is one execution of `relay()`; `Owner` says in which process. `Tick`
is the timer finding the flag down, `Fetch` is `fetchPending`, which starts one
**task** per row of the batch (`Promise.allSettled`); the tasks of a run
interleave freely. A task publishes (`Publish`, `PublishFails`), then marks the
row (`MarkPublished`, or `MarkFailed` in the catch clause, which writes back
the retry count the run had fetched, `read`). `Finish` is the settled batch and
the `finally` that lowers the flag. `FetchFails`, `MarkPublishedFails` and
`MarkFailedFails` are failing database calls, before or after they took effect.
`PublishFails` covers both a refused message and one whose acknowledgements were
lost. `sends`, a history variable, counts the calls of `producer.send`; `topic` is
the set of events of which Kafka holds at least one copy. The producer is kafkajs
with its default retries and without idempotence
(`kafka-producer.service.ts:42-45`), so one call may append several copies, and a
request it has given up may still arrive (`ArriveLate`): how many copies there
are is not modelled and nothing is claimed of it.
`KafkaProducerService.publish` returns without sending when the event has no
topic; those events are the ones outside `Mapped`. The order of a batch is by
`createdAt`.

### Sessions and the code

A request is one execution of `LoginUserHandler`, `RefreshTokenHandler` or
`LogoutUserHandler` (`modules/identity/application/commands`). None of them uses
a transaction, so each awaited call is a step of its own.

| `pc` | Action | Code |
|---|---|---|
| `idle` | `Receive` | `AuthController`; a refresh token without a dot is refused before any call |
| `findByEmail` | `FindByEmail` | login: the user, the password, the status |
| `findSession` | `FindSession` | refresh: `findById`; revoked means reuse, else expiry and bcrypt |
| `findUser` | `FindUser` | refresh: the owner must be ACTIVE |
| `revoke` | `RevokeSession` | refresh and logout of one session: `session.revoke()`, `sessionRepo.update` of the whole row |
| `save` | `SaveSession` | login and refresh: `Session.create`, `sessionRepo.save`, the answer |
| `revokeAll` | `RevokeAll` | reuse, and logout without an id: `updateMany` of every unrevoked row |
| `findOwn` | `FindOwn` | logout with an id: `findById`, the owner is compared |
| in flight | `CallFails`, `WriteUnacknowledged`, `Crash` | a call rejects, before or after it took effect; the process dies |
| - | `CleanupExpired`, `CleanupRevoked` | the daily and the hourly job |
| - | `Pass`, `Suspend` | time; a user's status, which nothing in the repository changes after registration |

Abstractions. An execution creates at most one session, so it names the
session's id, its secret and the hash of the secret; a secret matches only the
hash of its own session. A wrong password is an unknown user. Commands are
whatever clients can put together from the secrets they were given (`Known`). A
logout carries a valid access token, which the guard checks without a database,
so any user may send one. Time is in days and moves when it likes (`Pass`), also
between two awaits of a handler. `over` is the only history variable.

### Accounts and the code

A request is one execution of `OpenAccountHandler`, `RegisterPixKeyHandler` or
`RemovePixKeyHandler`. `Find` is the repository's `findByUserId` with the
decision of the handler and of the aggregate (`registerPixKey`, `removePixKey`)
on what it returns; `SaveAccount`, `UpdateAccount` and `DeleteKey` are the one
write that follows. `Update` is the transaction of
`PrismaAccountRepository.update`: the account row as it was read (a status
changed meanwhile is written back) and an upsert of every key of the aggregate,
whose `update` is empty. A unique index refuses a second account of one user;
that it is refused shows as `CallFails`, since `Create` is then not enabled.

Abstractions. An account is named by the request that opened it. Prisma reads an
account and its keys in two statements; they are one step here. Whether a value
has the format of its key type is a component of the command (`fits`). `Pay` is
a saga of `Payments` writing a balance: any balance, at any time, which with the
mapper's stub no saga does (finding 1) and with working `Money` every saga would.
`Block` is a status changed from outside. `overtaken` is the only history
variable: the registrations whose account row or keys somebody changed after
they read them. At this commit no module provides `RemovePixKeyHandler`; it is
modelled as it is written.

### Fraud and the code

A request is one call of `AnalyzePaymentHandler.execute` from the payment
handler, followed by its saga.

| `pc` | Action | Code (`analyze-payment.handler.ts` unless named) |
|---|---|---|
| `idle` | `Receive` | the call from `initiate-payment.handler.ts:116`, rules 1 and 4 (`CommandFactors`) |
| `count` | `CountRecent` | rule 2, `countRecentBySender` |
| `sum` | `SumRecent` | rule 3, `sumRecentAmountBySender` |
| `receivers` | `FindReceivers` | rule 5, `findRecentReceivers`; `FraudAnalysis.create` with the score and `analyzedAt` |
| `save` | `Save`, `SaveUnacknowledged` | `fraudRepo.save`: the insert, with an `Int` for the amount |
| `saveEvents` | `SaveEvents` | the event of a block, then the 403 of the payment handler |
| `saga` | `Pay`, `PayFails` | `initiate-payment.handler.ts:180`: the payment is linked and commits, or is not |
| in flight | `CallFails`, `Crash` | a call rejects; the process dies |
| - | `Pass` | time |

Abstractions. Factors are a set; their weights are those of the code and
`NEW_ACCOUNT` is two factors, because it has two weights. Rules 1 and 4 read
nothing but the command, so they are evaluated on arrival. Time is in minutes,
and the windows are the code's: 10 minutes, 24 hours, one hour. Each read takes
its own `Date.now()`, and so does the analysis. The link of an analysis to its
payment, and the receiver the payment has, are one column (`paid`), written when
the saga commits. `draft[r].begun` and `overtaken` are history: when the handler
began, and whether a row of its sender was written since.

### Users and the code

A request is one execution of `RegisterUserHandler`, or of `LoginUserHandler` up
to the point where `Sessions` takes over.

| `pc` | Action | Code |
|---|---|---|
| `idle` | `Receive` | `AuthController`; for a registration `Email.create` and `Password.create` |
| `findEmail` | `FindEmail` | register: `findByEmail`, 409 |
| `hash` | `Hash` | register: bcrypt |
| `save` | `Save`, `SaveUnacknowledged` | register: `User.create`, `activate`, the insert under the unique index |
| `lookup` | `LookUp` | login: `findByEmail` |
| `compare` | `Compare` | login: bcrypt, the status, 401 |
| in flight | `CallFails`, `Crash` | a call rejects, the insert of a taken address included; the process dies |
| - | `Suspend` | `User.suspend`, which no handler calls |

Abstractions. An address is a mailbox and two bits: typed with capitals, typed
with spaces around it. Hashing is injective: a hash matches its password and no
other. No `ValidationPipe` is installed, so what the DTO decorators forbid does
arrive: `Missing` is what then makes the handlers throw. The status `CLOSED` of
the schema is set nowhere. `before` is history: the rows there were when a login
began.

### Queries and the code

One client at a time asks, sagas commit all the while. `Walk` and `Turn` are the
client asking for page 1 and for the next one while `hasNext` says so;
`FindAccount`, `ReadRows` and `ReadTotal` are the calls of
`get-statement.query.ts`, the last two in either order (`Promise.all`). `AskList`
and `List` are `GET /payments`, `Open`, `FindPayment` and `FindParty`
`GET /payments/:id`. Payments are the ones of `Payments`, recorded whole
(theorem `NoneHalfDone`) and kept (`Final`); `Stamp` is the column default that
dates their rows when they are inserted and `Record` the commit, which may come
later and in another order.

Abstractions. An entry of the reader's account is named by its payment, of which
it has one. An order of equal stamps is any order, chosen anew by each read. What
the client no longer looks at is forgotten. `List` is two reads in one step: the
account of a user never changes. `base` is history: the matching entries when the
walk began. At this commit no module provides `GetStatementQuery`; it is modelled
as it is written.

## 3. Runs

| Run | Instance | Shows |
|---|---|---|
| `payments_overlap` | 2 requests, 3 accounts (one BLOCKED), 11 commands, `"money"` | every safety property under every overlap, failure and crash; refinement of `PaymentBook` and of `Bank`; what exactly overlapping payments can break; every request is answered |
| `payments_refused` | as `payments_overlap`, `"stub"` | finding 1 |
| `outbox_one` | 1 process, 2 runs, 2 events, 2 faults | the flag keeps runs apart; calls of the producer are bounded; tries are never forgotten |
| `outbox_two` | 2 processes, batches of one, 2 events, one unrouted, 1 fault | PUBLISHED means sent, status agrees with retries, every event is settled, even with two stale counters and behind a full batch |
| `sessions_overlap` | 3 requests, two at a time, 2 users, 4 instants | every property of sessions under overlap, failure, crash, suspension and cleanup |
| `sessions_token`, `sessions_twice`, `sessions_everywhere` | 3 requests, 1 user, 1 instant | findings 2, 3 and 4 |
| `accounts_overlap` | 3 requests at once, 3 users (one without account), 2 keys, limit 1, 2 balances | one account per user, keys are not taken, and what exactly overlapping handlers can break |
| `fraud_overlap` | 3 requests, two at a time, 4 commands, 4 instants, threshold 1 | what an analysis nobody overtakes decides, how far overlapping ones exceed the limits, that a block is final |
| `users_overlap` | 4 requests, two at a time, 2 mailboxes, 11 commands | registrations and logins under overlap, lost acknowledgements, failures, crashes and suspension |
| `queries_paging` | 4 payments, 2 instants, cap 2, page sizes 1 to 3 | a walk through the statement while payments commit; the list and the payments it names |

Bounds, and why they are enough.

Payments: two requests meet every pairwise interleaving, and no guard of the
handler counts beyond one other; the second may also come after the first, with
its key, after its success or its failure. `MaxInFlight` limits handlers that run
at once. The eleven
commands hold one of each rejection (unknown accounts, oneself, a zero amount, a
refused key), a blocked sender and receiver, a shared key with different contents
and generated keys. Amounts are small and the opening balances (3 and 1) make
some payments affordable only before or only after another.

Outbox: `MaxFaults` counts database errors and crashes; Kafka's refusals are not
counted, the retry limit bounds them. Two runs per process are the smallest
number the flag matters for, two events the smallest number a batch of one leaves
waiting.

Sessions: three requests are a login, the refresh of its session (the token put
together by the client, see finding 2) and one more refresh or logout of either;
two users are the smallest number ownership matters for. The instants 0, 2, 8
and 38 lie on either side of the hourly job's one day, a session's seven days
and the daily job's thirty. Requests and users are symmetric.

Accounts: users u and v have an account, w has none; u has a key. The limit is 1
instead of 5, so that u is at it and v can be brought past it by two
registrations that overlap; a third handler is what removes a key or opens an
account meanwhile. Two balances are enough to tell a balance written back from
one a payment wrote. Requests are symmetric.

Fraud: amounts are in reais and the limits those of the code, so that the four
commands are a payment approved alone, one held for review because of a young
account, one blocked, and one the database's `Int` cannot hold; two of the first
exceed the day's limit with the second. The threshold is 1 instead of 5, so that
it is met by one row and passed by two. The instants 0, 10, 61 and 1441 lie on the
edge of the ten minutes and just past the hour and the day. Requests are
symmetric.

Users: four requests are two registrations of one address, a login, and one more
of either; two at a time is what the gap between look-up and insert needs. The
commands spell one address in three ways and fail each check once. Requests are
symmetric.

Queries: the reader has a part in three of the four payments, so that pages of
one and of two have successors, and one is left over for a commit in between;
page size 3 is above the cap of 2. Two instants make equal stamps and late
commits. The list is asked for 1, 3 and -1 rows.

Runs end (every request answered, every event settled) so all of them set
`CHECK_DEADLOCK FALSE`.

## 4. Fairness

`Payments!FairSpec`, in `payments_overlap`: weak fairness of each request's own
step: Node resumes a handler whose call has settled, and the database or Prisma
ends every wait for a lock (deadlock detection, the interactive transaction's
time limit), which is why `LockTimeout` belongs to `Step`. Arrivals, failures and
crashes are not fair.

`Outbox!FairSpec`, in `outbox_two`: weak fairness of each run's step: the timer
keeps firing and every awaited call settles. Kafka may refuse every message
forever. Database errors and crashes are bounded by `MaxFaults`, since a database
that fails forever settles nothing.

All other runs are about safety and assume no fairness.

## 5. Properties

Every module has a type invariant `TypeOK`. It is checked in the runs of `Payments`
(whose point is that a balance is always a number, never the stub's undefined)
and of `Queries` (no page is longer than the cap), and a theorem everywhere.

`Payments`: `OnePaymentPerKey`, `AnswersAreDurable`, `TablesAgree`, `NoOverdraft`,
`RecordedIsFinal`, `EveryRequestEnds`, `ImplementsBook`, `ImplementsBank`,
`OnlyRacesBreakTheBank`; `NothingMoves` and `NothingHalfDone` are proved only
(section 6). `NothingHalfDone` is why the compensation has nothing to do (section 7).

What the saga does to money. It writes absolute balances computed from rows read
before its transaction began. Two overlapping payments of one sender each
subtract from the same old balance, and the second overwrites the first: an
update is lost, though the balance never goes below zero (`NoOverdraft`, which
holds because each write was checked against the row it was computed from).
Handlers interleave at every await, so no property may assume that this does not
happen, and `Bank` allows it: a payment starts from any balances its two
accounts have had. `ImplementsBank` says that it does nothing else, for any
overlap: it moves its own amount, once per key, and from a balance that suffices.
`OnlyRacesBreakTheBank` says when it is a transfer of the balances of the moment:
always, unless the row of one of its accounts was given another balance after
it was read. The lost update cannot be seen at this commit, because the stub stops
every saga; mending the mapper exposes it. `ImplementsBook` is about the records:
the rows, the ledger entries and the balances change together and say the same.

`Outbox`: `SingleSender`, `SendsBounded`, `TriesAreRemembered` (one
process); `PublishedMeansSent`, `RetriesMatchStatus`, `EventuallySettled` (any
number). `SendsBounded` is about calls of `producer.send`, not about copies in the
topic (section 2). `SendsBounded` and `TriesAreRemembered` are properties of one relaying
process: the flag is a field of the service object, so with two processes a
slow one can set a PUBLISHED or FAILED row back to PENDING with an old count.

`Sessions`: `SpentBeforeSaved` and `SessionsAreEarned` relate a session to the
one it was rotated from; `NoRevival`, `EndedByItsOwner` and `ReuseIsDetectable`
say what no step may do to a row, whatever stale aggregates are written back;
`GlobalRevocationHolds` says what a "log out everywhere" is worth to refreshes
that read their session afterwards. One that had read it before goes on, and the
session it saves is not covered by the `updateMany` that already ran: it survives
the global logout. `GlobalLogoutReachesAll` is what the API documents instead, and
`sessions_everywhere` refutes it (finding 4). `EndedByItsOwner` compares the owner
of the session that ends with the user its handler acts for. For a logout that is
who sent it. For a refresh it is the owner of the session it has read, so whoever
presents the id of a revoked session counts as acting for its owner; the property
is about logouts, and about refreshes only in that they end no other user's
sessions.

`Accounts`: `OneAccountPerUser` and `KeyIsNotTaken` hold under every overlap. The
directory of keys does not: a registration that read the keys before a removal
upserts the removed key again, and two registrations pass the limit of five
together (`account.entity.ts:126`, "Maximum 5 PIX keys per account"). So
`OnlyRacesBreakTheDirectory` says that these are all there is: a step that is
none of `KeyDirectory` ends a registration that was overtaken.
`OnlyRacesLoseWrites` says the same of the row a registration writes back: it
changes a balance or a status only if that very account changed after it was
read.

`Fraud`: `HistoryIsJudgedRight` and `VolumeIsJudgedRight` compare the factors an
analysis ends up with, after its reads at different times, with the rules
evaluated on the table at the end and at the beginning. Between the two lies only
what leaves a window as time passes, unless a row of its sender was written
meanwhile (`overtaken`). For those, `FrequencyOvershootBounded` and
`VolumeOvershootBounded` say how many analyses, and how much money, can go
unnoticed in any one window: that many more as run at the same time, and the
limit once for each of these. `BlockedStaysBlocked` relates analyses, payments,
announcements and answers. In all of these a retry is one more request of its
sender, and counts, although its first try may have paid nothing.

`Users`: `OneUserPerEmail` is about the gap between look-up and insert;
`RegistrationsAreTrue` about answers under lost acknowledgements, and about
registrations that come later (`FirstRegistrationStays`, that no step takes over a
user's address or password, is proved only); `LoginIsEarned` and
`RightPasswordGetsIn` about the two ways an address is brought to its stored form.
The latter leaves out addresses typed with spaces around them: registration trims
them, login does not.

`Queries`: `CompleteOrTold` is what pages by offset are worth while rows come in.
Commits push rows towards later pages, so that a walk repeats entries; equal
stamps, which each read may sort anew, let it miss some. But a walk that has
missed one shows an entry twice, or one that was not there when it began, so a
client that looks can begin again.
`QuietWalkIsExact` is the reference definition of the paging arithmetic;
`AnnouncedPageHasRows` relates a total to rows read later; `ListedCanBeOpened`
two queries that filter in different code. The first three are stated for limits
up to the cap (section 7).

## 6. Proofs

Eight modules hold theorems. Each is proved for every value of the constants,
from the module's assumption alone (`PaymentsAssumption` and so on), except
where the table names a further hypothesis.

| Module | Theorem | States |
|---|---|---|
| `PaymentsProofs` | `TypeCorrect` | `Spec => []TypeOK` |
| | `OnePayment` | `Spec => []OnePaymentPerKey` |
| | `Durable` | `Spec => []AnswersAreDurable` |
| | `Solvent` | `Spec => []NoOverdraft` |
| | `Final` | `Spec => RecordedIsFinal` |
| | `BookImplemented` | `Spec => ImplementsBook` |
| | `NoneHalfDone` | `Spec => []NothingHalfDone` |
| | `TablesTellOneStory` | `Spec => []TablesAgree` |
| | `BankImplemented` | `Spec => ImplementsBank` |
| | `TransfersUnlessOvertaken` | `Spec => OnlyRacesBreakTheBank` |
| | `AtAStandstill` | with `"stub"`, `Spec => []NothingMoves` |
| `SessionsProofs` | `TypeCorrect` | `Spec => []TypeOK` |
| | `Rotation` | `Spec => []SpentBeforeSaved` |
| | `Earned` | `Spec => []SessionsAreEarned` |
| | `RevocationIsFinal` | `Spec => NoRevival` |
| | `RevocationHolds` | `Spec => GlobalRevocationHolds` |
| | `OwnersEndSessions` | `Spec => EndedByItsOwner` |
| | `ReuseStaysDetectable` | `Spec => ReuseIsDetectable` |
| `AccountsProofs` | `TypeCorrect` | `Spec => []TypeOK` |
| | `OneAccount` | `Spec => []OneAccountPerUser` |
| | `KeysAreKept` | `Spec => KeyIsNotTaken` |
| | `DirectoryUnlessOvertaken` | `Spec => OnlyRacesBreakTheDirectory` |
| | `NoLostWriteUnlessOvertaken` | `Spec => OnlyRacesLoseWrites` |
| `OutboxProofs` | `TypeCorrect` | `Spec => []TypeOK` |
| | `PublishedIsSent` | `Spec => []PublishedMeansSent` |
| | `RetriesAgree` | `Spec => []RetriesMatchStatus` |
| | `OneSender` | `Spec => []SingleSender` |
| | `SendsAreBounded` | one process (`OneOwner`): `Spec => []SendsBounded` |
| | `TriesAreKept` | one process (`OneOwner`): `Spec => TriesAreRemembered` |
| `FraudProofs` | `ScoreMonotone` | more factors, no lower a score and no milder a decision; the score is in 0..100 |
| | `OneFactorDecides` | a transfer of R$ 50.000 or more is blocked; any other factor alone is approved |
| | `TypeCorrect` | `Spec => []TypeOK` |
| | `HistoryJudgement` | `Spec => []HistoryIsJudgedRight` |
| | `BlockedForGood` | `Spec => []BlockedStaysBlocked` |
| `FraudBoundsProofs` | `BoundsInvariant` | `Spec => [](FraudInv /\ BoundsInv)` |
| | `VolumeJudgement` | `Spec => []VolumeIsJudgedRight` |
| | `FrequencyOvershoot` | `Spec => []FrequencyOvershootBounded` |
| | `VolumeOvershoot` | `Spec => []VolumeOvershootBounded` |
| `UsersProofs` | `TypeCorrect` | `Spec => []TypeOK` |
| | `OneUser` | `Spec => []OneUserPerEmail` |
| | `FirstStays` | `Spec => FirstRegistrationStays` |
| | `RegistrationsTrue` | `Spec => []RegistrationsAreTrue` |
| | `LoginEarned` | `Spec => []LoginIsEarned` |
| | `PasswordGetsIn` | `Spec => []RightPasswordGetsIn` |
| `QueriesProofs` | `TypeCorrect` | `Spec => []TypeOK` |
| | `ListedOpens` | `Spec => []ListedCanBeOpened` |
| | `AnnouncedPages` | `Spec => []AnnouncedPageHasRows` |
| | `CompleteWalks` | `Spec => []CompleteOrTold` |
| | `QuietWalks` | `Spec => []QuietWalkIsExact` |

**Payments.** `TypeInv` adds to `TypeOK` what a handler has checked by the time
it stands at a given await (`Checked`: both accounts exist and differ, the
amount is positive, the key is usable). `BookInv` adds `KeyReserved`: a handler
past its insert holds the index entry of its key, so no payment has that key and
no other handler holds it; this is what makes `OnePaymentPerKey` inductive, and
with it every commit a `Record` of the book. `Recorded` says that recorded
payments are COMPLETED, so a compensation finds nothing to mark: this gives
`Final`, and with it `Durable`. `FundsInv` says that balances held in memory are
never negative either: a debit was compared with the very balance it is
subtracted from. `TablesInv` adds to `TablesAgree` what a handler knows of its own
analysis while the saga runs (`Judged`: it is there, it lets the payment through
and no payment has it yet), so that the commit finds the row it links.
`NoneHalfDone` is the part of `BookInv` that says recorded payments are
COMPLETED. `StubInv` says that with the stub nobody gets past the debit.
`BankImplemented` and `TransfersUnlessOvertaken` rest on `BankInv`, that is on
`ReadsWereHad`: what a saga holds of an account is a balance that account has had,
with its amount applied once it is debited or credited. Others may record payments
meanwhile; they add to `Had` and take nothing from it, so this stays true of every
handler in flight, however many there are. A commit is then a `Pay` of `Bank`, and
a `Transfer` if the rows still have the balances it was computed from.

**Sessions.** A handler decides on a row some awaits after it read it, so none of
the properties is inductive. `SessionInv` adds what stays true of the row
meanwhile: `SeenInv` (the row read is still that session, with the same owner and
expiry, or deleted; the secret was compared), `RowInv` (a session exists only
once its creator is done, so ids are not used again, and no row expires more than
seven days after its revocation), `SpentInv` (from the revocation on, the old
session is revoked or deleted) and `OverInv` (so is what a global revocation
covered). `RowStep` then says all a step can do to a row: keep it, delete it,
create it, or end it on behalf of its owner. The properties follow from that and
`SessionInv`; `ReuseStaysDetectable` from the arithmetic of the dates
(30 days of retention against 7 days of life).

**Accounts.** `AccountInv` adds to the two invariants that an id belongs to one
user (`IdInv`), that an account exists only once its creator is done
(`CreatorInv`) and that the account a handler has read is still there and its
user's (`SeenInv`), so that writing back a stale row cannot give a user a second
account. `OvertakenInv` says that what a registration has read is still in the
tables, row and keys, unless it is in `overtaken`; so its write is a `Give` of the
directory and leaves the row as it is.

**Outbox.** `OutboxInv` adds to the invariants that an open run has the flag of
its process to itself (`FlagInv`) and that what is in the hands of a run was
inserted, and sent if it is about to be marked so (`SentInv`). `TriesInv`, for
one relaying process, says that the run's retry counts are not stale and counts
calls of the producer: one more than the tries and faults while the last try is not yet written.

**Fraud.** `FraudInv` adds to the properties `ControlInv` (a handler has a command
and, until its row is written, a draft), `RowInv` (a row is written at the end of
its own request, for its sender), `HistoryInv` (what each read has found so far
is judged right, step by step, for handlers nobody overtook) and `BlockedInv` (a
saga runs only for analyses that let it). The argument for `HistoryInv` is that
other senders write no row of this one (`overtaken` has the requests of this
one), and that a window only loses rows as time passes. `ScoreMonotone` is what
makes more factors safe to add.

`FraudBoundsProofs` is about limits that overlapping analyses pass together. The
three properties do not follow from each other but from one idea: count, beside the
rows a rule has not noticed, the **pending** handlers, those the rule has read for
without firing and whose row is still to come. A handler becomes pending only where
the rows it read leave room for it, so that pending handlers and unnoticed rows
together stay below the threshold plus the handlers that run at a time
(`FrequencyInv`). For money (`VolumeInv`) the last to read found room for its own
amount beside the rows, and every other pending handler needs at most the limit
(`Room`); a handler that ends without a row, or whose row appears, only gives room
back. The two bounds drop the pending part. Needed beside them: one row per
analysis (`OneRowInv`), no more handlers than may run (`RunningInv`), and what the
read of the volume has found (`VolumeHistoryInv`, like `HistoryInv`).
The sum is a fold over a set in an order that `CHOOSE` picks. That it is additive
and monotone is proved without induction, which is out of this prover's reach:
that the fold's recurrence has a solution, and that its value does not depend on
which row is taken first, is proved from a smallest set for which it fails
(`LeastSet`, `SumExists`, `SumRemove`).
`FraudAssumption` asks for a threshold of at least one; the code's is 5
(`analyze-payment.handler.ts:32`), and with zero the first analysis would be one too many.

**Users.** `TypeInv` adds what a registration was checked for before it went on
(`Checked`). Its type invariant has the one thing that depends on it: stored
addresses are in normal form. `TableSteps` says all a step can do to the table:
add a free address, or change a status. `FactsInv` then says of each request what
its answer rests on, and `Holds`, of a login between its look-up and bcrypt, that
the row it holds is still there but for its status, under the address it looked
up; with `OneUserPerEmail` it is the only one, so a refusal cannot be meant for
another user.

**Queries.** `ControlInv` says what a walk leaves behind and that stamps come in
their order, `ListInv` that a list holds payments its reader sent and keeps.
`WalkInv` has three parts. `AnnouncedInv`: while a walk lasts entries are only
added, so `base` is part of what matches and a total read earlier is at most what
matches now; hence the next page exists. `CompleteInv`: each page takes its share
of at least the entries of the beginning, so a walk to the end has as many rows as
there were entries, and if all are different and none is newer they are those
(`AllOfThem`, the pigeonhole). `QuietInv`: if nothing was added, each page has
exactly its share, and each entry stands at its rank. The rank, the number of
newer entries (`Ranked`), is what makes the order of a whole walk provable: its
pages are cut from different sorts of the rows, and of two sorts only the ranks of
the entries agree (`RankOf`, for stamps all different). The arithmetic of
`TotalPages` is `LastPage`. All of it holds for any cap and any limits up to the cap.

Only model-checked: liveness (`EveryRequestEnds`, `EventuallySettled`), which is
beyond the prover. Every safety property, action property and refinement that a
passing run checks is a theorem too.

## 7. Findings

1. **No payment can complete** (`payments_refused`). `AccountMapper.toDomain`
   (`modules/accounts/infra/mappers/account.mapper.ts:19`) builds a balance with
   empty `add` and `subtract`; `Account.debit` reads `isFailure` of the
   undefined result and throws inside the saga. Every request whose sender is
   active ends in 400.
2. **The token of a login cannot be refreshed** (`sessions_token`). Login returns
   the bare secret (`login-user.handler.ts:68`), a refresh refuses anything
   without the session id in front; `auth.controller.ts:40` documents the two
   parts.
3. **A token can be exchanged twice** (`sessions_twice`). Two refreshes that
   overlap both find the session valid and both get a new pair
   (`refresh-token.handler.ts:94`); reuse detection does not notice.
4. **A global logout does not reach a refresh in flight** (`sessions_everywhere`).
   The refresh has passed its checks when the logout revokes the sessions there
   are; it saves its new one afterwards (`refresh-token.handler.ts:111`), and that
   one stays usable. `auth.controller.ts:49` says all sessions are revoked.

Seen while modelling, without a run of their own:
- no payment is ever FAILED: the compensation
  (`initiate-payment.handler.ts:242-250`, "mark FAILED") updates a row that was
  inserted in the transaction that has just been rolled back
  (`NothingHalfDone`, theorem `NoneHalfDone`);
- the limit of PIX keys is compared with the keys as they were read
  (`account.entity.ts:126`) and nothing checks it when they are written, so
  registrations that overlap exceed it (section 5);
- registering a key writes the whole account row back
  (`prisma-account.repository.ts:46`): with working `Money`, a payment or a block
  that commits in between is undone (section 5);
- the frequency and the volume rule count analyses, not payments: the tries of a
  payment that never succeeded count too, and overlapping requests pass a limit
  together (section 5);
- an amount above 2^31-1 cents passes `Money` and fails in the insert of its
  analysis (`schema.prisma:208`): 500 instead of a block, and no trace of it;
- `GlobalExceptionFilter` and a `ValidationPipe` are installed nowhere: a unique
  index that refuses a second registration or account shows as 500, and the
  decorators of the DTOs check nothing;
- registration trims the address, login does not
  (`login-user.handler.ts:36`): who types a space is refused;
- the events of users and accounts are cleared unsent
  (`register-user.handler.ts:65`): only payments and blocks reach the outbox;
- a statement with a limit above 100 takes 100 rows and skips by the limit
  (`get-statement.query.ts:26`), so the rows between are on no page;
- a negative limit passes the cap of the payment list
  (`payments.controller.ts:86`) and returns the oldest rows;
- a block can go unannounced: the analysis and its event are two statements
  (`analyze-payment.handler.ts:142`), not the transactional outbox of
  `schema.prisma:176`;
- registering a key another account has is answered as a success: the upsert
  (`prisma-account.repository.ts:51`) updates nothing and does not fail;
- a removed key comes back when a registration that had read it writes its
  aggregate (`prisma-account.repository.ts:48`);
- `payment.complete()` is called on an aggregate that is still PENDING
  (`startProcessing()` is never called), its failed `Result` is dropped, and
  `payments.payment.processed` is never emitted (`DomainEvents`);
- the relay's doc comment says it runs every two seconds, the decorator says
  five.

## 8. Not modelled

- HTTP routing, DTO decorators, Swagger, JWT signing and checking, the exception
  filter: no state of their own. What the controllers pass on is in the commands
  of each module.
- The account and session queries (`get-account`, `list-sessions`): one read each,
  returned as it is.
- Operations no handler calls: `Payment.startProcessing`, `fail` and `refund`,
  `User.changePassword`. `Account.block` and `User.suspend`, which none calls
  either, are modelled, because the handlers test what they set.
- One module with accounts, payments and fraud together. Its state space is the
  product of three that already take a minute each; instead each module leaves
  the others' steps arbitrary (section 2), which allows more than they do.
- Kafka's consumers and the broker itself: the repository has none, and of the
  broker only what `kafka-producer.service.ts` sees is modelled.
