------------------------------ MODULE Accounts ------------------------------
(***************************************************************************)
(* Opening accounts, and registering and removing PIX keys:                *)
(* OpenAccountHandler, RegisterPixKeyHandler and RemovePixKeyHandler over  *)
(* the tables accounts and pix_keys.                                       *)
(*                                                                         *)
(* Each reads the account with its keys into an aggregate, decides on that *)
(* aggregate, and writes in a later call: the whole row and all keys of the *)
(* aggregate when it registers, one DELETE when it removes.  An account is *)
(* named by the execution that opened it.  Payments, another module, change *)
(* balances meanwhile; a registration writes back the one it has read.     *)
(***************************************************************************)
EXTENDS Integers, FiniteSets

CONSTANTS
    Requests,       \* handler executions
    Users,
    Commands,       \* what clients may ask
    Keys,           \* values a PIX key can have
    Balances,       \* what the balance of an account can be
    KeyLimit,       \* keys per account; 5 in the code
    OpeningRows,    \* the accounts there are before the first request
    OpeningOwner,   \* and the keys they have
    MaxInFlight,    \* bound: handlers running at the same time
    None            \* no account

VARIABLES
    accounts,       \* table accounts
    owner,          \* table pix_keys: the account of each key value, which is unique
    cmd,            \* the command of each request
    pc,             \* the next awaited call of each request
    seen,           \* the Account aggregate a handler holds in memory
    overtaken,      \* history: registrations whose account or whose keys have
                    \* changed since they read them
    answer          \* what the client was told

vars == <<accounts, owner, cmd, pc, seen, overtaken, answer>>

\* Ids of accounts: of those opened by a request, and of those there were.
Id == Requests \cup {x.id : x \in OpeningRows}
Row == [id : Id, user : Users, balance : Balances, status : {"ACTIVE", "BLOCKED"}]
Aggregate == [row : Row, keys : SUBSET Keys]

\* `fits' says whether the value passes the check of the type sent with it.
Command == [op : {"open"}, user : Users]
           \cup [op : {"register"}, user : Users, key : Keys, fits : BOOLEAN]
           \cup [op : {"remove"}, user : Users, key : Keys]

ASSUME AccountsAssumption ==
    /\ IsFiniteSet(Keys)
    /\ Commands \subseteq Command
    /\ KeyLimit \in Nat
    /\ 0 \in Balances
    /\ OpeningRows \subseteq Row
    /\ \A x, y \in OpeningRows : x.id = y.id \/ x.user = y.user => x = y
    /\ {x.id : x \in OpeningRows} \cap Requests = {}
    /\ OpeningOwner \in [Keys -> {x.id : x \in OpeningRows} \cup {None}]
    /\ None \notin Id
    /\ MaxInFlight \in Nat

InFlight == {"find", "save", "update", "delete"}

\* Every row, aggregate and answer has the shape its table or type gives it.
TypeOK ==
    /\ accounts \subseteq Row
    /\ owner \in [Keys -> Id \cup {None}]
    /\ cmd \in [Requests -> Command \cup {None}]
    /\ pc \in [Requests -> {"idle", "done", "crashed"} \cup InFlight]
    /\ seen \in [Requests -> Aggregate \cup {None}]
    /\ overtaken \subseteq Requests
    /\ answer \in [Requests -> {"none", "opened", "registered", "removed", "refused", "error"}]

Init ==
    /\ accounts = OpeningRows
    /\ owner = OpeningOwner
    /\ cmd = [r \in Requests |-> None]
    /\ pc = [r \in Requests |-> "idle"]
    /\ seen = [r \in Requests |-> None]
    /\ overtaken = {}
    /\ answer = [r \in Requests |-> "none"]
-----------------------------------------------------------------------------
Goto(r, label) == pc' = [pc EXCEPT ![r] = label]
Reply(r, code) == Goto(r, "done") /\ answer' = [answer EXCEPT ![r] = code]

KeysOf(a) == {k \in Keys : owner[k] = a}
AccountOf(u) == {x \in accounts : x.user = u}
RowsOf(a) == {x \in accounts : x.id = a}

\* Kept of the past, with every step that changes a table or ends a handler.
Watch ==
    overtaken' = {r \in Requests :
        /\ pc[r] = "update" /\ pc'[r] = "update"
        /\ \/ r \in overtaken
           \/ RowsOf(seen[r].row.id)' # RowsOf(seen[r].row.id)
           \/ KeysOf(seen[r].row.id)' # KeysOf(seen[r].row.id)}

Receive(r) ==
    /\ pc[r] = "idle"
    /\ Cardinality({q \in Requests : pc[q] \in InFlight}) < MaxInFlight
    /\ \E c \in Commands : cmd' = [cmd EXCEPT ![r] = c]
    /\ Goto(r, "find")
    /\ UNCHANGED <<accounts, owner, seen, overtaken, answer>>

\* Mutant of MayRegister: one key too many.
MayRegisterOneMore(x, c) ==
    x.row.status = "ACTIVE" /\ Cardinality(x.keys) <= KeyLimit /\ c.fits

\* Account.registerPixKey and Account.removePixKey, asked of the aggregate.
MayRegister(x, c) ==
    x.row.status = "ACTIVE" /\ Cardinality(x.keys) < KeyLimit /\ c.fits

MayRemove(x, c) == x.row.status = "ACTIVE" /\ c.key \in x.keys

\* findByUserId, and the decision taken on what it returns.
Find(r) ==
    /\ pc[r] = "find"
    /\ LET c == cmd[r]
           rows == AccountOf(c.user)
       IN  \/ c.op = "open" /\ rows = {} /\ Goto(r, "save") /\ UNCHANGED <<seen, answer>>
           \/ c.op = "open" /\ rows # {} /\ Reply(r, "refused") /\ UNCHANGED seen
           \/ c.op # "open" /\ rows = {} /\ Reply(r, "refused") /\ UNCHANGED seen
           \/ \E row \in rows :
                 LET x == [row |-> row, keys |-> KeysOf(row.id)]
                 IN  \/ /\ c.op = "register" /\ MayRegister(x, c)
                        /\ seen' = [seen EXCEPT ![r] = [x EXCEPT !.keys = @ \cup {c.key}]]
                        /\ Goto(r, "update") /\ UNCHANGED answer
                     \/ /\ c.op = "remove" /\ MayRemove(x, c)
                        /\ seen' = [seen EXCEPT ![r] = [x EXCEPT !.keys = @ \ {c.key}]]
                        /\ Goto(r, "delete") /\ UNCHANGED answer
                     \/ /\ \/ c.op = "register" /\ ~MayRegister(x, c)
                           \/ c.op = "remove" /\ ~MayRemove(x, c)
                        /\ Reply(r, "refused") /\ UNCHANGED seen
    /\ UNCHANGED <<accounts, owner, cmd, overtaken>>
-----------------------------------------------------------------------------
(* The three writes; each may take effect and lose its acknowledgement *)

Opened(r) == [id |-> r, user |-> cmd[r].user, balance |-> 0, status |-> "ACTIVE"]

\* Mutant of Create: no unique index on user_id.
CreateUnindexed(r) == accounts' = accounts \cup {Opened(r)} /\ UNCHANGED owner

\* INSERT into accounts, under the unique index on user_id.
Create(r) ==
    /\ AccountOf(cmd[r].user) = {}
    /\ accounts' = accounts \cup {Opened(r)}
    /\ UNCHANGED owner

\* upsert with an empty `update': a key that exists stays where it is.
Upserted(r) ==
    [k \in Keys |-> IF k \in seen[r].keys /\ owner[k] = None
                    THEN seen[r].row.id ELSE owner[k]]

\* Mutant of Update: toPersistence takes the limit, which is 0, for the balance.
UpdateEmptied(r) ==
    /\ accounts' = {IF x.id = seen[r].row.id THEN [seen[r].row EXCEPT !.balance = 0]
                    ELSE x : x \in accounts}
    /\ owner' = Upserted(r)

\* One transaction writes the row back from the aggregate and upserts its keys.
Update(r) ==
    /\ accounts' = {IF x.id = seen[r].row.id THEN seen[r].row ELSE x : x \in accounts}
    /\ owner' = Upserted(r)

\* Mutant of DeletePixKey: WHERE key_value = k.
DeletePixKeyAny(r) ==
    /\ owner' = [owner EXCEPT ![cmd[r].key] = None]
    /\ UNCHANGED accounts

\* deleteMany WHERE account_id = a AND key_value = k.
DeletePixKey(r) ==
    /\ owner' = [owner EXCEPT ![cmd[r].key] = IF @ = seen[r].row.id THEN None ELSE @]
    /\ UNCHANGED accounts

SaveAccount(r) ==
    /\ pc[r] = "save"
    /\ Create(r)
    /\ Reply(r, "opened") \/ Reply(r, "error")
    /\ UNCHANGED <<cmd, seen>>
    /\ Watch

UpdateAccount(r) ==
    /\ pc[r] = "update"
    /\ Update(r)
    /\ Reply(r, "registered") \/ Reply(r, "error")
    /\ UNCHANGED <<cmd, seen>>
    /\ Watch

DeleteKey(r) ==
    /\ pc[r] = "delete"
    /\ DeletePixKey(r)
    /\ Reply(r, "removed") \/ Reply(r, "error")
    /\ UNCHANGED <<cmd, seen>>
    /\ Watch

\* A call fails without effect: the connection, a unique index, a deadlock.
CallFails(r) ==
    /\ pc[r] \in InFlight
    /\ Reply(r, "error")
    /\ UNCHANGED <<accounts, owner, cmd, seen>>
    /\ Watch

Crash(r) ==
    /\ pc[r] \in InFlight
    /\ Goto(r, "crashed")
    /\ UNCHANGED <<accounts, owner, cmd, seen, answer>>
    /\ Watch

\* The status of an account is changed from outside; no handler calls block().
Block(x) ==
    /\ x.status = "ACTIVE"
    /\ accounts' = (accounts \ {x}) \cup {[x EXCEPT !.status = "BLOCKED"]}
    /\ UNCHANGED <<owner, cmd, pc, seen, answer>>
    /\ Watch

\* Another module: the saga of a payment writes one balance.
Pay(x) ==
    /\ \E b \in Balances \ {x.balance} :
          accounts' = (accounts \ {x}) \cup {[x EXCEPT !.balance = b]}
    /\ UNCHANGED <<owner, cmd, pc, seen, answer>>
    /\ Watch

Next ==
    \/ \E r \in Requests :
          \/ Receive(r) \/ Find(r)
          \/ SaveAccount(r) \/ UpdateAccount(r) \/ DeleteKey(r)
          \/ CallFails(r) \/ Crash(r)
    \/ \E x \in accounts : Block(x) \/ Pay(x)

Spec == Init /\ [][Next]_vars
-----------------------------------------------------------------------------
(* Properties *)

\* Two requests of a user without an account both find none; still one user has
\* one account.
OneAccountPerUser ==
    \A x, y \in accounts : x.user = y.user => x = y

\* A key leaves its account only by a removal its own user asked for, however
\* late the DELETE comes: not by somebody registering it, and not by the removal
\* of an owner it had before.
KeyIsNotTaken ==
    [][\A k \in Keys :
          owner[k] \notin {None, owner'[k]} =>
              /\ owner'[k] = None
              /\ \E r \in Requests : /\ pc'[r] # pc[r]
                                     /\ cmd[r].op = "remove" /\ cmd[r].key = k
                                     /\ seen[r].row.id = owner[k]]_vars

Directory == INSTANCE KeyDirectory
                 WITH Holders <- Id, Limit <- KeyLimit, Nobody <- None, Opening <- OpeningOwner

\* Registration r does what it decided on the aggregate it has read.
Ends(r) == pc[r] = "update" /\ pc'[r] # "update"

\* However many handlers overlap, a step that is none of the directory's - that
\* gives two keys, or one too many - is the end of a registration whose account
\* or keys somebody changed after it read them.
OnlyRacesBreakTheDirectory ==
    [][Directory!Next \/ owner' = owner \/ \E r \in overtaken : Ends(r)]_vars

\* A registration that writes back the whole account changes nothing in it,
\* neither its balance nor its status, unless one of them changed meanwhile.
OnlyRacesLoseWrites ==
    [][\A r \in Requests \ overtaken : Ends(r) => accounts' = accounts]_vars
=============================================================================
