--------------------------- MODULE AccountsProofs ---------------------------
(***************************************************************************)
(* Theorems about Accounts, for any number of requests, users and keys.    *)
(*                                                                         *)
(* AccountInv is inductive however many handlers overlap.  That what a     *)
(* registration has read is still so is known of those nobody overtook     *)
(* (OvertakenInv).                                                         *)
(***************************************************************************)
EXTENDS Accounts, TLAPS

\* Each await belongs to one command, and the two late ones to an aggregate.
ControlInv ==
    \A r \in Requests :
        /\ pc[r] \in InFlight => cmd[r] \in Command
        /\ pc[r] = "save" => cmd[r].op = "open"
        /\ pc[r] = "update" => cmd[r].op = "register" /\ seen[r] \in Aggregate
        /\ pc[r] = "delete" => cmd[r].op = "remove" /\ seen[r] \in Aggregate

\* An account exists only once its creator is done, so no id is used again.
CreatorInv == \A x \in accounts : x.id \in Requests => pc[x.id] = "done"

IdInv == \A x, y \in accounts : x.id = y.id => x.user = y.user

\* The account that was read is still there, and still belongs to its user.
SeenInv ==
    \A r \in Requests : pc[r] \in {"update", "delete"} =>
        /\ \E x \in accounts : x.id = seen[r].row.id
        /\ \A x \in accounts : x.id = seen[r].row.id => x.user = seen[r].row.user

AccountInv == TypeOK /\ OneAccountPerUser /\ ControlInv /\ CreatorInv /\ IdInv /\ SeenInv
-----------------------------------------------------------------------------
LEMMA CommandParts ==
    ASSUME NEW c \in Command
    PROVE  /\ c.user \in Users
           /\ c.op \in {"open", "register", "remove"}
           /\ c.op # "open" => c.key \in Keys
    BY DEF Command

LEMMA InitAccountInv == Init => AccountInv
  <1> SUFFICES ASSUME Init PROVE AccountInv
    OBVIOUS
  <1>1. \A x \in OpeningRows : x \in Row
    BY AccountsAssumption DEF Row, Id
  <1>2. \A x \in accounts : x.id \notin Requests
    BY AccountsAssumption DEF Init
  <1>3. TypeOK
    BY <1>1, AccountsAssumption DEF Init, TypeOK, Id
  <1>4. OneAccountPerUser /\ IdInv
    BY AccountsAssumption DEF Init, OneAccountPerUser, IdInv
  <1> QED BY <1>2, <1>3, <1>4 DEF Init, AccountInv, ControlInv, CreatorInv, IdInv, SeenInv, InFlight

LEMMA ReplyTyped ==
    ASSUME TypeOK, NEW r \in Requests, Reply(r, "opened") \/ Reply(r, "registered")
           \/ Reply(r, "removed") \/ Reply(r, "refused") \/ Reply(r, "error")
    PROVE  /\ pc' = [pc EXCEPT ![r] = "done"]
           /\ pc' \in [Requests -> {"idle", "done", "crashed"} \cup InFlight]
           /\ answer' \in [Requests -> {"none", "opened", "registered", "removed", "refused", "error"}]
    BY DEF TypeOK, Reply, Goto

\* What Find leaves in memory and where the handler goes on.
LEMMA FindResult ==
    ASSUME AccountInv, NEW r \in Requests, Find(r)
    PROVE  /\ UNCHANGED <<accounts, owner, cmd, overtaken>>
           /\ TypeOK'
           /\ \/ /\ pc' = [pc EXCEPT ![r] = "done"] /\ seen' = seen
              \/ /\ pc' = [pc EXCEPT ![r] = "save"] /\ seen' = seen /\ cmd[r].op = "open"
              \/ \E row \in accounts, keys \in SUBSET Keys :
                    /\ seen' = [seen EXCEPT ![r] = [row |-> row, keys |-> keys]]
                    /\ \/ /\ pc' = [pc EXCEPT ![r] = "update"] /\ cmd[r].op = "register"
                          /\ keys = KeysOf(row.id) \cup {cmd[r].key}
                          /\ Cardinality(KeysOf(row.id)) < KeyLimit
                       \/ pc' = [pc EXCEPT ![r] = "delete"] /\ cmd[r].op = "remove"
  <1> DEFINE c == cmd[r]
             rows == AccountOf(c.user)
  <1>t. TypeOK /\ c \in Command /\ pc[r] = "find"
    BY DEF AccountInv, ControlInv, Find, InFlight
  <1>u. UNCHANGED <<accounts, owner, cmd, overtaken>>
    BY DEF Find
  <1>1. CASE c.op = "open" /\ rows = {} /\ Goto(r, "save") /\ UNCHANGED <<seen, answer>>
    BY <1>1, <1>t, <1>u DEF TypeOK, Goto, InFlight
  <1>2. CASE Reply(r, "refused") /\ UNCHANGED seen
    BY <1>2, <1>t, <1>u, ReplyTyped DEF TypeOK
  <1>3. ASSUME NEW row \in rows, c.op = "register",
               MayRegister([row |-> row, keys |-> KeysOf(row.id)], c),
               seen' = [seen EXCEPT ![r] = [row |-> row, keys |-> KeysOf(row.id) \cup {c.key}]],
               Goto(r, "update"), UNCHANGED answer
        PROVE  /\ TypeOK'
               /\ row \in accounts
               /\ KeysOf(row.id) \cup {c.key} \in SUBSET Keys
               /\ pc' = [pc EXCEPT ![r] = "update"]
               /\ Cardinality(KeysOf(row.id)) < KeyLimit
    <2>1. row \in accounts /\ row \in Row /\ KeysOf(row.id) \cup {c.key} \in SUBSET Keys
      BY <1>3, <1>t, CommandParts DEF AccountOf, TypeOK, KeysOf
    <2>2. [row |-> row, keys |-> KeysOf(row.id) \cup {c.key}] \in Aggregate
      BY <2>1 DEF Aggregate
    <2>3. pc' = [pc EXCEPT ![r] = "update"] /\ pc' \in [Requests -> {"idle", "done", "crashed"} \cup InFlight]
      BY <1>3, <1>t DEF TypeOK, Goto, InFlight
    <2>4. seen' \in [Requests -> Aggregate \cup {None}]
      BY <1>3, <1>t, <2>2 DEF TypeOK
    <2>5. Cardinality(KeysOf(row.id)) < KeyLimit
      BY <1>3 DEF MayRegister
    <2> QED BY <2>1, <2>3, <2>4, <2>5, <1>3, <1>t, <1>u DEF TypeOK
  <1>4. ASSUME NEW row \in rows, c.op = "remove",
               seen' = [seen EXCEPT ![r] = [row |-> row, keys |-> KeysOf(row.id) \ {c.key}]],
               Goto(r, "delete"), UNCHANGED answer
        PROVE  /\ TypeOK'
               /\ row \in accounts
               /\ KeysOf(row.id) \ {c.key} \in SUBSET Keys
               /\ pc' = [pc EXCEPT ![r] = "delete"]
    <2>1. row \in accounts /\ row \in Row /\ KeysOf(row.id) \ {c.key} \in SUBSET Keys
      BY <1>4, <1>t DEF AccountOf, TypeOK, KeysOf
    <2>2. [row |-> row, keys |-> KeysOf(row.id) \ {c.key}] \in Aggregate
      BY <2>1 DEF Aggregate
    <2>3. pc' = [pc EXCEPT ![r] = "delete"] /\ pc' \in [Requests -> {"idle", "done", "crashed"} \cup InFlight]
      BY <1>4, <1>t DEF TypeOK, Goto, InFlight
    <2>4. seen' \in [Requests -> Aggregate \cup {None}]
      BY <1>4, <1>t, <2>2 DEF TypeOK
    <2> QED BY <2>1, <2>3, <2>4, <1>4, <1>t, <1>u DEF TypeOK
  <1>5. \/ c.op = "open" /\ rows = {} /\ Goto(r, "save") /\ UNCHANGED <<seen, answer>>
        \/ Reply(r, "refused") /\ UNCHANGED seen
        \/ \E row \in rows :
              \/ /\ c.op = "register" /\ MayRegister([row |-> row, keys |-> KeysOf(row.id)], c)
                 /\ seen' = [seen EXCEPT ![r] = [row |-> row, keys |-> KeysOf(row.id) \cup {c.key}]]
                 /\ Goto(r, "update") /\ UNCHANGED answer
              \/ /\ c.op = "remove"
                 /\ seen' = [seen EXCEPT ![r] = [row |-> row, keys |-> KeysOf(row.id) \ {c.key}]]
                 /\ Goto(r, "delete") /\ UNCHANGED answer
    BY DEF Find
  <1>6. CASE \E row \in rows :
              /\ c.op = "register" /\ MayRegister([row |-> row, keys |-> KeysOf(row.id)], c)
              /\ seen' = [seen EXCEPT ![r] = [row |-> row, keys |-> KeysOf(row.id) \cup {c.key}]]
              /\ Goto(r, "update") /\ UNCHANGED answer
    BY <1>6, <1>3, <1>u
  <1>7. CASE \E row \in rows :
              /\ c.op = "remove"
              /\ seen' = [seen EXCEPT ![r] = [row |-> row, keys |-> KeysOf(row.id) \ {c.key}]]
              /\ Goto(r, "delete") /\ UNCHANGED answer
    BY <1>7, <1>4, <1>u
  <1> QED BY <1>1, <1>2, <1>5, <1>6, <1>7

\* A handler's three writes, whatever the client is told of them.
LEMMA WriteResult ==
    ASSUME AccountInv, NEW r \in Requests, SaveAccount(r) \/ UpdateAccount(r) \/ DeleteKey(r)
    PROVE  /\ TypeOK'
           /\ Watch
           /\ UNCHANGED <<cmd, seen>>
           /\ pc[r] \in {"save", "update", "delete"} /\ pc' = [pc EXCEPT ![r] = "done"]
           /\ \/ pc[r] = "save" /\ Create(r)
              \/ pc[r] = "update" /\ Update(r)
              \/ pc[r] = "delete" /\ DeletePixKey(r)
  <1>t. TypeOK /\ r \in Id
    BY DEF AccountInv, Id
  <1>c. cmd[r] \in Command /\ cmd[r].user \in Users
    BY CommandParts DEF AccountInv, ControlInv, InFlight, SaveAccount, UpdateAccount, DeleteKey
  <1>r. /\ pc' = [pc EXCEPT ![r] = "done"]
        /\ pc' \in [Requests -> {"idle", "done", "crashed"} \cup InFlight]
        /\ answer' \in [Requests -> {"none", "opened", "registered", "removed", "refused", "error"}]
    BY <1>t, ReplyTyped DEF SaveAccount, UpdateAccount, DeleteKey
  <1>u. UNCHANGED <<cmd, seen>> /\ Watch
    BY DEF SaveAccount, UpdateAccount, DeleteKey
  <1>w. overtaken' \subseteq Requests
    BY <1>u DEF Watch
  <1>1. CASE SaveAccount(r)
    <2>1. Opened(r) \in Row
      BY <1>t, <1>c, AccountsAssumption DEF Opened, Row
    <2>2. accounts' \subseteq Row /\ owner' \in [Keys -> Id \cup {None}]
      BY <1>1, <1>t, <2>1 DEF SaveAccount, Create, TypeOK
    <2> QED BY <1>1, <1>r, <1>u, <1>w, <1>t, <2>2 DEF SaveAccount, TypeOK
  <1>2. CASE UpdateAccount(r)
    <2>1. seen[r] \in Aggregate
      BY <1>2 DEF AccountInv, ControlInv, UpdateAccount
    <2>2. seen[r].row \in Row /\ seen[r].row.id \in Id
      BY <2>1 DEF Aggregate, Row
    <2>3. accounts' \subseteq Row
      BY <1>2, <1>t, <2>2 DEF UpdateAccount, Update, TypeOK
    <2>4. owner' \in [Keys -> Id \cup {None}]
      BY <1>2, <1>t, <2>2 DEF UpdateAccount, Update, Upserted, TypeOK
    <2> QED BY <1>2, <1>r, <1>u, <1>w, <1>t, <2>3, <2>4 DEF UpdateAccount, TypeOK
  <1>3. CASE DeleteKey(r)
    <2>1. accounts' \subseteq Row /\ owner' \in [Keys -> Id \cup {None}]
      BY <1>3, <1>t DEF DeleteKey, DeletePixKey, TypeOK
    <2> QED BY <1>3, <1>r, <1>u, <1>w, <1>t, <2>1 DEF DeleteKey, TypeOK
  <1> QED BY <1>1, <1>2, <1>3

\* What the steps that touch no table do.
LEMMA QuietResult ==
    ASSUME AccountInv, NEW r \in Requests, Receive(r) \/ CallFails(r) \/ Crash(r)
    PROVE  /\ TypeOK'
           /\ UNCHANGED <<accounts, owner, seen>>
           /\ \/ /\ pc[r] = "idle" /\ pc' = [pc EXCEPT ![r] = "find"]
                 /\ overtaken' = overtaken
                 /\ Cardinality({q \in Requests : pc[q] \in InFlight}) < MaxInFlight
                 /\ \E c \in Command : cmd' = [cmd EXCEPT ![r] = c]
              \/ /\ pc[r] \in InFlight /\ cmd' = cmd /\ Watch
                 /\ \E label \in {"done", "crashed"} : pc' = [pc EXCEPT ![r] = label]
  <1>t. TypeOK
    BY DEF AccountInv
  <1>1. CASE Receive(r)
    <2>1. \E c \in Command : cmd' = [cmd EXCEPT ![r] = c]
      BY <1>1, AccountsAssumption DEF Receive
    <2>2. cmd' \in [Requests -> Command \cup {None}]
      BY <2>1, <1>t DEF TypeOK
    <2> QED BY <1>1, <1>t, <2>1, <2>2 DEF Receive, Goto, TypeOK, InFlight
  <1>2. CASE CallFails(r)
    BY <1>2, <1>t, ReplyTyped DEF CallFails, Watch, TypeOK
  <1>3. CASE Crash(r)
    BY <1>3, <1>t DEF Crash, Goto, Watch, TypeOK
  <1> QED BY <1>1, <1>2, <1>3

\* What happens to an account from outside.
LEMMA ChangeResult ==
    ASSUME AccountInv, NEW b \in accounts, Block(b) \/ Pay(b)
    PROVE  /\ TypeOK'
           /\ Watch
           /\ UNCHANGED <<owner, cmd, pc, seen>>
           /\ \E row \in Row : /\ row.id = b.id /\ row.user = b.user
                              /\ accounts' = (accounts \ {b}) \cup {row}
  <1>t. TypeOK /\ b \in Row
    BY DEF AccountInv, TypeOK
  <1>1. \E row \in Row : /\ row.id = b.id /\ row.user = b.user
                         /\ accounts' = (accounts \ {b}) \cup {row}
    <2>1. CASE Block(b)
      <3>1. /\ [b EXCEPT !.status = "BLOCKED"] \in Row
            /\ [b EXCEPT !.status = "BLOCKED"].id = b.id
            /\ [b EXCEPT !.status = "BLOCKED"].user = b.user
        BY <1>t DEF Row
      <3> QED BY <2>1, <3>1 DEF Block
    <2>2. CASE Pay(b)
      <3>1. PICK m \in Balances : accounts' = (accounts \ {b}) \cup {[b EXCEPT !.balance = m]}
        BY <2>2 DEF Pay
      <3>2. /\ [b EXCEPT !.balance = m] \in Row
            /\ [b EXCEPT !.balance = m].id = b.id
            /\ [b EXCEPT !.balance = m].user = b.user
        BY <1>t DEF Row
      <3> QED BY <3>1, <3>2
    <2> QED BY <2>1, <2>2
  <1>2. Watch /\ UNCHANGED <<owner, cmd, pc, seen, answer>>
    BY DEF Block, Pay
  <1>3. overtaken' \subseteq Requests
    BY <1>2 DEF Watch
  <1> QED BY <1>1, <1>2, <1>3, <1>t DEF TypeOK
-----------------------------------------------------------------------------
\* Every step is one of these.
LEMMA Steps ==
    ASSUME [Next]_vars
    PROVE  \/ \E r \in Requests : Find(r)
           \/ \E r \in Requests : SaveAccount(r) \/ UpdateAccount(r) \/ DeleteKey(r)
           \/ \E r \in Requests : Receive(r) \/ CallFails(r) \/ Crash(r)
           \/ \E b \in accounts : Block(b) \/ Pay(b)
           \/ UNCHANGED vars
    BY DEF Next

LEMMA StepOneAccount == AccountInv /\ [Next]_vars => OneAccountPerUser'
  <1> SUFFICES ASSUME AccountInv, [Next]_vars, NEW x \in accounts', NEW y \in accounts',
                      x.user = y.user
               PROVE  x = y
    BY DEF OneAccountPerUser
  <1>t. TypeOK /\ OneAccountPerUser
    BY DEF AccountInv
  <1>0. CASE accounts' = accounts
    BY <1>0, <1>t DEF OneAccountPerUser
  <1>1. ASSUME NEW r \in Requests, SaveAccount(r) \/ UpdateAccount(r) \/ DeleteKey(r)
        PROVE  x = y
    <2>1. CASE pc[r] = "save" /\ Create(r)
      BY <2>1, <1>t DEF Create, AccountOf, Opened, OneAccountPerUser
    <2>2. CASE pc[r] = "update" /\ Update(r)
      <3>1. \A z \in accounts : z.id = seen[r].row.id => z.user = seen[r].row.user
        BY <2>2 DEF AccountInv, SeenInv
      <3>2. PICK x0 \in accounts : x = IF x0.id = seen[r].row.id THEN seen[r].row ELSE x0
        BY <2>2 DEF Update
      <3>3. PICK y0 \in accounts : y = IF y0.id = seen[r].row.id THEN seen[r].row ELSE y0
        BY <2>2 DEF Update
      <3>4. x0.user = x.user /\ y0.user = y.user
        BY <3>1, <3>2, <3>3
      <3>5. x0 = y0
        BY <3>4, <1>t DEF OneAccountPerUser
      <3> QED BY <3>2, <3>3, <3>5
    <2>3. CASE pc[r] = "delete" /\ DeletePixKey(r)
      BY <2>3, <1>0 DEF DeletePixKey
    <2> QED BY <1>1, <2>1, <2>2, <2>3, WriteResult
  <1>2. ASSUME NEW b \in accounts, Block(b) \/ Pay(b) PROVE x = y
    <2>1. PICK row \in Row : /\ row.id = b.id /\ row.user = b.user
                             /\ accounts' = (accounts \ {b}) \cup {row}
      BY <1>2, ChangeResult
    <2>2. CASE x = row /\ y # row
      BY <2>1, <2>2, <1>t DEF OneAccountPerUser
    <2>3. CASE x # row /\ y = row
      BY <2>1, <2>3, <1>t DEF OneAccountPerUser
    <2>4. CASE x # row /\ y # row
      BY <2>1, <2>4, <1>t DEF OneAccountPerUser
    <2> QED BY <2>2, <2>3, <2>4
  <1> QED BY <1>0, <1>1, <1>2, Steps, FindResult, QuietResult DEF vars

LEMMA StepControlInv == AccountInv /\ [Next]_vars => ControlInv'
  <1> SUFFICES ASSUME AccountInv, [Next]_vars PROVE ControlInv'
    OBVIOUS
  <1>t. TypeOK /\ ControlInv
    BY DEF AccountInv
  <1>1. ASSUME NEW r \in Requests, Find(r) PROVE ControlInv'
    <2>1. TypeOK' /\ cmd' = cmd
      BY <1>1, FindResult
    <2>2. cmd[r] \in Command /\ r \in Requests
      BY <1>1, <1>t DEF Find, ControlInv, InFlight
    <2>3. CASE pc' = [pc EXCEPT ![r] = "done"] /\ seen' = seen
      BY <2>1, <2>3, <1>t DEF ControlInv, TypeOK, InFlight
    <2>4. CASE pc' = [pc EXCEPT ![r] = "save"] /\ seen' = seen /\ cmd[r].op = "open"
      BY <2>1, <2>2, <2>4, <1>t DEF ControlInv, TypeOK, InFlight
    <2>5. ASSUME NEW row \in accounts, NEW keys \in SUBSET Keys,
                 seen' = [seen EXCEPT ![r] = [row |-> row, keys |-> keys]],
                 \/ pc' = [pc EXCEPT ![r] = "update"] /\ cmd[r].op = "register"
                 \/ pc' = [pc EXCEPT ![r] = "delete"] /\ cmd[r].op = "remove"
          PROVE  ControlInv'
      <3>1. [row |-> row, keys |-> keys] \in Aggregate
        BY <1>t DEF TypeOK, Aggregate
      <3> QED BY <2>1, <2>2, <2>5, <3>1, <1>t DEF ControlInv, TypeOK, InFlight
    <2> QED BY <1>1, <2>3, <2>4, <2>5, FindResult
  <1>2. ASSUME NEW r \in Requests, SaveAccount(r) \/ UpdateAccount(r) \/ DeleteKey(r)
        PROVE  ControlInv'
    BY <1>2, <1>t, WriteResult DEF ControlInv, TypeOK, InFlight
  <1>3. ASSUME NEW r \in Requests, Receive(r) \/ CallFails(r) \/ Crash(r)
        PROVE  ControlInv'
    <2>1. seen' = seen
      BY <1>3, QuietResult
    <2>2. CASE pc' = [pc EXCEPT ![r] = "find"] /\ \E c \in Command : cmd' = [cmd EXCEPT ![r] = c]
      BY <2>1, <2>2, <1>t DEF ControlInv, TypeOK, InFlight
    <2>3. CASE cmd' = cmd /\ \E label \in {"done", "crashed"} : pc' = [pc EXCEPT ![r] = label]
      BY <2>1, <2>3, <1>t DEF ControlInv, TypeOK, InFlight
    <2> QED BY <1>3, <2>2, <2>3, QuietResult
  <1>4. CASE UNCHANGED <<cmd, pc, seen>>
    BY <1>4, <1>t DEF ControlInv
  <1> QED BY <1>1, <1>2, <1>3, <1>4, Steps, ChangeResult DEF vars

\* No step takes an account away or gives its id to another user.
LEMMA AccountsStay ==
    ASSUME AccountInv, [Next]_vars
    PROVE  /\ \A x \in accounts : \E y \in accounts' : y.id = x.id
           /\ \A y \in accounts' :
                 \/ \E x \in accounts : x.id = y.id /\ x.user = y.user
                 \/ y.id \in Requests /\ pc[y.id] = "save" /\ pc'[y.id] = "done" /\ y.user = cmd[y.id].user
  <1>t. TypeOK
    BY DEF AccountInv
  <1>0. CASE accounts' = accounts
    BY <1>0
  <1>1. ASSUME NEW r \in Requests, SaveAccount(r) \/ UpdateAccount(r) \/ DeleteKey(r)
        PROVE  /\ \A x \in accounts : \E y \in accounts' : y.id = x.id
               /\ \A y \in accounts' :
                     \/ \E x \in accounts : x.id = y.id /\ x.user = y.user
                     \/ y.id \in Requests /\ pc[y.id] = "save" /\ pc'[y.id] = "done" /\ y.user = cmd[y.id].user
    <2>1. CASE pc[r] = "save" /\ Create(r)
      <3>1. pc'[r] = "done"
        BY <1>1, <1>t, WriteResult DEF TypeOK
      <3> QED BY <2>1, <3>1 DEF Create, Opened
    <2>2. CASE pc[r] = "update" /\ Update(r)
      <3>1. \A z \in accounts : z.id = seen[r].row.id => z.user = seen[r].row.user
        BY <2>2 DEF AccountInv, SeenInv
      <3> QED BY <2>2, <3>1 DEF Update
    <2>3. CASE pc[r] = "delete" /\ DeletePixKey(r)
      BY <2>3, <1>0 DEF DeletePixKey
    <2> QED BY <1>1, <2>1, <2>2, <2>3, WriteResult
  <1>2. ASSUME NEW b \in accounts, Block(b) \/ Pay(b)
        PROVE  /\ \A x \in accounts : \E y \in accounts' : y.id = x.id
               /\ \A y \in accounts' : \E x \in accounts : x.id = y.id /\ x.user = y.user
    <2>1. PICK row \in Row : /\ row.id = b.id /\ row.user = b.user
                             /\ accounts' = (accounts \ {b}) \cup {row}
      BY <1>2, ChangeResult
    <2> QED BY <2>1
  <1> QED BY <1>0, <1>1, <1>2, Steps, FindResult, QuietResult DEF vars

LEMMA StepCreatorInv == AccountInv /\ [Next]_vars => CreatorInv'
  <1> SUFFICES ASSUME AccountInv, [Next]_vars, NEW y \in accounts', y.id \in Requests
               PROVE  pc'[y.id] = "done"
    BY DEF CreatorInv
  <1>t. TypeOK /\ CreatorInv
    BY DEF AccountInv
  <1>1. CASE \E x \in accounts : x.id = y.id /\ x.user = y.user
    <2>1. pc[y.id] = "done"
      BY <1>1, <1>t DEF CreatorInv
    <2>2. ASSUME NEW r \in Requests, Find(r) PROVE pc[r] # "done" /\ \E l \in {"done", "save", "update", "delete"} : pc' = [pc EXCEPT ![r] = l]
      BY <2>2, FindResult DEF Find
    <2>3. ASSUME NEW r \in Requests, SaveAccount(r) \/ UpdateAccount(r) \/ DeleteKey(r)
          PROVE  pc' = [pc EXCEPT ![r] = "done"]
      BY <2>3, WriteResult
    <2>4. ASSUME NEW r \in Requests, Receive(r) \/ CallFails(r) \/ Crash(r)
          PROVE  pc[r] # "done" /\ \E l \in {"find", "done", "crashed"} : pc' = [pc EXCEPT ![r] = l]
      BY <2>4, QuietResult DEF InFlight
    <2> QED BY <2>1, <2>2, <2>3, <2>4, <1>t, Steps, ChangeResult DEF vars, TypeOK
  <1> QED BY <1>1, AccountsStay

LEMMA StepSeenInv == AccountInv /\ [Next]_vars => SeenInv'
  <1> SUFFICES ASSUME AccountInv, [Next]_vars, NEW r \in Requests, pc'[r] \in {"update", "delete"}
               PROVE  /\ \E x \in accounts' : x.id = seen'[r].row.id
                      /\ \A x \in accounts' : x.id = seen'[r].row.id => x.user = seen'[r].row.user
    BY DEF SeenInv
  <1>t. TypeOK /\ SeenInv /\ CreatorInv /\ IdInv
    BY DEF AccountInv
  <1>1. \/ pc[r] = pc'[r] /\ seen'[r] = seen[r]
        \/ /\ accounts' = accounts
           /\ \E row \in accounts, keys \in SUBSET Keys : seen'[r] = [row |-> row, keys |-> keys]
    <2>1. ASSUME NEW q \in Requests, Find(q) PROVE <1>1!:
      <3>1. /\ accounts' = accounts
            /\ \E label \in {"done", "save", "update", "delete"} : pc' = [pc EXCEPT ![q] = label]
            /\ \/ pc' \in {[pc EXCEPT ![q] = "done"], [pc EXCEPT ![q] = "save"]} /\ seen' = seen
               \/ \E row \in accounts, keys \in SUBSET Keys :
                     seen' = [seen EXCEPT ![q] = [row |-> row, keys |-> keys]]
        BY <2>1, FindResult
      <3>2. CASE r = q
        BY <3>1, <3>2, <1>t DEF TypeOK
      <3>3. CASE r # q
        BY <3>1, <3>3, <1>t DEF TypeOK
      <3> QED BY <3>2, <3>3
    <2>2. ASSUME NEW q \in Requests, SaveAccount(q) \/ UpdateAccount(q) \/ DeleteKey(q) PROVE <1>1!:
      BY <2>2, WriteResult, <1>t DEF TypeOK
    <2>3. ASSUME NEW q \in Requests, Receive(q) \/ CallFails(q) \/ Crash(q) PROVE <1>1!:
      BY <2>3, QuietResult, <1>t DEF TypeOK
    <2> QED BY <2>1, <2>2, <2>3, Steps, ChangeResult DEF vars
  <1>2. CASE pc[r] = pc'[r] /\ seen'[r] = seen[r]
    <2>1. /\ \E x \in accounts : x.id = seen[r].row.id
          /\ \A x \in accounts : x.id = seen[r].row.id => x.user = seen[r].row.user
      BY <1>2, <1>t DEF SeenInv
    <2>2. ASSUME NEW y \in accounts', y.id = seen[r].row.id
          PROVE  y.user = seen[r].row.user
      BY <2>1, <2>2, <1>t, AccountsStay DEF CreatorInv
    <2> QED BY <1>2, <2>1, <2>2, AccountsStay
  <1>3. CASE accounts' = accounts /\ \E row \in accounts, keys \in SUBSET Keys : seen'[r] = [row |-> row, keys |-> keys]
    <2>1. PICK row \in accounts, keys \in SUBSET Keys : seen'[r] = [row |-> row, keys |-> keys]
      BY <1>3
    <2>2. seen'[r].row = row
      BY <2>1
    <2>3. ASSUME NEW x \in accounts, x.id = row.id PROVE x.user = row.user
      BY <2>3, <1>t DEF IdInv
    <2> QED BY <1>3, <2>2, <2>3
  <1> QED BY <1>1, <1>2, <1>3

LEMMA StepIdInv == AccountInv /\ [Next]_vars => IdInv'
  BY AccountsStay DEF AccountInv, IdInv, CreatorInv

LEMMA StepAccountInv == AccountInv /\ [Next]_vars => AccountInv'
  <1>1. AccountInv /\ [Next]_vars => TypeOK'
    BY Steps, FindResult, WriteResult, QuietResult, ChangeResult DEF AccountInv, TypeOK, vars
  <1> QED BY <1>1, StepOneAccount, StepControlInv, StepCreatorInv, StepIdInv, StepSeenInv DEF AccountInv

LEMMA AccountInvAlways == Spec => []AccountInv
  BY InitAccountInv, StepAccountInv, PTL DEF Spec
-----------------------------------------------------------------------------
\* Tables, aggregates and answers keep their shape: in particular every key
\* belongs to an account, never to a user or to nothing that exists.
THEOREM TypeCorrect == Spec => []TypeOK
  <1>1. AccountInv => TypeOK
    BY DEF AccountInv
  <1> QED BY <1>1, AccountInvAlways, PTL

\* However many requests of one user open an account at once, and whichever
\* stale account row a registration writes back, a user has one account.
THEOREM OneAccount == Spec => []OneAccountPerUser
  <1>1. AccountInv => OneAccountPerUser
    BY DEF AccountInv
  <1> QED BY <1>1, AccountInvAlways, PTL

\* Only a removal by the account that has a key takes the key from it.
THEOREM KeysAreKept == Spec => KeyIsNotTaken
  <1>1. AccountInv /\ [Next]_vars =>
          [\A k \in Keys :
             owner[k] \notin {None, owner'[k]} =>
                 /\ owner'[k] = None
                 /\ \E r \in Requests : /\ pc'[r] # pc[r]
                                        /\ cmd[r].op = "remove" /\ cmd[r].key = k
                                        /\ seen[r].row.id = owner[k]]_vars
    <2> SUFFICES ASSUME AccountInv, [Next]_vars, NEW k \in Keys, owner[k] \notin {None, owner'[k]}
                 PROVE  /\ owner'[k] = None
                        /\ \E r \in Requests : /\ pc'[r] # pc[r]
                                               /\ cmd[r].op = "remove" /\ cmd[r].key = k
                                               /\ seen[r].row.id = owner[k]
      OBVIOUS
    <2>t. TypeOK /\ ControlInv
      BY DEF AccountInv
    <2>1. PICK r \in Requests : SaveAccount(r) \/ UpdateAccount(r) \/ DeleteKey(r)
      BY Steps, FindResult, QuietResult, ChangeResult DEF vars
    <2>2. ~(Create(r) \/ Update(r))
      BY <2>t DEF Create, Update, Upserted
    <2>3. pc[r] = "delete" /\ DeletePixKey(r) /\ pc' = [pc EXCEPT ![r] = "done"]
      BY <2>1, <2>2, WriteResult
    <2>4. cmd[r].op = "remove" /\ cmd[r].key \in Keys
      BY <2>3, <2>t, CommandParts DEF ControlInv, InFlight
    <2>5. k = cmd[r].key /\ owner[k] = seen[r].row.id /\ owner'[k] = None
      BY <2>3, <2>4, <2>t DEF DeletePixKey, TypeOK
    <2> QED BY <2>3, <2>4, <2>5, <2>t DEF TypeOK
  <1> QED BY <1>1, AccountInvAlways, PTL DEF Spec, KeyIsNotTaken
-----------------------------------------------------------------------------
\* What registration r has read of the keys is still so.
KeysAsRead(r) ==
    /\ seen[r].keys = KeysOf(seen[r].row.id) \cup {cmd[r].key}
    /\ Cardinality(KeysOf(seen[r].row.id)) < KeyLimit

\* It then adds its own key or nothing.
LEMMA UpdateGives ==
    ASSUME AccountInv, NEW r \in Requests, pc[r] = "update", KeysAsRead(r), Update(r)
    PROVE  Directory!Next \/ owner' = owner
  <1>t. /\ TypeOK /\ owner \in [Keys -> Id \cup {None}] /\ cmd[r].key \in Keys
        /\ seen[r].row.id \in Id
    BY CommandParts DEF AccountInv, TypeOK, ControlInv, InFlight, Aggregate, Row
  <1>1. \A k \in Keys : owner[k] = None /\ k \in seen[r].keys <=> owner[k] = None /\ k = cmd[r].key
    BY <1>t, AccountsAssumption DEF KeysAsRead, KeysOf
  <1>2. CASE owner[cmd[r].key] # None
    BY <1>1, <1>2, <1>t DEF Update, Upserted
  <1>3. CASE owner[cmd[r].key] = None
    <2>1. owner' = [owner EXCEPT ![cmd[r].key] = seen[r].row.id]
      BY <1>1, <1>3, <1>t DEF Update, Upserted
    <2>2. Directory!Cardinality(Directory!KeysOf(seen[r].row.id)) < KeyLimit
      <3>1. Directory!KeysOf(seen[r].row.id) = KeysOf(seen[r].row.id)
        BY DEF KeysOf, Directory!KeysOf
      <3>2. Directory!Cardinality(KeysOf(seen[r].row.id)) = Cardinality(KeysOf(seen[r].row.id))
        BY DEF Cardinality, Directory!Cardinality
      <3> QED BY <3>1, <3>2 DEF KeysAsRead
    <2>3. Directory!Give(cmd[r].key, seen[r].row.id)
      BY <2>1, <2>2, <1>3 DEF Directory!Give
    <2> QED BY <2>3, <1>t DEF Directory!Next
  <1> QED BY <1>2, <1>3

LEMMA DeleteGives ==
    ASSUME AccountInv, NEW r \in Requests, pc[r] = "delete", DeletePixKey(r)
    PROVE  Directory!Next \/ owner' = owner
  <1>t. TypeOK /\ ControlInv
    BY DEF AccountInv
  <1>1. cmd[r].key \in Keys /\ (owner[cmd[r].key] # None \/ owner' = owner)
    BY <1>t, CommandParts DEF DeletePixKey, ControlInv, InFlight, TypeOK, Aggregate, Row, Id
  <1> QED BY <1>t, <1>1 DEF DeletePixKey, Directory!Next, Directory!GiveBack, TypeOK
-----------------------------------------------------------------------------
\* A registration nobody overtook finds the account and the keys as it read them.
OvertakenInv ==
    \A r \in Requests : pc[r] = "update" /\ r \notin overtaken =>
        seen[r].row \in accounts /\ KeysAsRead(r)

LEMMA StepOvertakenInv == AccountInv /\ OvertakenInv /\ [Next]_vars => OvertakenInv'
  <1> SUFFICES ASSUME AccountInv, OvertakenInv, [Next]_vars,
                      NEW r \in Requests, pc'[r] = "update", r \notin overtaken'
               PROVE  (seen[r].row)' \in accounts' /\ KeysAsRead(r)'
    BY DEF OvertakenInv
  <1>t. TypeOK
    BY DEF AccountInv
  <1>1. ASSUME pc[r] = "update", r \notin overtaken, cmd'[r] = cmd[r], seen'[r] = seen[r],
               RowsOf(seen[r].row.id)' = RowsOf(seen[r].row.id),
               KeysOf(seen[r].row.id)' = KeysOf(seen[r].row.id)
        PROVE  (seen[r].row)' \in accounts' /\ KeysAsRead(r)'
    <2>1. seen[r].row \in accounts /\ KeysAsRead(r)
      BY <1>1 DEF OvertakenInv
    <2>2. seen[r].row \in accounts'
      BY <2>1, <1>1 DEF RowsOf
    <2>3. Cardinality(KeysOf(seen[r].row.id)') = Cardinality(KeysOf(seen[r].row.id))
      BY <1>1
    <2> QED BY <2>1, <2>2, <2>3, <1>1 DEF KeysAsRead
  <1>2. ASSUME Watch, pc[r] = "update", cmd' = cmd, seen' = seen
        PROVE  (seen[r].row)' \in accounts' /\ KeysAsRead(r)'
    <2>1. /\ r \notin overtaken
          /\ RowsOf(seen[r].row.id)' = RowsOf(seen[r].row.id)
          /\ KeysOf(seen[r].row.id)' = KeysOf(seen[r].row.id)
      BY <1>2 DEF Watch
    <2> QED BY <2>1, <1>1, <1>2
  <1>3. ASSUME UNCHANGED <<accounts, owner, overtaken>>, pc[r] = "update",
               cmd'[r] = cmd[r], seen'[r] = seen[r]
        PROVE  (seen[r].row)' \in accounts' /\ KeysAsRead(r)'
    <2>1. /\ RowsOf(seen[r].row.id)' = RowsOf(seen[r].row.id)
          /\ KeysOf(seen[r].row.id)' = KeysOf(seen[r].row.id)
      BY <1>3 DEF RowsOf, KeysOf
    <2> QED BY <2>1, <1>1, <1>3
  <1>4. ASSUME NEW q \in Requests, Find(q)
        PROVE  (seen[r].row)' \in accounts' /\ KeysAsRead(r)'
    <2>0. UNCHANGED <<accounts, owner, cmd, overtaken>>
      BY <1>4, FindResult
    <2>1. CASE q # r
      <3>1. pc'[r] = pc[r] /\ seen'[r] = seen[r]
        BY <1>4, <2>1, <1>t, FindResult DEF TypeOK
      <3> QED BY <3>1, <2>0, <1>3
    <2>2. CASE q = r
      <3>1. PICK row \in accounts, keys \in SUBSET Keys :
               /\ seen' = [seen EXCEPT ![r] = [row |-> row, keys |-> keys]]
               /\ keys = KeysOf(row.id) \cup {cmd[r].key}
               /\ Cardinality(KeysOf(row.id)) < KeyLimit
        BY <1>4, <2>2, <1>t, FindResult DEF TypeOK
      <3>2. seen'[r].row = row /\ seen'[r].keys = keys
        BY <3>1, <1>t DEF TypeOK
      <3>3. KeysOf(seen[r].row.id)' = KeysOf(row.id)
        BY <3>2, <2>0 DEF KeysOf
      <3>4. Cardinality(KeysOf(seen[r].row.id)') < KeyLimit
        BY <3>1, <3>3
      <3> QED BY <3>1, <3>2, <3>3, <3>4, <2>0 DEF KeysAsRead
    <2> QED BY <2>1, <2>2
  <1>5. ASSUME NEW q \in Requests, SaveAccount(q) \/ UpdateAccount(q) \/ DeleteKey(q)
        PROVE  (seen[r].row)' \in accounts' /\ KeysAsRead(r)'
    BY <1>5, <1>2, <1>t, WriteResult DEF TypeOK
  <1>6. ASSUME NEW q \in Requests, Receive(q) \/ CallFails(q) \/ Crash(q)
        PROVE  (seen[r].row)' \in accounts' /\ KeysAsRead(r)'
    <2>1. CASE /\ pc[q] = "idle" /\ pc' = [pc EXCEPT ![q] = "find"] /\ overtaken' = overtaken
               /\ \E c \in Command : cmd' = [cmd EXCEPT ![q] = c]
      <3>1. q # r /\ pc[r] = "update" /\ cmd'[r] = cmd[r]
        BY <2>1, <1>t DEF TypeOK
      <3> QED BY <1>6, <2>1, <3>1, <1>3, QuietResult
    <2>2. CASE cmd' = cmd /\ Watch /\ \E label \in {"done", "crashed"} : pc' = [pc EXCEPT ![q] = label]
      <3>1. pc[r] = "update"
        BY <2>2, <1>t DEF TypeOK
      <3> QED BY <1>6, <2>2, <3>1, <1>2, QuietResult
    <2> QED BY <1>6, <2>1, <2>2, QuietResult
  <1>7. ASSUME NEW b \in accounts, Block(b) \/ Pay(b)
        PROVE  (seen[r].row)' \in accounts' /\ KeysAsRead(r)'
    BY <1>7, <1>2, ChangeResult
  <1>8. CASE UNCHANGED vars
    BY <1>8, <1>3 DEF vars
  <1> QED BY <1>4, <1>5, <1>6, <1>7, <1>8, Steps

LEMMA OvertakenInvAlways == Spec => []OvertakenInv
  <1>1. Init => OvertakenInv
    BY DEF Init, OvertakenInv
  <1> QED BY <1>1, StepOvertakenInv, AccountInvAlways, PTL DEF Spec

\* Handlers that overlap give out two keys at once, or one too many, only when
\* the account or its keys changed between the read and the write of a
\* registration.
THEOREM DirectoryUnlessOvertaken == Spec => OnlyRacesBreakTheDirectory
  <1>1. AccountInv /\ OvertakenInv /\ [Next]_vars =>
            [Directory!Next \/ owner' = owner \/ \E r \in overtaken : Ends(r)]_vars
    <2> SUFFICES ASSUME AccountInv, OvertakenInv, [Next]_vars
                 PROVE  Directory!Next \/ owner' = owner \/ \E r \in overtaken : Ends(r)
      OBVIOUS
    <2>1. ASSUME NEW r \in Requests, pc[r] = "update", Update(r), pc' = [pc EXCEPT ![r] = "done"]
          PROVE  Directory!Next \/ owner' = owner \/ \E q \in overtaken : Ends(q)
      <3>1. CASE r \in overtaken
        BY <2>1, <3>1 DEF Ends, AccountInv, TypeOK
      <3>2. CASE r \notin overtaken
        BY <2>1, <3>2, UpdateGives DEF OvertakenInv
      <3> QED BY <3>1, <3>2
    <2>2. ASSUME NEW r \in Requests, pc[r] = "save", Create(r) PROVE owner' = owner
      BY <2>2 DEF Create
    <2> QED BY <2>1, <2>2, DeleteGives, Steps, FindResult, WriteResult, QuietResult, ChangeResult DEF vars
  <1> QED BY <1>1, OvertakenInvAlways, AccountInvAlways, PTL DEF Spec, OnlyRacesBreakTheDirectory

\* A registration writes back the whole account row, and still changes no
\* balance and no status unless the row changed after it was read.
THEOREM NoLostWriteUnlessOvertaken == Spec => OnlyRacesLoseWrites
  <1>1. AccountInv /\ OvertakenInv /\ [Next]_vars =>
            [\A r \in Requests \ overtaken : Ends(r) => accounts' = accounts]_vars
    <2> SUFFICES ASSUME AccountInv, OvertakenInv, [Next]_vars,
                        NEW r \in Requests, r \notin overtaken, Ends(r)
                 PROVE  accounts' = accounts
      OBVIOUS
    <2>t. TypeOK /\ IdInv /\ OneAccountPerUser /\ seen[r].row \in accounts
      BY DEF AccountInv, OvertakenInv, Ends
    <2>1. CASE Update(r)
      <3>1. \A x \in accounts : x.id = seen[r].row.id => x = seen[r].row
        BY <2>t DEF IdInv, OneAccountPerUser
      <3> QED BY <2>1, <3>1 DEF Update
    <2>2. ASSUME NEW q \in Requests, SaveAccount(q) \/ UpdateAccount(q) \/ DeleteKey(q)
          PROVE  accounts' = accounts
      <3>1. q = r /\ pc[r] = "update"
        BY <2>2, <2>t, WriteResult DEF Ends, TypeOK
      <3> QED BY <2>1, <2>2, <3>1, WriteResult
    <2>3. ASSUME NEW b \in accounts, Block(b) \/ Pay(b) PROVE FALSE
      BY <2>3, ChangeResult DEF Ends
    <2> QED BY <2>2, <2>3, Steps, FindResult, QuietResult DEF vars
  <1> QED BY <1>1, OvertakenInvAlways, AccountInvAlways, PTL DEF Spec, OnlyRacesLoseWrites
=============================================================================
