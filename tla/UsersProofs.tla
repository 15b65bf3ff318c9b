---------------------------- MODULE UsersProofs ----------------------------
(* What holds of Users for every set of requests, addresses and passwords. *)
EXTENDS Users, TLAPS

-----------------------------------------------------------------------------
(* Type correctness.  A registration inserts what it was sent, so the table  *)
(* is well typed because Receive lets only fit commands this far.            *)

Checked ==
    \A r \in Requests :
        /\ pc[r] \in InFlight => cmd[r] # None /\ cmd[r].email # None
        /\ pc[r] \in Registering => ~Missing(cmd[r]) /\ ~Unfit(cmd[r])
        /\ pc[r] = "compare" => found[r] # None

TypeInv == TypeOK /\ Checked

LEMMA CommandParts ==
    ASSUME NEW c \in Commands
    PROVE  /\ c \in Command
           /\ c # None
           /\ c.email # None =>
                /\ c.email \in Address /\ Lower(c.email) \in Address
                /\ Normal(c.email) \in Address
                /\ ~Normal(c.email).upper /\ ~Normal(c.email).spaces
                /\ Normal(c.email).name = c.email.name
  <1>1. c \in Command
    BY UsersAssumption
  <1>2. c.email # None => c.email \in Address
    BY <1>1 DEF Command
  <1>3. ASSUME NEW e \in Address
        PROVE  /\ Lower(e) \in Address /\ Normal(e) \in Address
               /\ ~Normal(e).upper /\ ~Normal(e).spaces /\ Normal(e).name = e.name
    BY DEF Address, Lower, Normal
  <1> QED BY <1>1, <1>2, <1>3, UsersAssumption

LEMMA ReplyTyped ==
    ASSUME TypeOK, NEW r \in Requests, NEW code \in Code, NEW id \in Requests \cup {None},
           Reply(r, code, id)
    PROVE  /\ pc' = [pc EXCEPT ![r] = "done"]
           /\ answer' = [answer EXCEPT ![r] = [code |-> code, user |-> id]]
           /\ answer' \in [Requests -> [code : Code, user : Requests \cup {None}]]
  BY DEF Reply, Goto, TypeOK

\* What each step does to the control state, the same for all properties: one
\* request moves, commands are there from the first step on and stay.
Arcs ==
    {<<"idle", "findEmail">>, <<"findEmail", "hash">>, <<"hash", "save">>,
     <<"idle", "lookup">>, <<"lookup", "compare">>}
    \cup ({"idle"} \cup InFlight) \X {"done"}
    \cup InFlight \X {"crashed"}

LEMMA Moves ==
    ASSUME TypeOK, NEW r \in Requests, Step(r)
    PROVE  /\ pc' = [pc EXCEPT ![r] = pc'[r]]
           /\ <<pc[r], pc'[r]>> \in Arcs
           /\ Receive(r) \/ (cmd' = cmd /\ before' = before /\ pc[r] \in InFlight)
           /\ pc'[r] \in {"findEmail", "lookup"} => Receive(r)
  <1> USE DEF Goto, Reply, Arcs, InFlight, Registering, LoggingIn
  <1>p. pc \in [Requests -> {"idle", "done", "crashed"} \cup InFlight]
    BY DEF TypeOK
  <1>1. CASE Receive(r)
    <2>1. pc[r] = "idle"
      BY <1>1 DEF Receive
    <2>2. PICK x \in {"findEmail", "lookup", "done"} : pc' = [pc EXCEPT ![r] = x]
      BY <1>1 DEF Receive
    <2>3. pc' = [pc EXCEPT ![r] = pc'[r]] /\ pc'[r] \in {"findEmail", "lookup", "done"}
      BY <1>p, <2>2
    <2>4. <<"idle", pc'[r]>> \in Arcs
      BY <2>3
    <2> QED BY <1>1, <2>1, <2>3, <2>4
  <1>2. CASE FindEmail(r) \/ Hash(r) \/ Save(r) \/ SaveUnacknowledged(r)
    BY <1>2, <1>p DEF FindEmail, Hash, Save, SaveUnacknowledged
  <1>3. CASE LookUp(r) \/ Compare(r)
    BY <1>3, <1>p DEF LookUp, Compare
  <1>4. CASE CallFails(r) \/ Crash(r)
    BY <1>4, <1>p DEF CallFails, Crash
  <1> QED BY <1>1, <1>2, <1>3, <1>4 DEF Step

\* What Receive leaves behind: the command, the rows a login starts from, and a
\* request that goes on only when its command is fit for it.
LEMMA Received ==
    ASSUME TypeOK, NEW r \in Requests, Receive(r)
    PROVE  /\ users' = users /\ found' = found
           /\ \E c \in Commands :
                /\ cmd' = [cmd EXCEPT ![r] = c]
                /\ before' = [before EXCEPT ![r] = {u \in users : c.kind = "login"}]
                /\ pc'[r] \in {"findEmail", "lookup", "done"}
                /\ pc'[r] = "findEmail" => ~Missing(c) /\ ~Unfit(c)
                /\ pc'[r] = "lookup" => ~Missing(c)
           /\ answer' = [answer EXCEPT ![r] = answer'[r]]
           /\ answer'[r] = answer[r] \/ answer'[r].code \in {"error", "rejected"}
           /\ answer'[r] \in [code : Code, user : Requests \cup {None}]
  <1>p. /\ pc \in [Requests -> {"idle", "done", "crashed"} \cup InFlight]
        /\ answer \in [Requests -> [code : Code, user : Requests \cup {None}]]
    BY DEF TypeOK
  <1>1. PICK c \in Commands :
           /\ cmd' = [cmd EXCEPT ![r] = c]
           /\ before' = [before EXCEPT ![r] = {u \in users : c.kind = "login"}]
           /\ \/ Missing(c) /\ Reply(r, "error", None)
              \/ ~Missing(c) /\ Unfit(c) /\ Reply(r, "rejected", None)
              \/ ~Missing(c) /\ ~Unfit(c) /\ Goto(r, "findEmail") /\ UNCHANGED answer
              \/ ~Missing(c) /\ Goto(r, "lookup") /\ UNCHANGED answer
    BY DEF Receive
  <1>2. /\ pc'[r] \in {"findEmail", "lookup", "done"}
        /\ pc'[r] = "findEmail" => ~Missing(c) /\ ~Unfit(c)
        /\ pc'[r] = "lookup" => ~Missing(c)
    BY <1>p, <1>1 DEF Goto, Reply
  <1>3. /\ answer' = [answer EXCEPT ![r] = answer'[r]]
        /\ answer'[r] = answer[r] \/ answer'[r].code \in {"error", "rejected"}
        /\ answer'[r] \in [code : Code, user : Requests \cup {None}]
    BY <1>p, <1>1 DEF Reply, Code
  <1> QED BY <1>1, <1>2, <1>3 DEF Receive

LEMMA StepChecked == TypeInv /\ [Next]_vars => Checked'
  <1> SUFFICES ASSUME TypeOK, Checked, [Next]_vars PROVE Checked'
    BY DEF TypeInv
  <1>t. /\ pc \in [Requests -> {"idle", "done", "crashed"} \cup InFlight]
        /\ cmd \in [Requests -> Commands \cup {None}]
        /\ found \in [Requests -> User \cup {None}]
    BY DEF TypeOK
  <1>1. CASE UNCHANGED <<cmd, pc, found>>
    BY <1>1 DEF Checked, Missing, Unfit, IsEmail
  <1>2. ASSUME NEW r \in Requests, Step(r) PROVE Checked'
    <2>1. /\ pc' = [pc EXCEPT ![r] = pc'[r]] /\ <<pc[r], pc'[r]>> \in Arcs
          /\ \A q \in Requests \ {r} : pc'[q] = pc[q]
      BY <1>2, <1>t, Moves
    <2>2. CASE Receive(r)
      <3>1. PICK c \in Commands :
               /\ cmd' = [cmd EXCEPT ![r] = c]
               /\ pc'[r] \in {"findEmail", "lookup", "done"}
               /\ pc'[r] = "findEmail" => ~Missing(c) /\ ~Unfit(c)
               /\ pc'[r] = "lookup" => ~Missing(c)
        BY <2>2, Received
      <3>2. /\ c # None
            /\ ~Missing(c) => c.email # None
        BY CommandParts DEF Missing
      <3>3. /\ pc'[r] \in InFlight => cmd'[r] # None /\ cmd'[r].email # None
            /\ pc'[r] \in Registering => ~Missing(cmd'[r]) /\ ~Unfit(cmd'[r])
            /\ pc'[r] # "compare"
        BY <1>t, <3>1, <3>2 DEF InFlight, Registering, LoggingIn
      <3>4. \A q \in Requests \ {r} : cmd'[q] = cmd[q] /\ found'[q] = found[q]
        BY <1>t, <2>2, <3>1, Received
      <3> QED BY <2>1, <3>3, <3>4 DEF Checked
    <2>3. CASE cmd' = cmd /\ pc[r] \in InFlight
      <3>1. pc'[r] \in Registering => pc[r] \in Registering \/ Receive(r)
        BY <1>2, <2>1, Moves DEF Arcs, Registering, InFlight, LoggingIn
      <3>2. pc'[r] = "compare" => found'[r] # None
        BY <1>2, <1>t, <2>1, UsersAssumption
           DEF Arcs, Registering, InFlight, LoggingIn, Step, Receive, FindEmail, Hash, Save,
               SaveUnacknowledged, LookUp, Compare, CallFails, Crash, Reply, Goto, TypeOK
      <3>3. \A q \in Requests \ {r} : found'[q] = found[q]
        BY <1>2, <1>t
           DEF Step, Receive, FindEmail, Hash, Save, SaveUnacknowledged, LookUp, Compare,
               CallFails, Crash
      <3>4. pc'[r] \in InFlight => pc[r] \in InFlight
        BY <2>3
      <3>5. CASE Receive(r)
        BY <2>2, <3>5
      <3>6. CASE ~Receive(r)
        BY <2>1, <2>3, <3>1, <3>2, <3>3, <3>6 DEF Checked
      <3> QED BY <3>5, <3>6
    <2> QED BY <1>2, <2>2, <2>3, Moves
  <1> QED BY <1>1, <1>2 DEF Next, Suspend, vars

LEMMA StepTypeOK == TypeInv /\ [Next]_vars => TypeOK'
  <1> SUFFICES ASSUME TypeOK, Checked, [Next]_vars PROVE TypeOK'
    BY DEF TypeInv
  <1> DEFINE L == {"idle", "done", "crashed"} \cup InFlight
             A == [code : Code, user : Requests \cup {None}]
  <1>t. /\ pc \in [Requests -> L]
        /\ cmd \in [Requests -> Commands \cup {None}]
        /\ found \in [Requests -> User \cup {None}]
        /\ before \in [Requests -> SUBSET User]
        /\ users \subseteq User
        /\ answer \in [Requests -> A]
    BY DEF TypeOK
  <1>0. CASE UNCHANGED vars
    BY <1>0 DEF vars, TypeOK
  <1>1. ASSUME NEW r \in Requests, Step(r) PROVE TypeOK'
    <2>1. pc' \in [Requests -> L]
      <3>1. pc' = [pc EXCEPT ![r] = pc'[r]] /\ <<pc[r], pc'[r]>> \in Arcs
        BY <1>1, Moves
      <3>2. pc'[r] \in L
        BY <3>1 DEF Arcs, InFlight, Registering, LoggingIn
      <3> QED BY <1>t, <3>1, <3>2
    <2>2. CASE Receive(r)
      <3>1. cmd' \in [Requests -> Commands \cup {None}] /\ before' \in [Requests -> SUBSET User]
        BY <2>2, <1>t, Received
      <3>2. answer' \in [Requests -> A]
        BY <2>2, <1>t, Received
      <3> QED BY <2>1, <2>2, <3>1, <3>2, Received DEF TypeOK
    <2>3. CASE FindEmail(r) \/ Hash(r) \/ CallFails(r) \/ Crash(r)
      <3>1. answer' \in [Requests -> A]
        BY <2>3, <1>t DEF FindEmail, Hash, CallFails, Crash, Reply, Code
      <3> QED BY <2>1, <2>3, <3>1 DEF FindEmail, Hash, CallFails, Crash, TypeOK
    <2>4. CASE Save(r) \/ SaveUnacknowledged(r)
      <3>1. answer' \in [Requests -> A]
        BY <2>4, <1>t DEF Save, SaveUnacknowledged, Reply, Code
      <3>2. ~Missing(cmd[r]) /\ ~Unfit(cmd[r]) /\ cmd[r] \in Commands /\ cmd[r].email # None
        BY <2>4, <1>t DEF Save, SaveUnacknowledged, Checked, Registering, InFlight
      <3>3. /\ Registered(r) \in User
            /\ IsEmail(Registered(r).email)
            /\ ~Registered(r).email.upper /\ ~Registered(r).email.spaces
        BY <3>2, CommandParts, UsersAssumption DEF Registered, User, Status, IsEmail, Unfit
      <3>4. users' = users \cup {Registered(r)}
        BY <2>4 DEF Save, SaveUnacknowledged, Insert
      <3> QED BY <2>1, <2>4, <3>1, <3>3, <3>4 DEF Save, SaveUnacknowledged, TypeOK
    <2>5. CASE LookUp(r) \/ Compare(r)
      <3>1. found[r] # None => found[r].id \in Requests
        BY <1>t DEF User
      <3>2. answer' \in [Requests -> A] /\ found' \in [Requests -> User \cup {None}]
        BY <2>5, <1>t, <3>1 DEF LookUp, Compare, Checked, Reply, Code
      <3> QED BY <2>1, <2>5, <3>2 DEF LookUp, Compare, TypeOK
    <2> QED BY <1>1, <2>2, <2>3, <2>4, <2>5 DEF Step
  <1>2. ASSUME NEW u \in users, Suspend(u) PROVE TypeOK'
    <2> DEFINE v == [u EXCEPT !.status = "SUSPENDED"]
    <2>1. v \in User /\ v.email = u.email
      BY <1>t DEF User, Status
    <2>2. users' = (users \ {u}) \cup {v}
      BY <1>2 DEF Suspend
    <2> HIDE DEF v
    <2> QED BY <1>2, <2>1, <2>2 DEF Suspend, TypeOK
  <1> QED BY <1>0, <1>1, <1>2 DEF Next

LEMMA TypeInvariant == Spec => []TypeInv
  <1>1. Init => TypeInv
    BY DEF Init, TypeInv, TypeOK, Checked, Code, InFlight, Registering, LoggingIn
  <1>2. TypeInv /\ [Next]_vars => TypeInv'
    BY StepTypeOK, StepChecked DEF TypeInv
  <1> QED BY <1>1, <1>2, PTL DEF Spec

\* Whatever clients type, the table holds addresses in the one form that both
\* handlers look for, and the rest keeps its shape.
THEOREM TypeCorrect == Spec => []TypeOK
  <1>1. TypeInv => TypeOK
    BY DEF TypeInv
  <1> QED BY <1>1, TypeInvariant, PTL
-----------------------------------------------------------------------------
(* The table.  A row appears only in Insert, under an address that is free,  *)
(* and then only its status changes.                                         *)

SameUser(u, v) == v.id = u.id /\ v.email = u.email /\ v.password = u.password

LEMMA TableSteps ==
    ASSUME TypeOK, [Next]_vars
    PROVE  /\ \A u \in users : \E v \in users' :
                 SameUser(u, v) /\ (u.status = "SUSPENDED" => v.status = "SUSPENDED")
           /\ OneUserPerEmail => OneUserPerEmail'
           /\ \A v \in users' : \/ \E u \in users : SameUser(u, v)
                                \/ \E r \in Requests : (v = Registered(r) /\ pc[r] = "save")
  <1>1. CASE users' = users
    BY <1>1 DEF OneUserPerEmail, SameUser
  <1>2. ASSUME NEW r \in Requests, pc[r] = "save", Insert(r)
        PROVE  /\ users' = users \cup {Registered(r)}
               /\ \A u \in users : u.email # Registered(r).email
    BY <1>2 DEF Insert, Taken, Registered
  <1>3. CASE \E r \in Requests : pc[r] = "save" /\ Insert(r)
    BY <1>2, <1>3 DEF OneUserPerEmail, SameUser
  <1>4. ASSUME NEW u \in users, Suspend(u)
        PROVE  /\ \A w \in users : \E v \in users' :
                     SameUser(w, v) /\ (w.status = "SUSPENDED" => v.status = "SUSPENDED")
               /\ OneUserPerEmail => OneUserPerEmail'
               /\ \A v \in users' : \E w \in users : SameUser(w, v)
    <2> DEFINE s == [u EXCEPT !.status = "SUSPENDED"]
    <2>1. users' = (users \ {u}) \cup {s}
      BY <1>4 DEF Suspend
    <2>2. SameUser(u, s) /\ s.status = "SUSPENDED"
      BY DEF TypeOK, User, SameUser
    <2> HIDE DEF s
    <2> QED BY <2>1, <2>2 DEF OneUserPerEmail, SameUser
  <1>5. ASSUME NEW r \in Requests, Step(r)
        PROVE  users' = users \/ (pc[r] = "save" /\ Insert(r))
    BY <1>5 DEF Step, Receive, FindEmail, Hash, Save, SaveUnacknowledged, LookUp, Compare,
                CallFails, Crash
  <1> QED BY <1>1, <1>3, <1>4, <1>5 DEF Next, vars

\* The unique index alone is enough: however many registrations of an address
\* overlap, one user has it.
THEOREM OneUser == Spec => []OneUserPerEmail
  <1>1. Init => OneUserPerEmail
    BY DEF Init, OneUserPerEmail
  <1>2. TypeInv /\ OneUserPerEmail /\ [Next]_vars => OneUserPerEmail'
    BY TableSteps DEF TypeInv
  <1> QED BY <1>1, <1>2, TypeInvariant, PTL DEF Spec

\* Nobody's address or password is ever taken over.
THEOREM FirstStays == Spec => FirstRegistrationStays
  <1>1. TypeInv /\ [Next]_vars =>
           [\A u \in users : \E v \in users' :
               v.id = u.id /\ v.email = u.email /\ v.password = u.password]_vars
    BY TableSteps DEF TypeInv, SameUser
  <1> QED BY <1>1, TypeInvariant, PTL DEF Spec, FirstRegistrationStays
-----------------------------------------------------------------------------
(* Answers.  What each of them rests on is in the table when it is given,    *)
(* and no later step takes it out again.  A login holds a row that is still  *)
(* there, apart from its status, and by then it is the only one with that    *)
(* address: so a refusal cannot be another user's.                           *)

RegistrationTrue(r) ==
    /\ answer[r].code = "registered" =>
          \E u \in users : /\ u.id = r /\ u.email = Normal(cmd[r].email)
                           /\ u.password = cmd[r].password
    /\ answer[r].code = "conflict" =>
          \E u \in users : u.id # r /\ u.email = Normal(cmd[r].email)

Earned(r) ==
    answer[r].code = "loggedIn" =>
        \E u \in users : /\ u.id = answer[r].user
                         /\ u.email = Lower(cmd[r].email)
                         /\ u.password = cmd[r].password

GetsIn(r) ==
    answer[r].code = "refused" /\ ~cmd[r].email.spaces =>
        \A u \in before[r] :
            u.email = Normal(cmd[r].email) /\ u.password = cmd[r].password =>
                \E v \in users : v.id = u.id /\ v.status = "SUSPENDED"

Holds(r) ==
    /\ pc[r] = "compare" =>
          \E w \in users : /\ SameUser(found[r], w)
                           /\ found[r].email = Lower(cmd[r].email)
                           /\ found[r].status # "ACTIVE" => w.status = "SUSPENDED"
    /\ pc[r] = "idle" => answer[r].code = "none"
    /\ \A u \in before[r] : \E v \in users : SameUser(u, v)

Rows == \A u \in users : pc[u.id] = "done" /\ u.status # "PENDING_VERIFICATION"

Facts(r) == RegistrationTrue(r) /\ Earned(r) /\ GetsIn(r) /\ Holds(r)

FactsInv == TypeInv /\ OneUserPerEmail /\ Rows /\ \A r \in Requests : Facts(r)

LEMMA FactsStable ==
    ASSUME TypeOK, [Next]_vars, NEW q \in Requests, Facts(q),
           cmd'[q] = cmd[q], pc'[q] = pc[q], answer'[q] = answer[q],
           found'[q] = found[q], before'[q] = before[q]
    PROVE  Facts(q)'
  <1>1. \A u \in users : \E v \in users' :
           SameUser(u, v) /\ (u.status = "SUSPENDED" => v.status = "SUSPENDED")
    BY TableSteps
  <1>2. RegistrationTrue(q)'
    BY <1>1 DEF Facts, RegistrationTrue, SameUser
  <1>3. Earned(q)'
    BY <1>1 DEF Facts, Earned, SameUser
  <1>4. GetsIn(q)'
    BY <1>1 DEF Facts, GetsIn, SameUser
  <1>5. Holds(q)'
    BY <1>1 DEF Facts, Holds, SameUser
  <1> QED BY <1>2, <1>3, <1>4, <1>5 DEF Facts

LEMMA ActorFacts ==
    ASSUME FactsInv, NEW r \in Requests, Step(r)
    PROVE  Facts(r)'
  <1>t. /\ TypeOK /\ Checked /\ Facts(r)
        /\ pc \in [Requests -> {"idle", "done", "crashed"} \cup InFlight]
        /\ cmd \in [Requests -> Commands \cup {None}]
        /\ found \in [Requests -> User \cup {None}]
        /\ before \in [Requests -> SUBSET User]
        /\ answer \in [Requests -> [code : Code, user : Requests \cup {None}]]
    BY DEF FactsInv, TypeInv, TypeOK
  <1>n. [Next]_vars
    BY DEF Next
  <1>1. CASE Receive(r)
    <2>1. /\ users' = users
          /\ pc'[r] \notin {"idle", "compare"}
          /\ before'[r] \subseteq users
      BY <1>t, <1>1, Moves, Received DEF InFlight, Registering, LoggingIn, Arcs
    <2>2. answer'[r].code \in {"none", "error", "rejected"}
      BY <1>t, <1>1, Received DEF Receive, Facts, Holds
    <2> QED BY <2>1, <2>2 DEF Facts, RegistrationTrue, Earned, GetsIn, Holds, SameUser
  <1>2. CASE ~Receive(r)
    <2>m. /\ pc[r] \in InFlight
          /\ cmd' = cmd /\ before' = before
          /\ <<pc[r], pc'[r]>> \in Arcs
      BY <1>t, <1>2, Moves DEF InFlight
    <2>c. cmd[r] \in Commands /\ cmd[r].email # None
      BY <1>t, <2>m DEF Checked
    <2>p. pc'[r] # "idle"
      BY <2>m DEF Arcs, InFlight, Registering, LoggingIn
    <2>u. \A u \in users : \E v \in users' :
             SameUser(u, v) /\ (u.status = "SUSPENDED" => v.status = "SUSPENDED")
      BY <1>t, <1>n, TableSteps
    <2>1. /\ cmd' = cmd /\ before' = before /\ pc[r] \in InFlight
          /\ cmd[r] \in Commands /\ cmd[r].email # None
          /\ \A u \in users : \E v \in users' :
                SameUser(u, v) /\ (u.status = "SUSPENDED" => v.status = "SUSPENDED")
          /\ pc'[r] # "idle"
      BY <2>m, <2>c, <2>p, <2>u
    <2>2. \A u \in before'[r] : \E v \in users' : SameUser(u, v)
      BY <2>1, <1>t DEF Facts, Holds, SameUser
    <2>3. CASE Hash(r) \/ Crash(r)
      <3>1. /\ answer' = answer /\ users' = users /\ pc'[r] # "compare"
        BY <1>t, <2>3 DEF Hash, Crash, Goto
      <3> QED BY <1>t, <2>1, <2>2, <3>1
              DEF Facts, RegistrationTrue, Earned, GetsIn, Holds
    <2>4. CASE SaveUnacknowledged(r) \/ CallFails(r)
      <3>1. answer'[r].code = "error" /\ pc'[r] # "compare"
        BY <1>t, <2>4 DEF SaveUnacknowledged, CallFails, Reply, Goto
      <3> QED BY <2>1, <2>2, <3>1 DEF Facts, RegistrationTrue, Earned, GetsIn, Holds
    <2>5. CASE Save(r)
      <3>1. answer'[r].code = "registered" /\ pc'[r] # "compare"
        BY <1>t, <2>5 DEF Save, Reply, Goto
      <3>2. Registered(r) \in users'
        BY <2>5 DEF Save, Insert
      <3> QED BY <2>1, <2>2, <3>1, <3>2
              DEF Facts, RegistrationTrue, Earned, GetsIn, Holds, Registered
    <2>6. CASE FindEmail(r)
      <3>1. CASE UNCHANGED answer /\ pc'[r] = "hash"
        BY <1>t, <2>1, <2>2, <2>6, <3>1
           DEF FindEmail, Facts, RegistrationTrue, Earned, GetsIn, Holds
      <3>2. CASE Taken(Normal(cmd[r].email)) /\ answer'[r].code = "conflict" /\ pc'[r] = "done"
        <4>1. \A u \in users : u.id # r
          BY <2>6 DEF FindEmail, FactsInv, Rows
        <4>2. users' = users
          BY <2>6 DEF FindEmail
        <4> QED BY <2>1, <2>2, <3>2, <4>1, <4>2
                DEF Taken, Facts, RegistrationTrue, Earned, GetsIn, Holds
      <3> QED BY <1>t, <2>6, <3>1, <3>2 DEF FindEmail, Reply, Goto
    <2>7. cmd[r].email.spaces = FALSE => Normal(cmd[r].email) = Lower(cmd[r].email)
      <3>1. cmd[r].email \in Address
        BY <2>1, CommandParts
      <3> QED BY <3>1 DEF Address, Normal, Lower
    <2>s. cmd[r].email.spaces \in BOOLEAN
      <3>1. cmd[r].email \in Address
        BY <2>1, CommandParts
      <3> QED BY <3>1 DEF Address
    <2>8. CASE LookUp(r)
      <3>0. users' = users
        BY <2>8 DEF LookUp
      <3>1. ASSUME NEW u \in users, u.email = LookedUp(r),
                   found' = [found EXCEPT ![r] = u], Goto(r, "compare"), UNCHANGED answer
            PROVE  Facts(r)'
        <4>1. /\ pc'[r] = "compare" /\ found'[r] = u
              /\ u.status # "ACTIVE" => u.status = "SUSPENDED"
          BY <1>t, <3>1 DEF Goto, FactsInv, Rows, TypeOK, User, Status
        <4> QED BY <1>t, <2>1, <2>2, <3>0, <3>1, <4>1
                DEF Facts, RegistrationTrue, Earned, GetsIn, Holds, SameUser, LookedUp
      <3>2. CASE ~Taken(LookedUp(r)) /\ Reply(r, "refused", None)
        <4>1. answer'[r].code = "refused" /\ pc'[r] = "done"
          BY <1>t, <3>2 DEF Reply, Goto
        <4>2. cmd[r].email.spaces = FALSE =>
                 \A u \in before[r] : u.email # Normal(cmd[r].email)
          BY <1>t, <2>7, <3>2 DEF Facts, Holds, SameUser, Taken, LookedUp
        <4> QED BY <2>1, <2>2, <2>s, <4>1, <4>2
                DEF Facts, RegistrationTrue, Earned, GetsIn, Holds
      <3> QED BY <2>8, <3>1, <3>2 DEF LookUp
    <2>9. CASE Compare(r)
      <3>0. users' = users /\ pc[r] = "compare" /\ pc'[r] = "done"
        BY <1>t, <2>9 DEF Compare, Reply, Goto
      <3>1. PICK w \in users : /\ SameUser(found[r], w)
                               /\ found[r].email = Lower(cmd[r].email)
                               /\ found[r].status # "ACTIVE" => w.status = "SUSPENDED"
        BY <1>t, <3>0 DEF Facts, Holds
      <3>2. CASE answer'[r].code = "error"
        BY <2>1, <2>2, <3>0, <3>2 DEF Facts, RegistrationTrue, Earned, GetsIn, Holds
      <3>3. CASE /\ answer'[r] = [code |-> "loggedIn", user |-> found[r].id]
                 /\ Matches(r)
        BY <2>1, <2>2, <3>0, <3>1, <3>3
           DEF Facts, RegistrationTrue, Earned, GetsIn, Holds, SameUser, Matches
      <3>4. CASE /\ answer'[r].code = "refused"
                 /\ ~(Matches(r) /\ found[r].status = "ACTIVE")
        <4>1. ASSUME cmd[r].email.spaces = FALSE, NEW u \in before[r],
                     u.email = Normal(cmd[r].email), u.password = cmd[r].password
              PROVE  w.id = u.id /\ w.status = "SUSPENDED"
          <5>1. PICK v \in users : SameUser(u, v)
            BY <1>t DEF Facts, Holds
          <5>2. v = w
            BY <2>7, <3>1, <4>1, <5>1 DEF SameUser, FactsInv, OneUserPerEmail
          <5>3. Matches(r)
            BY <3>1, <4>1, <5>1, <5>2 DEF SameUser, Matches
          <5> QED BY <3>1, <3>4, <5>1, <5>2, <5>3 DEF SameUser
        <4> QED BY <2>1, <2>2, <2>s, <3>0, <3>4, <4>1
                DEF Facts, RegistrationTrue, Earned, GetsIn, Holds
      <3> QED BY <1>t, <2>9, <3>2, <3>3, <3>4 DEF Compare, Reply, Goto
    <2> QED BY <1>2, <2>3, <2>4, <2>5, <2>6, <2>8, <2>9 DEF Step
  <1> QED BY <1>1, <1>2

LEMMA StepFactsInv == FactsInv /\ [Next]_vars => FactsInv'
  <1> SUFFICES ASSUME FactsInv, [Next]_vars PROVE FactsInv'
    OBVIOUS
  <1>0. /\ TypeOK /\ TypeInv /\ TypeInv' /\ OneUserPerEmail'
        /\ pc \in [Requests -> {"idle", "done", "crashed"} \cup InFlight]
    BY StepTypeOK, StepChecked, TableSteps DEF FactsInv, TypeInv, TypeOK
  <1>1. CASE UNCHANGED <<cmd, pc, answer, found, before>>
    <2>1. \A q \in Requests : Facts(q)'
      BY <1>0, <1>1, FactsStable DEF FactsInv
    <2>2. Rows'
      <3>1. CASE UNCHANGED users
        BY <1>1, <3>1 DEF FactsInv, Rows
      <3>2. ASSUME NEW u \in users, Suspend(u) PROVE Rows'
        <4> DEFINE s == [u EXCEPT !.status = "SUSPENDED"]
        <4>1. s.id = u.id /\ s.status = "SUSPENDED" /\ users' = (users \ {u}) \cup {s}
          BY <1>0, <3>2 DEF Suspend, TypeOK, User
        <4> HIDE DEF s
        <4> QED BY <1>1, <4>1 DEF FactsInv, Rows
      <3>3. ASSUME NEW r \in Requests, Step(r) PROVE FALSE
        <4>1. pc' = [pc EXCEPT ![r] = pc'[r]] /\ <<pc[r], pc'[r]>> \in Arcs
          BY <1>0, <3>3, Moves
        <4> QED BY <1>1, <4>1 DEF Arcs, InFlight, Registering, LoggingIn
      <3> QED BY <3>1, <3>2, <3>3 DEF Next, vars
    <2> QED BY <1>0, <2>1, <2>2 DEF FactsInv
  <1>2. ASSUME NEW r \in Requests, Step(r) PROVE FactsInv'
    <2>1. \A q \in Requests \ {r} :
             /\ cmd'[q] = cmd[q] /\ pc'[q] = pc[q] /\ answer'[q] = answer[q]
             /\ found'[q] = found[q] /\ before'[q] = before[q]
      BY <1>0, <1>2 DEF Step, Receive, FindEmail, Hash, Save, SaveUnacknowledged, LookUp,
                        Compare, CallFails, Crash, Reply, Goto, TypeOK
    <2>2. \A q \in Requests : Facts(q)'
      BY <1>0, <1>2, <2>1, FactsStable, ActorFacts DEF FactsInv
    <2>3. Rows'
      <3>1. pc[r] # "done" /\ pc'[r] # "idle"
        <4>1. <<pc[r], pc'[r]>> \in Arcs
          BY <1>0, <1>2, Moves
        <4> QED BY <4>1 DEF Arcs, InFlight, Registering, LoggingIn
      <3>2. \A u \in users : pc'[u.id] = "done" /\ u.status # "PENDING_VERIFICATION"
        BY <1>0, <2>1, <3>1 DEF FactsInv, Rows, TypeOK, User
      <3>3. CASE users' = users
        BY <3>2, <3>3 DEF Rows
      <3>4. CASE Save(r) \/ SaveUnacknowledged(r)
        <4>1. pc'[r] = "done" /\ users' = users \cup {Registered(r)}
          BY <1>0, <3>4 DEF Save, SaveUnacknowledged, Insert, Reply, Goto
        <4> QED BY <3>2, <4>1 DEF Rows, Registered
      <3> QED BY <1>2, <3>3, <3>4
              DEF Step, Receive, FindEmail, Hash, LookUp, Compare, CallFails, Crash
    <2> QED BY <1>0, <2>2, <2>3 DEF FactsInv
  <1> QED BY <1>1, <1>2 DEF Next, Suspend, vars

LEMMA FactsInvariant == Spec => []FactsInv
  <1>1. Init => FactsInv
    <2> SUFFICES ASSUME Init PROVE FactsInv
      OBVIOUS
    <2>1. TypeInv
      BY DEF Init, TypeInv, TypeOK, Checked, Code, InFlight, Registering, LoggingIn
    <2>2. OneUserPerEmail /\ Rows
      BY DEF Init, OneUserPerEmail, Rows
    <2>3. \A r \in Requests : Facts(r)
      BY DEF Init, Facts, RegistrationTrue, Earned, GetsIn, Holds
    <2> QED BY <2>1, <2>2, <2>3 DEF FactsInv
  <1> QED BY <1>1, StepFactsInv, PTL DEF Spec

\* What registrations are told stays true, for any number of them at once.
THEOREM RegistrationsTrue == Spec => []RegistrationsAreTrue
  <1>1. FactsInv => RegistrationsAreTrue
    BY DEF FactsInv, Facts, RegistrationTrue, RegistrationsAreTrue
  <1> QED BY <1>1, FactsInvariant, PTL

\* Nobody logs in but with the address and the password of the user he becomes.
THEOREM LoginEarned == Spec => []LoginIsEarned
  <1>1. FactsInv => LoginIsEarned
    BY DEF FactsInv, Facts, Earned, LoginIsEarned
  <1> QED BY <1>1, FactsInvariant, PTL

\* A user who is there and not suspended gets in with his password.
THEOREM PasswordGetsIn == Spec => []RightPasswordGetsIn
  <1>1. FactsInv => RightPasswordGetsIn
    BY DEF FactsInv, Facts, GetsIn, RightPasswordGetsIn
  <1> QED BY <1>1, FactsInvariant, PTL
=============================================================================
