------------------------------- MODULE Users -------------------------------
(***************************************************************************)
(* Registering a user and finding him again: RegisterUserHandler.execute   *)
(* and the part of LoginUserHandler.execute that comes before Sessions.    *)
(*                                                                         *)
(* Registration looks the address up, hashes the password for a while and  *)
(* inserts; nothing but the unique index of users.email keeps another      *)
(* registration of the address out of the gap.  An address is what the     *)
(* client types; registration and login each bring it to the form they     *)
(* look for, in different code.                                            *)
(*                                                                         *)
(* No ValidationPipe is installed: the handlers get whatever was sent,     *)
(* or nothing.                                                             *)
(***************************************************************************)
EXTENDS Integers, FiniteSets

CONSTANTS
    Requests,     \* registrations and logins; a user has the name of the
                  \* registration that made him
    Names,        \* mailboxes
    NotAnEmail,   \* what Email.REGEX refuses
    Passwords,
    Strong,       \* the passwords Password.create accepts
    Commands,     \* what clients send
    MaxInFlight,  \* bound: requests running at the same time
    None          \* undefined, null

VARIABLES
    users,        \* table users
    cmd,          \* the command of each request
    pc,           \* its next awaited call
    found,        \* the aggregate a login holds
    before,       \* history: the rows there were when a login began
    answer        \* what the client was told, and about whom

vars == <<users, cmd, pc, found, before, answer>>

\* An address as typed: with capitals, with spaces around it.
Address == [name : Names \cup {NotAnEmail}, upper : BOOLEAN, spaces : BOOLEAN]
Command == [kind : {"register", "login"}, email : Address \cup {None},
            password : Passwords \cup {None}]
Status == {"PENDING_VERIFICATION", "ACTIVE", "SUSPENDED"}
User == [id : Requests, email : Address, password : Passwords, status : Status]
Code == {"none", "registered", "conflict", "rejected", "loggedIn", "refused", "error"}

ASSUME UsersAssumption ==
    /\ Commands \subseteq Command
    /\ NotAnEmail \notin Names
    /\ Strong \subseteq Passwords
    /\ MaxInFlight \in Nat
    /\ None \notin Passwords \cup Requests
    /\ None \notin Address /\ None \notin Command /\ None \notin User
-----------------------------------------------------------------------------
(* Addresses, passwords, the aggregate *)

\* toLowerCase(); Email.create trims as well.
Lower(e) == [e EXCEPT !.upper = FALSE]

Normal(e) == [Lower(e) EXCEPT !.spaces = FALSE]

IsEmail(e) == e.name \in Names

\* User.create followed by activate(); of the password the hash is kept, which
\* matches that password and no other.
Registered(r) == [id |-> r, email |-> Normal(cmd[r].email),
                  password |-> cmd[r].password, status |-> "ACTIVE"]
-----------------------------------------------------------------------------
Registering == {"findEmail", "hash", "save"}
LoggingIn == {"lookup", "compare"}
InFlight == Registering \cup LoggingIn

\* Rows, aggregates and answers have the shape their code gives them, and every
\* stored address is in the form it is looked up by.
TypeOK ==
    /\ users \subseteq User
    /\ \A u \in users : IsEmail(u.email) /\ ~u.email.upper /\ ~u.email.spaces
    /\ cmd \in [Requests -> Commands \cup {None}]
    /\ pc \in [Requests -> {"idle", "done", "crashed"} \cup InFlight]
    /\ found \in [Requests -> User \cup {None}]
    /\ before \in [Requests -> SUBSET User]
    /\ answer \in [Requests -> [code : Code, user : Requests \cup {None}]]

Init ==
    /\ users = {}
    /\ cmd = [r \in Requests |-> None]
    /\ pc = [r \in Requests |-> "idle"]
    /\ found = [r \in Requests |-> None]
    /\ before = [r \in Requests |-> {}]
    /\ answer = [r \in Requests |-> [code |-> "none", user |-> None]]

Goto(r, label) == pc' = [pc EXCEPT ![r] = label]
Reply(r, code, id) ==
    /\ Goto(r, "done")
    /\ answer' = [answer EXCEPT ![r] = [code |-> code, user |-> id]]

\* Reading a property of undefined throws.
Missing(c) == \/ c.email = None
              \/ c.kind = "register" /\ IsEmail(c.email) /\ c.password = None

\* Email.create or Password.create fails.
Unfit(c) == ~IsEmail(c.email) \/ c.password \notin Strong

\* A request comes and is checked as far as it goes without the database.
Receive(r) ==
    /\ pc[r] = "idle"
    /\ Cardinality({q \in Requests : pc[q] \in InFlight}) < MaxInFlight
    /\ \E c \in Commands :
          /\ cmd' = [cmd EXCEPT ![r] = c]
          /\ \/ Missing(c) /\ Reply(r, "error", None)
             \/ /\ ~Missing(c) /\ c.kind = "register" /\ Unfit(c)
                /\ Reply(r, "rejected", None)
             \/ /\ ~Missing(c) /\ c.kind = "register" /\ ~Unfit(c)
                /\ Goto(r, "findEmail") /\ UNCHANGED answer
             \/ /\ ~Missing(c) /\ c.kind = "login"
                /\ Goto(r, "lookup") /\ UNCHANGED answer
          /\ before' = [before EXCEPT ![r] = {u \in users : c.kind = "login"}]
    /\ UNCHANGED <<users, found>>
-----------------------------------------------------------------------------
(* Registration *)

Taken(e) == \E u \in users : u.email = e

FindEmail(r) ==
    /\ pc[r] = "findEmail"
    /\ \/ Taken(Normal(cmd[r].email)) /\ Reply(r, "conflict", None)
       \/ ~Taken(Normal(cmd[r].email)) /\ Goto(r, "hash") /\ UNCHANGED answer
    /\ UNCHANGED <<users, cmd, found, before>>

\* bcrypt takes its time, other requests go on.
Hash(r) ==
    /\ pc[r] = "hash" /\ Goto(r, "save")
    /\ UNCHANGED <<users, cmd, found, before, answer>>

\* Mutant of Insert: no unique index.
InsertUnindexed(r) == users' = users \cup {Registered(r)}

\* INSERT under the unique index of email.
Insert(r) ==
    /\ ~Taken(Normal(cmd[r].email))
    /\ users' = users \cup {Registered(r)}

\* Mutant of Save: save() without await.
SaveUnawaited(r) ==
    /\ pc[r] = "save"
    /\ Insert(r) \/ UNCHANGED users
    /\ Reply(r, "registered", r)
    /\ UNCHANGED <<cmd, found, before>>

Save(r) ==
    /\ pc[r] = "save"
    /\ Insert(r)
    /\ Reply(r, "registered", r)
    /\ UNCHANGED <<cmd, found, before>>

\* The row is in, its acknowledgement is lost.
SaveUnacknowledged(r) ==
    /\ pc[r] = "save"
    /\ Insert(r)
    /\ Reply(r, "error", None)
    /\ UNCHANGED <<cmd, found, before>>
-----------------------------------------------------------------------------
(* Login *)

\* Mutant of LookedUp: the address as typed.
LookedUpAsTyped(r) == cmd[r].email

LookedUp(r) == Lower(cmd[r].email)

LookUp(r) ==
    /\ pc[r] = "lookup"
    /\ \/ \E u \in users :
             /\ u.email = LookedUp(r)
             /\ found' = [found EXCEPT ![r] = u]
             /\ Goto(r, "compare") /\ UNCHANGED answer
       \/ /\ ~Taken(LookedUp(r))
          /\ Reply(r, "refused", None) /\ UNCHANGED found
    /\ UNCHANGED <<users, cmd, before>>

\* Mutant of Matches: compare() without await, a promise, which is truthy.
MatchesUnawaited(r) == TRUE

Matches(r) == found[r].password = cmd[r].password

\* compare() throws on a missing password; Sessions goes on from "loggedIn".
Compare(r) ==
    /\ pc[r] = "compare"
    /\ \/ cmd[r].password = None /\ Reply(r, "error", None)
       \/ /\ cmd[r].password # None
          /\ ~(Matches(r) /\ found[r].status = "ACTIVE")
          /\ Reply(r, "refused", None)
       \/ /\ cmd[r].password # None
          /\ Matches(r) /\ found[r].status = "ACTIVE"
          /\ Reply(r, "loggedIn", found[r].id)
    /\ UNCHANGED <<users, cmd, found, before>>
-----------------------------------------------------------------------------
(* Failures, suspension *)

\* An awaited call rejects, the insert of a taken address among them (P2002):
\* nothing catches it, and GlobalExceptionFilter is installed nowhere: 500.
CallFails(r) ==
    /\ pc[r] \in InFlight
    /\ Reply(r, "error", None)
    /\ UNCHANGED <<users, cmd, found, before>>

Crash(r) ==
    /\ pc[r] \in InFlight /\ Goto(r, "crashed")
    /\ UNCHANGED <<users, cmd, found, before, answer>>

\* User.suspend, which no handler of this commit calls.
Suspend(u) ==
    /\ u.status # "SUSPENDED"
    /\ users' = (users \ {u}) \cup {[u EXCEPT !.status = "SUSPENDED"]}
    /\ UNCHANGED <<cmd, pc, found, before, answer>>

Step(r) ==
    \/ Receive(r)
    \/ FindEmail(r) \/ Hash(r) \/ Save(r) \/ SaveUnacknowledged(r)
    \/ LookUp(r) \/ Compare(r)
    \/ CallFails(r) \/ Crash(r)

Next == (\E r \in Requests : Step(r)) \/ (\E u \in users : Suspend(u))

Spec == Init /\ [][Next]_vars
-----------------------------------------------------------------------------
(* Properties *)

\* However many registrations of one address are past their look-up, in whatever
\* spelling, the address belongs to one user.
OneUserPerEmail == \A u, v \in users : u.email = v.email => u = v

\* Once there, a user keeps his address and his password: no later registration
\* of the address, acknowledged or not, takes it over.
FirstRegistrationStays ==
    [][\A u \in users : \E v \in users' :
          v.id = u.id /\ v.email = u.email /\ v.password = u.password]_vars

\* What a client was told of its registration stays true: `registered' means
\* its own row, `conflict' a row of somebody else.  (After an error the row may
\* be there or not; the retry then hears `conflict'.)
RegistrationsAreTrue ==
    \A r \in Requests :
        /\ answer[r].code = "registered" =>
              \E u \in users : /\ u.id = r /\ u.email = Normal(cmd[r].email)
                               /\ u.password = cmd[r].password
        /\ answer[r].code = "conflict" =>
              \E u \in users : u.id # r /\ u.email = Normal(cmd[r].email)

\* A login gets in only as a user with the address it typed, but for its
\* capitals, and with that user's password.
LoginIsEarned ==
    \A r \in Requests : answer[r].code = "loggedIn" =>
        \E u \in users : /\ u.id = answer[r].user
                         /\ u.email = Lower(cmd[r].email)
                         /\ u.password = cmd[r].password

\* A user who was there when a login began, and was not suspended since, is not
\* refused with the right password, whatever capitals he types.  (Of the spaces
\* around the address this is not true: registration trims, login does not.)
RightPasswordGetsIn ==
    \A r \in Requests : answer[r].code = "refused" /\ ~cmd[r].email.spaces =>
        \A u \in before[r] :
            u.email = Normal(cmd[r].email) /\ u.password = cmd[r].password =>
                \E v \in users : v.id = u.id /\ v.status = "SUSPENDED"
=============================================================================
