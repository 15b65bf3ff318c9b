------------------------------ MODULE Sessions ------------------------------
(***************************************************************************)
(* Sessions and their refresh tokens: LoginUserHandler, RefreshTokenHandler *)
(* and LogoutUserHandler run concurrently against the sessions table, while *)
(* time passes and SessionCleanupJob deletes rows.                         *)
(*                                                                         *)
(* A handler is a sequence of awaited calls, none of them in a transaction *)
(* with another: the row it decides on was read some awaits before the row *)
(* it writes.  Time is in days.                                            *)
(*                                                                         *)
(* An execution creates at most one session, so the id of a session, its   *)
(* random secret and the bcrypt hash of that secret are all named by the   *)
(* execution that created it: a secret matches the hash of its own session *)
(* and of no other.                                                        *)
(***************************************************************************)
EXTENDS Integers, FiniteSets

CONSTANTS
    Requests,    \* handler executions, and the sessions they create
    Users,       \* rows of `users'
    Instants,    \* the days at which anything is observed
    MaxInFlight, \* bound: handlers running at the same time
    None         \* null, an unknown user, a secret nobody was given, no id

VARIABLES
    session,     \* table sessions
    active,      \* the users whose status is ACTIVE
    now,
    cmd,         \* the command of each request
    pc,          \* the next awaited call of each request
    seen,        \* the Session aggregate a handler holds in memory
    answer,      \* what the client was told, with the token it was given
    over         \* history: the sessions some global revocation covered

vars == <<session, active, now, cmd, pc, seen, answer, over>>

TtlDays == 7
RetentionDays == 30
HourlyRetentionDays == 1

Row == [user : Users, expiresAt : Int, revokedAt : Instants \cup {None}]
Absent == [user |-> None, expiresAt |-> 0, revokedAt |-> None]

\* A refresh token is <session id>.<secret>; a token without a dot has no id.
Token == [id : Requests \cup {None}, secret : Requests \cup {None}]
Command == [op : {"login"}, user : Users \cup {None}]
           \cup [op : {"refresh"}, token : Token]
           \cup [op : {"logout"}, user : Users, id : Requests \cup {None}]

Idle == [op |-> "none"]
NoToken == [id |-> None, secret |-> None]
Code == {"none", "loggedIn", "refreshed", "loggedOut", "refused", "malformed",
         "reuse", "error"}

ASSUME SessionsAssumption ==
    /\ 0 \in Instants /\ Instants \subseteq Nat
    /\ MaxInFlight \in Nat
    /\ None \notin Requests \cup Users \cup Nat

Login == {"findByEmail", "save"}
Refresh == {"findSession", "revokeAll", "findUser", "revoke", "save"}
Logout == {"revokeAll", "findOwn", "revoke"}
InFlight == Login \cup Refresh \cup Logout

\* Every row is a session or absent, and every handler at one of its awaits.
TypeOK ==
    /\ session \in [Requests -> Row \cup {Absent}]
    /\ active \subseteq Users
    /\ now \in Instants
    /\ cmd \in [Requests -> Command \cup {Idle}]
    /\ pc \in [Requests -> {"idle", "done", "crashed"} \cup InFlight]
    /\ seen \in [Requests -> Row \cup {Absent}]
    /\ answer \in [Requests -> [code : Code, token : Token]]
    /\ over \subseteq Requests

Init ==
    /\ session = [s \in Requests |-> Absent]
    /\ active = Users
    /\ now = 0
    /\ cmd = [r \in Requests |-> Idle]
    /\ pc = [r \in Requests |-> "idle"]
    /\ seen = [r \in Requests |-> Absent]
    /\ answer = [r \in Requests |-> [code |-> "none", token |-> NoToken]]
    /\ over = {}
-----------------------------------------------------------------------------
Exists(s) == session[s] # Absent
IsRevoked(row) == row.revokedAt # None
IsExpired(row) == now > row.expiresAt

\* The user a handler acts for: who logs in or out, or the owner of the
\* session it has read.
Subject(r) == IF cmd[r].op = "refresh" THEN seen[r].user ELSE cmd[r].user

\* The session a handler reads and revokes.
Target(r) == IF cmd[r].op = "refresh" THEN cmd[r].token.id ELSE cmd[r].id

Goto(r, label) == pc' = [pc EXCEPT ![r] = label]

Reply(r, code, token) ==
    /\ Goto(r, "done")
    /\ answer' = [answer EXCEPT ![r] = [code |-> code, token |-> token]]

\* Clients hold the secrets they were given (and can make one up: None), know
\* session ids from GET /auth/sessions, and put together what they like.
Known == [op : {"login"}, user : Users \cup {None}]
         \cup [op : {"refresh"},
               token : [id : Requests \cup {None},
                        secret : {answer[q].token.secret : q \in Requests} \cup {None}]]
         \cup [op : {"logout"}, user : Users, id : Requests \cup {None}]

\* The controller hands the command to its handler; a token without a dot is
\* refused at once.
Receive(r) ==
    /\ pc[r] = "idle"
    /\ Cardinality({q \in Requests : pc[q] \in InFlight}) < MaxInFlight
    /\ \E c \in Known :
          /\ cmd' = [cmd EXCEPT ![r] = c]
          /\ \/ c.op = "login" /\ Goto(r, "findByEmail") /\ UNCHANGED answer
             \/ c.op = "refresh" /\ c.token.id = None /\ Reply(r, "malformed", NoToken)
             \/ c.op = "refresh" /\ c.token.id # None /\ Goto(r, "findSession") /\ UNCHANGED answer
             \/ c.op = "logout" /\ c.id = None /\ Goto(r, "revokeAll") /\ UNCHANGED answer
             \/ c.op = "logout" /\ c.id # None /\ Goto(r, "findOwn") /\ UNCHANGED answer
    /\ UNCHANGED <<session, active, now, seen, over>>
-----------------------------------------------------------------------------
(* Login *)

\* findByEmail, the password (a wrong one is an unknown user here), the status;
\* then the token pair is made.
FindByEmail(r) ==
    /\ pc[r] = "findByEmail"
    /\ \/ cmd[r].user \notin active /\ Reply(r, "refused", NoToken)
       \/ cmd[r].user \in active /\ Goto(r, "save") /\ UNCHANGED answer
    /\ UNCHANGED <<session, active, now, cmd, seen, over>>

\* The token a client is given: a refresh puts the session id in front of the
\* secret, a login does not.
Given(r) == [id |-> IF cmd[r].op = "refresh" THEN r ELSE None, secret |-> r]

Created(r) == [user |-> Subject(r), expiresAt |-> now + TtlDays, revokedAt |-> None]

\* Session.create and sessionRepo.save, the last await of login and refresh.
SaveSession(r) ==
    /\ pc[r] = "save"
    /\ session' = [session EXCEPT ![r] = Created(r)]
    /\ Reply(r, IF cmd[r].op = "refresh" THEN "refreshed" ELSE "loggedIn", Given(r))
    /\ UNCHANGED <<active, now, cmd, seen, over>>
-----------------------------------------------------------------------------
(* Refresh *)

\* Mutant of FindSession: the secret is not compared with the stored hash.
FindSessionUnverified(r) ==
    /\ pc[r] = "findSession"
    /\ LET row == session[Target(r)]
           refused == row = Absent \/ (~IsRevoked(row) /\ IsExpired(row))
       IN  \/ refused /\ Reply(r, "refused", NoToken) /\ UNCHANGED seen
           \/ /\ ~refused
              /\ seen' = [seen EXCEPT ![r] = row]
              /\ Goto(r, IF IsRevoked(row) THEN "revokeAll" ELSE "findUser")
              /\ UNCHANGED answer
    /\ UNCHANGED <<session, active, now, cmd, over>>

\* Mutant of FindSession: revocation is not looked at.
FindSessionUnrevoked(r) ==
    /\ pc[r] = "findSession"
    /\ LET row == session[Target(r)]
           refused == row = Absent \/ IsExpired(row) \/ cmd[r].token.secret # Target(r)
       IN  \/ refused /\ Reply(r, "refused", NoToken) /\ UNCHANGED seen
           \/ /\ ~refused
              /\ seen' = [seen EXCEPT ![r] = row]
              /\ Goto(r, "findUser") /\ UNCHANGED answer
    /\ UNCHANGED <<session, active, now, cmd, over>>

\* findById; a revoked session means reuse, whoever presents it; one that is
\* not must not be expired and must have the presented secret.
FindSession(r) ==
    /\ pc[r] = "findSession"
    /\ LET row == session[Target(r)]
           refused == \/ row = Absent
                      \/ ~IsRevoked(row) /\ (IsExpired(row) \/ cmd[r].token.secret # Target(r))
       IN  \/ refused /\ Reply(r, "refused", NoToken) /\ UNCHANGED seen
           \/ /\ ~refused
              /\ seen' = [seen EXCEPT ![r] = row]
              /\ Goto(r, IF IsRevoked(row) THEN "revokeAll" ELSE "findUser")
              /\ UNCHANGED answer
    /\ UNCHANGED <<session, active, now, cmd, over>>

\* Mutant of FindUser: the old session is not revoked before the new is saved.
FindUserSaveFirst(r) ==
    /\ pc[r] = "findUser"
    /\ \/ Subject(r) \notin active /\ Reply(r, "refused", NoToken)
       \/ Subject(r) \in active /\ Goto(r, "save") /\ UNCHANGED answer
    /\ UNCHANGED <<session, active, now, cmd, seen, over>>

\* userRepo.findById, after bcrypt has compared the secret.
FindUser(r) ==
    /\ pc[r] = "findUser"
    /\ \/ Subject(r) \notin active /\ Reply(r, "refused", NoToken)
       \/ Subject(r) \in active /\ Goto(r, "revoke") /\ UNCHANGED answer
    /\ UNCHANGED <<session, active, now, cmd, seen, over>>

\* Session.revoke, which keeps the date of an earlier revocation.
Revoked(row) == IF IsRevoked(row) THEN row ELSE [row EXCEPT !.revokedAt = now]

\* Mutant of RevokeSession: update(session) comes before session.revoke().
RevokeSessionUnmarked(r) ==
    /\ pc[r] = "revoke" /\ Exists(Target(r))
    /\ session' = [session EXCEPT ![Target(r)] = seen[r]]
    /\ \/ cmd[r].op = "refresh" /\ Goto(r, "save") /\ UNCHANGED answer
       \/ cmd[r].op = "logout" /\ Reply(r, "loggedOut", NoToken)
    /\ UNCHANGED <<active, now, cmd, seen, over>>

\* sessionRepo.update writes the whole row from the aggregate; of a row deleted
\* meanwhile it throws.  A refresh goes on to save, a logout is done.
RevokeSession(r) ==
    /\ pc[r] = "revoke"
    /\ \/ /\ Exists(Target(r))
          /\ session' = [session EXCEPT ![Target(r)] = Revoked(seen[r])]
          /\ \/ cmd[r].op = "refresh" /\ Goto(r, "save") /\ UNCHANGED answer
             \/ cmd[r].op = "logout" /\ Reply(r, "loggedOut", NoToken)
       \/ ~Exists(Target(r)) /\ Reply(r, "error", NoToken) /\ UNCHANGED session
    /\ UNCHANGED <<active, now, cmd, seen, over>>

Of(u) == {s \in Requests : session[s].user = u}

\* updateMany WHERE user_id = u AND revoked_at IS NULL.
RevokeAllByUserId(u) ==
    /\ session' = [s \in Requests |-> IF s \in Of(u) THEN Revoked(session[s]) ELSE session[s]]
    /\ over' = over \cup Of(u)

\* Reuse of a revoked token, or a logout without a session id.
RevokeAll(r) ==
    /\ pc[r] = "revokeAll"
    /\ RevokeAllByUserId(Subject(r))
    /\ Reply(r, IF cmd[r].op = "refresh" THEN "reuse" ELSE "loggedOut", NoToken)
    /\ UNCHANGED <<active, now, cmd, seen>>
-----------------------------------------------------------------------------
(* Logout of one session *)

\* Mutant of FindOwn: the owner is not compared.
FindOwnAny(r) ==
    /\ pc[r] = "findOwn"
    /\ \/ ~Exists(Target(r)) /\ Reply(r, "refused", NoToken) /\ UNCHANGED seen
       \/ /\ Exists(Target(r))
          /\ seen' = [seen EXCEPT ![r] = session[Target(r)]]
          /\ Goto(r, "revoke") /\ UNCHANGED answer
    /\ UNCHANGED <<session, active, now, cmd, over>>

FindOwn(r) ==
    /\ pc[r] = "findOwn"
    /\ LET row == session[Target(r)]
       IN  \/ row.user # Subject(r) /\ Reply(r, "refused", NoToken) /\ UNCHANGED seen
           \/ /\ row.user = Subject(r)
              /\ seen' = [seen EXCEPT ![r] = row]
              /\ Goto(r, "revoke") /\ UNCHANGED answer
    /\ UNCHANGED <<session, active, now, cmd, over>>
-----------------------------------------------------------------------------
(* Failures *)

\* An awaited call rejects without having had an effect.
CallFails(r) ==
    /\ pc[r] \in InFlight
    /\ Reply(r, "error", NoToken)
    /\ UNCHANGED <<session, active, now, cmd, seen, over>>

\* A write takes effect and its acknowledgement is lost.
WriteUnacknowledged(r) ==
    /\ \/ /\ pc[r] = "save"
          /\ session' = [session EXCEPT ![r] = Created(r)]
          /\ UNCHANGED over
       \/ /\ pc[r] = "revoke" /\ Exists(Target(r))
          /\ session' = [session EXCEPT ![Target(r)] = Revoked(seen[r])]
          /\ UNCHANGED over
       \/ pc[r] = "revokeAll" /\ RevokeAllByUserId(Subject(r))
    /\ Reply(r, "error", NoToken)
    /\ UNCHANGED <<active, now, cmd, seen>>

\* The process dies; the client hears nothing.
Crash(r) ==
    /\ pc[r] \in InFlight
    /\ Goto(r, "crashed")
    /\ UNCHANGED <<session, active, now, cmd, seen, answer, over>>
-----------------------------------------------------------------------------
(* Time and the cleanup jobs *)

Pass ==
    /\ \E t \in Instants : t > now /\ now' = t
    /\ UNCHANGED <<session, active, cmd, pc, seen, answer, over>>

\* The status of a user is changed from outside; no handler does it.
Suspend(u) ==
    /\ u \in active
    /\ active' = active \ {u}
    /\ UNCHANGED <<session, now, cmd, pc, seen, answer, over>>

Delete(rows) ==
    /\ session' = [s \in Requests |-> IF s \in rows THEN Absent ELSE session[s]]
    /\ UNCHANGED <<active, now, cmd, pc, seen, answer, over>>

RevokedBefore(day) == {s \in Requests : IsRevoked(session[s]) /\ session[s].revokedAt < day}
ExpiredBefore(day) == {s \in Requests : Exists(s) /\ session[s].expiresAt < day}

\* Mutant of CleanupExpired: the hourly job's cutoff.
CleanupExpiredEarly ==
    Delete(ExpiredBefore(now - HourlyRetentionDays) \cup RevokedBefore(now - HourlyRetentionDays))

\* cleanupExpiredSessions, every day.
CleanupExpired ==
    Delete(ExpiredBefore(now - RetentionDays) \cup RevokedBefore(now - RetentionDays))

\* cleanupRevokedSessions, every hour.
CleanupRevoked ==
    Delete(RevokedBefore(now - HourlyRetentionDays) \cap ExpiredBefore(now))

Step(r) ==
    \/ FindByEmail(r) \/ SaveSession(r)
    \/ FindSession(r) \/ FindUser(r) \/ RevokeSession(r) \/ RevokeAll(r)
    \/ FindOwn(r)

Next ==
    \/ \E r \in Requests :
          Receive(r) \/ Step(r) \/ CallFails(r) \/ WriteUnacknowledged(r) \/ Crash(r)
    \/ Pass \/ CleanupExpired \/ CleanupRevoked
    \/ \E u \in Users : Suspend(u)

Spec == Init /\ [][Next]_vars
-----------------------------------------------------------------------------
(* Properties *)

\* Revocation is final: however many handlers write back a row they read before
\* it was revoked, no session becomes usable again.
NoRevival ==
    [][\A s \in Requests : IsRevoked(session[s]) => IsRevoked(session'[s]) \/ session'[s] = Absent]_vars

\* The token a session was rotated from is spent before the new session exists,
\* also when the handler fails or dies between the two writes: no failure leaves
\* a client with two usable tokens.
SpentBeforeSaved ==
    \A s \in Requests :
        Exists(s) /\ cmd[s].op = "refresh" => ~Exists(Target(s)) \/ IsRevoked(session[Target(s)])

\* A refresh hands out a session only for the secret of the session it replaces,
\* and to the same user: one's own secret never gets one somebody else's session.
SessionsAreEarned ==
    \A s \in Requests :
        Exists(s) /\ cmd[s].op = "refresh" =>
            /\ cmd[s].token.secret = Target(s)
            /\ Exists(Target(s)) => session[Target(s)].user = session[s].user

\* A session is ended only by a logout its owner asked for, or by a refresh of a
\* session of the same user.  (A refresh acts for the owner of the session it has
\* read, whoever presents it: the reuse detection of refresh-token.handler.ts:59-67.)
EndedByItsOwner ==
    [][\A s \in Requests :
          Exists(s) /\ ~IsRevoked(session[s]) /\ IsRevoked(session'[s]) =>
              \E r \in Requests : pc'[r] # pc[r] /\ Subject(r) = session[s].user]_vars

\* A session that "log out everywhere" or a detected reuse covered is never
\* accepted by a refresh that reads it afterwards, whatever rows handlers that
\* were under way have written back since.  (A refresh that had read it before
\* still goes through, and the session it makes survives.)
GlobalRevocationHolds ==
    [][\A r \in Requests :
          pc[r] = "findSession" /\ pc'[r] = "findUser" => Target(r) \notin over]_vars

\* session-cleanup.job.ts:14-15: rows are kept for the reuse detection window.
\* While a token could still be taken for a live one by its date, the row that
\* tells it was revoked is not deleted.
ReuseIsDetectable ==
    [][\A s \in Requests :
          Exists(s) /\ session'[s] = Absent => IsExpired(session[s])]_vars
-----------------------------------------------------------------------------
(* What the repository says of sessions and the code does not do *)

\* auth.controller.ts:40 documents the token received at login as
\* sessionId.randomPart: presented as it was received it is not malformed.
LoginTokenIsWellFormed ==
    \A r, q \in Requests :
        /\ cmd[r].op = "refresh" /\ answer[q].code = "loggedIn"
        /\ cmd[r].token = answer[q].token
        => answer[r].code # "malformed"

\* auth.controller.ts:112: "Old token is immediately revoked and a new pair is
\* issued": no token is exchanged for two pairs.
TokenIsSpentOnce ==
    \A r, q \in Requests :
        /\ answer[r].code = "refreshed" /\ answer[q].code = "refreshed"
        /\ cmd[r].token = cmd[q].token
        => r = q

\* auth.controller.ts:49 says of the session id of a logout: "Omit to revoke all
\* sessions (all devices).", and line 138 calls that a "global logout".  Once
\* user u was told it is done, a session made from one it covered is revoked too.
GlobalLogoutReachesAll ==
    \A q, s \in Requests :
        /\ cmd[q].op = "logout" /\ cmd[q].id = None /\ answer[q].code = "loggedOut"
        /\ Exists(s) /\ cmd[s].op = "refresh"
        /\ Target(s) \in over /\ session[s].user = cmd[q].user
        => IsRevoked(session[s])
=============================================================================
