--------------------------- MODULE SessionsProofs ---------------------------
(***************************************************************************)
(* Theorems about Sessions, for any number of requests, users and instants. *)
(*                                                                         *)
(* The inductive invariant is SessionInv: it says what a handler that has  *)
(* read a session still knows of it while others rotate, revoke and delete. *)
(***************************************************************************)
EXTENDS Sessions, TLAPS

\* A handler that decides on, or has decided on, a session it has read.
Reads(r) ==
    \/ cmd[r].op = "refresh" /\ (pc[r] \in {"findUser", "revoke", "revokeAll", "save"} \/ Exists(r))
    \/ cmd[r].op = "logout" /\ pc[r] = "revoke"

\* A session lives TtlDays from its creation, and it was revoked after that.
Dated(row) ==
    /\ row.expiresAt <= now + TtlDays
    /\ IsRevoked(row) => row.expiresAt <= row.revokedAt + TtlDays

\* Each await belongs to the commands whose handler has it.
ControlInv ==
    \A r \in Requests :
        /\ pc[r] = "findByEmail" => cmd[r].op = "login"
        /\ pc[r] \in {"findSession", "findUser"} => cmd[r].op = "refresh" /\ Target(r) \in Requests
        /\ pc[r] = "findOwn" => cmd[r].op = "logout" /\ Target(r) \in Requests
        /\ pc[r] = "revoke" => cmd[r].op \in {"refresh", "logout"} /\ Target(r) \in Requests
        /\ pc[r] = "revokeAll" => cmd[r].op \in {"refresh", "logout"}
        /\ pc[r] = "save" => cmd[r].op = "refresh" \/ (cmd[r].op = "login" /\ cmd[r].user \in Users)

\* A row exists only once its creator is done, so no id is used again.
RowInv ==
    \A s \in Requests : Exists(s) => pc[s] = "done" /\ session[s] \in Row /\ Dated(session[s])

\* What was read still holds of the row, if there is one: its owner and its
\* expiry; and the secret was compared.
SeenInv ==
    \A r \in Requests : Reads(r) =>
        /\ Target(r) \in Requests /\ pc[Target(r)] = "done"
        /\ seen[r] \in Row /\ Dated(seen[r])
        /\ Exists(Target(r)) => /\ session[Target(r)].user = seen[r].user
                                /\ session[Target(r)].expiresAt = seen[r].expiresAt
        /\ Exists(r) => session[r].user = seen[r].user
        /\ cmd[r].op = "refresh" /\ pc[r] # "revokeAll" => cmd[r].token.secret = Target(r)
        /\ cmd[r].op = "logout" => seen[r].user = cmd[r].user

\* The old session is spent from the revocation on.
Spent(s) == ~Exists(s) \/ IsRevoked(session[s])
SpentInv ==
    \A r \in Requests :
        cmd[r].op = "refresh" /\ (pc[r] = "save" \/ Exists(r)) => Spent(Target(r))

OverInv == \A s \in over : pc[s] = "done" /\ Spent(s)

SessionInv == TypeOK /\ ControlInv /\ RowInv /\ SeenInv /\ SpentInv /\ OverInv
-----------------------------------------------------------------------------
LEMMA CommandParts ==
    ASSUME NEW c \in Command \cup {Idle}
    PROVE  /\ c.op = "refresh" => c.token \in Token /\ c.token.id \in Requests \cup {None}
           /\ c.op = "login" => c.user \in Users \cup {None}
           /\ c.op = "logout" => c.user \in Users /\ c.id \in Requests \cup {None}
    BY DEF Command, Idle, Token

LEMMA KnownIsCommand == TypeOK => Known \subseteq Command
    BY DEF TypeOK, Known, Command, Token

LEMMA InitSessionInv == Init => SessionInv
  <1> SUFFICES ASSUME Init PROVE SessionInv
    OBVIOUS
  <1>1. TypeOK
    BY SessionsAssumption DEF Init, TypeOK, Code, NoToken, Token
  <1>2. \A r \in Requests : ~Exists(r) /\ pc[r] = "idle" /\ cmd[r].op = "none"
    BY DEF Init, Exists, Idle
  <1> QED BY <1>1, <1>2 DEF SessionInv, ControlInv, RowInv, SeenInv, SpentInv, OverInv, Reads, Init

LEMMA ReplyTyped ==
    ASSUME TypeOK, NEW r \in Requests, NEW code \in Code, NEW token \in Token, Reply(r, code, token)
    PROVE  /\ pc' = [pc EXCEPT ![r] = "done"]
           /\ pc' \in [Requests -> {"idle", "done", "crashed"} \cup InFlight]
           /\ answer' \in [Requests -> [code : Code, token : Token]]
    BY DEF TypeOK, Reply, Goto

LEMMA RowParts ==
    ASSUME NEW row \in Row
    PROVE  /\ row # Absent /\ row.user \in Users /\ row.expiresAt \in Int
           /\ IsRevoked(row) => row.revokedAt \in Nat
           /\ TypeOK => Revoked(row) \in Row /\ IsRevoked(Revoked(row))
           /\ Revoked(row).user = row.user /\ Revoked(row).expiresAt = row.expiresAt
    BY SessionsAssumption DEF Row, Absent, IsRevoked, Revoked, TypeOK

LEMMA CreatedTyped ==
    ASSUME TypeOK, NEW r \in Requests, Subject(r) \in Users
    PROVE  Created(r) \in Row /\ ~IsRevoked(Created(r)) /\ Dated(Created(r))
    BY SessionsAssumption DEF TypeOK, Created, Row, TtlDays, IsRevoked, Dated

LEMMA RevokeAllTyped ==
    ASSUME TypeOK, NEW u \in Users, RevokeAllByUserId(u)
    PROVE  session' \in [Requests -> Row \cup {Absent}] /\ over' \subseteq Requests
  <1>1. ASSUME NEW s \in Requests PROVE session'[s] \in Row \cup {Absent}
    <2>1. session[s] \in Row \cup {Absent}
      BY DEF TypeOK
    <2>2. CASE s \in Of(u)
      <3>1. session[s] \in Row
        BY <2>1, <2>2, SessionsAssumption DEF Of, Absent
      <3>2. session'[s] = Revoked(session[s])
        BY <2>2 DEF RevokeAllByUserId
      <3> QED BY <3>1, <3>2, RowParts
    <2>3. CASE s \notin Of(u)
      BY <2>1, <2>3 DEF RevokeAllByUserId
    <2> QED BY <2>2, <2>3
  <1>2. session' = [s \in Requests |-> session'[s]]
    BY DEF RevokeAllByUserId
  <1>3. over' \subseteq Requests
    BY DEF TypeOK, RevokeAllByUserId, Of
  <1> QED BY <1>1, <1>2, <1>3

\* Whom a handler acts for when it saves a session or revokes them all.
LEMMA SubjectIsUser ==
    ASSUME SessionInv, NEW r \in Requests, pc[r] \in {"save", "revokeAll"}
    PROVE  Subject(r) \in Users
  <1>1. cmd[r] \in Command \cup {Idle}
    BY DEF SessionInv, TypeOK
  <1>2. CASE cmd[r].op = "refresh"
    BY <1>2, RowParts DEF SessionInv, SeenInv, Reads, Subject
  <1>3. CASE cmd[r].op # "refresh"
    BY <1>1, <1>3, CommandParts DEF SessionInv, ControlInv, Subject
  <1> QED BY <1>2, <1>3

LEMMA RevokeTyped ==
    ASSUME SessionInv, NEW r \in Requests, pc[r] = "revoke"
    PROVE  /\ Target(r) \in Requests /\ seen[r] \in Row
           /\ Revoked(seen[r]) \in Row /\ IsRevoked(Revoked(seen[r]))
  <1>1. Target(r) \in Requests /\ seen[r] \in Row
    BY DEF SessionInv, ControlInv, SeenInv, Reads
  <1> QED BY <1>1, RowParts DEF SessionInv

LEMMA StepTypeOK == SessionInv /\ [Next]_vars => TypeOK'
  <1> SUFFICES ASSUME SessionInv, [Next]_vars PROVE TypeOK'
    OBVIOUS
  <1>t. TypeOK /\ RowInv
    BY DEF SessionInv
  <1>n. /\ NoToken \in Token
        /\ \A r \in Requests : Given(r) \in Token
        /\ {"loggedIn", "refreshed", "loggedOut", "refused", "malformed", "reuse", "error"} \subseteq Code
    BY DEF NoToken, Given, Token, Code
  <1>1. CASE UNCHANGED vars
    BY <1>1, <1>t DEF vars, TypeOK
  <1>2. ASSUME NEW r \in Requests, Receive(r) PROVE TypeOK'
    <2>1. PICK c \in Command : cmd' = [cmd EXCEPT ![r] = c]
      BY <1>2, <1>t, KnownIsCommand DEF Receive
    <2>2. cmd' \in [Requests -> Command \cup {Idle}]
      BY <2>1, <1>t DEF TypeOK
    <2>3. \/ \E l \in InFlight : Goto(r, l) /\ UNCHANGED answer
          \/ Reply(r, "malformed", NoToken)
      BY <1>2 DEF Receive, InFlight, Login, Refresh, Logout
    <2>4. /\ pc' \in [Requests -> {"idle", "done", "crashed"} \cup InFlight]
          /\ answer' \in [Requests -> [code : Code, token : Token]]
      BY <2>3, <1>t, <1>n, ReplyTyped DEF TypeOK, Goto
    <2> QED BY <1>2, <2>2, <2>4, <1>t DEF Receive, TypeOK
  <1>3. ASSUME NEW r \in Requests, FindByEmail(r) \/ FindUser(r) PROVE TypeOK'
    <2>1. /\ pc' \in [Requests -> {"idle", "done", "crashed"} \cup InFlight]
          /\ answer' \in [Requests -> [code : Code, token : Token]]
      BY <1>3, <1>t, <1>n, ReplyTyped
         DEF FindByEmail, FindUser, TypeOK, Goto, InFlight, Login, Refresh
    <2> QED BY <1>3, <2>1, <1>t DEF FindByEmail, FindUser, TypeOK
  <1>4. ASSUME NEW r \in Requests, FindSession(r) \/ FindOwn(r) PROVE TypeOK'
    <2>1. Target(r) \in Requests
      BY <1>4 DEF SessionInv, ControlInv, FindSession, FindOwn
    <2>2. /\ pc' \in [Requests -> {"idle", "done", "crashed"} \cup InFlight]
          /\ answer' \in [Requests -> [code : Code, token : Token]]
      BY <1>4, <1>t, <1>n, ReplyTyped
         DEF FindSession, FindOwn, TypeOK, Goto, InFlight, Login, Refresh, Logout
    <2>3. seen' \in [Requests -> Row \cup {Absent}]
      BY <1>4, <1>t, <2>1 DEF FindSession, FindOwn, TypeOK
    <2> QED BY <1>4, <2>2, <2>3, <1>t DEF FindSession, FindOwn, TypeOK
  <1>5. ASSUME NEW r \in Requests, SaveSession(r) PROVE TypeOK'
    <2>1. Created(r) \in Row
      BY <1>5, <1>t, SubjectIsUser, CreatedTyped DEF SaveSession
    <2>2. /\ pc' \in [Requests -> {"idle", "done", "crashed"} \cup InFlight]
          /\ answer' \in [Requests -> [code : Code, token : Token]]
      BY <1>5, <1>t, <1>n, ReplyTyped DEF SaveSession
    <2> QED BY <1>5, <2>1, <2>2, <1>t DEF SaveSession, TypeOK
  <1>6. ASSUME NEW r \in Requests, RevokeSession(r) PROVE TypeOK'
    <2>1. session' \in [Requests -> Row \cup {Absent}]
      BY <1>6, <1>t, RevokeTyped DEF RevokeSession, TypeOK
    <2>2. /\ pc' \in [Requests -> {"idle", "done", "crashed"} \cup InFlight]
          /\ answer' \in [Requests -> [code : Code, token : Token]]
      BY <1>6, <1>t, <1>n, ReplyTyped DEF RevokeSession, TypeOK, Goto, InFlight, Login
    <2> QED BY <1>6, <2>1, <2>2, <1>t DEF RevokeSession, TypeOK
  <1>7. ASSUME NEW r \in Requests, RevokeAll(r) PROVE TypeOK'
    <2>1. session' \in [Requests -> Row \cup {Absent}] /\ over' \subseteq Requests
      BY <1>7, <1>t, SubjectIsUser, RevokeAllTyped DEF RevokeAll
    <2>2. /\ pc' \in [Requests -> {"idle", "done", "crashed"} \cup InFlight]
          /\ answer' \in [Requests -> [code : Code, token : Token]]
      BY <1>7, <1>t, <1>n, ReplyTyped DEF RevokeAll
    <2> QED BY <1>7, <2>1, <2>2, <1>t DEF RevokeAll, TypeOK
  <1>8. ASSUME NEW r \in Requests, CallFails(r) \/ Crash(r) PROVE TypeOK'
    <2>1. /\ pc' \in [Requests -> {"idle", "done", "crashed"} \cup InFlight]
          /\ answer' \in [Requests -> [code : Code, token : Token]]
      BY <1>8, <1>t, <1>n, ReplyTyped DEF CallFails, Crash, TypeOK, Goto
    <2> QED BY <1>8, <2>1, <1>t DEF CallFails, Crash, TypeOK
  <1>9. ASSUME NEW r \in Requests, WriteUnacknowledged(r) PROVE TypeOK'
    <2>1. session' \in [Requests -> Row \cup {Absent}] /\ over' \subseteq Requests
      <3>1. CASE pc[r] = "save"
        BY <1>9, <1>t, <3>1, SubjectIsUser, CreatedTyped DEF WriteUnacknowledged, TypeOK
      <3>2. CASE pc[r] = "revoke"
        BY <1>9, <1>t, <3>2, RevokeTyped DEF WriteUnacknowledged, TypeOK
      <3>3. CASE pc[r] = "revokeAll"
        BY <1>9, <1>t, <3>3, SubjectIsUser, RevokeAllTyped DEF WriteUnacknowledged
      <3> QED BY <1>9, <3>1, <3>2, <3>3 DEF WriteUnacknowledged
    <2>2. /\ pc' \in [Requests -> {"idle", "done", "crashed"} \cup InFlight]
          /\ answer' \in [Requests -> [code : Code, token : Token]]
      BY <1>9, <1>t, <1>n, ReplyTyped DEF WriteUnacknowledged
    <2> QED BY <1>9, <2>1, <2>2, <1>t DEF WriteUnacknowledged, TypeOK
  <1>10. ASSUME Pass \/ (\E u \in Users : Suspend(u)) PROVE TypeOK'
    BY <1>10, <1>t DEF Pass, Suspend, TypeOK
  <1>11. ASSUME CleanupExpired \/ CleanupRevoked PROVE TypeOK'
    BY <1>11, <1>t DEF CleanupExpired, CleanupRevoked, Delete, TypeOK
  <1> QED BY <1>1, <1>2, <1>3, <1>4, <1>5, <1>6, <1>7, <1>8, <1>9, <1>10, <1>11 DEF Next, Step
-----------------------------------------------------------------------------
(* What one step does to a handler and to a row *)

Rests(r) == pc'[r] = pc[r] /\ cmd'[r] = cmd[r] /\ seen'[r] = seen[r]
Acts(r) ==
    Receive(r) \/ Step(r) \/ CallFails(r) \/ WriteUnacknowledged(r) \/ Crash(r)

Kept(s) == session'[s] = session[s]
Deleted(s) == session'[s] = Absent
Saved(s) ==
    /\ pc[s] = "save" /\ pc'[s] = "done" /\ session'[s] = Created(s)
    /\ now' = now /\ cmd'[s] = cmd[s] /\ seen'[s] = seen[s]
Ended(s) ==
    /\ Exists(s) /\ session'[s] \in Row
    /\ session'[s].user = session[s].user /\ session'[s].expiresAt = session[s].expiresAt
    /\ IsRevoked(session'[s]) /\ Dated(session'[s]) /\ now' = now
    /\ \E r \in Requests : pc'[r] # pc[r] /\ Subject(r) = session[s].user

LEMMA OneHandlerActs ==
    ASSUME SessionInv, [Next]_vars, NEW r \in Requests
    PROVE  Acts(r) \/ Rests(r)
  <1>t. TypeOK
    BY DEF SessionInv
  <1>1. CASE UNCHANGED vars
    BY <1>1 DEF vars, Rests
  <1>2. ASSUME NEW q \in Requests, Acts(q) PROVE Acts(r) \/ Rests(r)
    <2>1. CASE q = r
      BY <1>2, <2>1
    <2>2. CASE q # r
      <3>1. pc'[r] = pc[r]
        BY <1>2, <2>2, <1>t DEF TypeOK, Acts, Receive, Step, CallFails, WriteUnacknowledged, Crash,
             FindByEmail, SaveSession, FindSession, FindUser, RevokeSession, RevokeAll, FindOwn,
             Reply, Goto
      <3>2. cmd'[r] = cmd[r]
        BY <1>2, <2>2, <1>t DEF TypeOK, Acts, Receive, Step, CallFails, WriteUnacknowledged, Crash,
             FindByEmail, SaveSession, FindSession, FindUser, RevokeSession, RevokeAll, FindOwn
      <3>3. seen'[r] = seen[r]
        BY <1>2, <2>2, <1>t DEF TypeOK, Acts, Receive, Step, CallFails, WriteUnacknowledged, Crash,
             FindByEmail, SaveSession, FindSession, FindUser, RevokeSession, RevokeAll, FindOwn
      <3> QED BY <3>1, <3>2, <3>3 DEF Rests
    <2> QED BY <2>1, <2>2
  <1>3. ASSUME Pass \/ CleanupExpired \/ CleanupRevoked \/ (\E u \in Users : Suspend(u))
        PROVE  Rests(r)
    BY <1>3 DEF Pass, CleanupExpired, CleanupRevoked, Delete, Suspend, Rests
  <1> QED BY <1>1, <1>2, <1>3 DEF Next, Acts

\* A handler that is done does nothing more.
LEMMA DoneIsDone ==
    ASSUME SessionInv, [Next]_vars, NEW r \in Requests, pc[r] = "done"
    PROVE  Rests(r)
  <1>1. ~Acts(r)
    BY DEF Acts, Receive, Step, CallFails, WriteUnacknowledged, Crash, InFlight, Login, Refresh,
         Logout, FindByEmail, SaveSession, FindSession, FindUser, RevokeSession, RevokeAll, FindOwn
  <1> QED BY <1>1, OneHandlerActs

LEMMA SavedRow ==
    ASSUME SessionInv, NEW r \in Requests, pc[r] = "save",
           session' = [session EXCEPT ![r] = Created(r)],
           pc' = [pc EXCEPT ![r] = "done"], UNCHANGED <<now, cmd, seen>>,
           NEW s \in Requests
    PROVE  Kept(s) \/ Saved(s)
  <1> USE DEF SessionInv, TypeOK
  <1>1. CASE s = r
    BY <1>1 DEF Saved
  <1>2. CASE s # r
    BY <1>2 DEF Kept
  <1> QED BY <1>1, <1>2

LEMMA RevokedRow ==
    ASSUME SessionInv, NEW r \in Requests, pc[r] = "revoke", Exists(Target(r)),
           session' = [session EXCEPT ![Target(r)] = Revoked(seen[r])],
           pc'[r] # pc[r], UNCHANGED now,
           NEW s \in Requests
    PROVE  Kept(s) \/ Ended(s)
  <1>t. TypeOK
    BY DEF SessionInv
  <1>1. CASE s = Target(r)
    <2>1. Target(r) \in Requests /\ seen[r] \in Row
      BY RevokeTyped
    <2>2. session'[s] = Revoked(seen[r])
      BY <1>1, <1>t DEF TypeOK
    <2>3. Reads(r)
      BY DEF Reads, SessionInv, ControlInv
    <2>4. session[s].user = seen[r].user /\ session[s].expiresAt = seen[r].expiresAt
      BY <2>1, <2>3, <1>1 DEF SessionInv, SeenInv
    <2>5. session'[s] \in Row /\ IsRevoked(session'[s])
      BY <2>2, RevokeTyped
    <2>6. session'[s].user = session[s].user /\ session'[s].expiresAt = session[s].expiresAt
      BY <2>1, <2>2, <2>4, RowParts
    <2>7. Dated(seen[r])
      BY <2>3 DEF SessionInv, SeenInv
    <2>8. Dated(session'[s])
      <3>1. CASE IsRevoked(seen[r])
        BY <3>1, <2>2, <2>7 DEF Revoked
      <3>2. CASE ~IsRevoked(seen[r])
        <4>1. Revoked(seen[r]).revokedAt = now
          BY <3>2, <2>1 DEF Revoked, Row
        <4> QED BY <4>1, <2>2, <2>6, <2>4, <2>7 DEF Dated
      <3> QED BY <3>1, <3>2
    <2>9. Subject(r) = session[s].user
      BY <2>3, <2>4 DEF Subject, SessionInv, SeenInv, ControlInv
    <2> QED BY <2>5, <2>6, <2>8, <2>9, <1>1 DEF Ended
  <1>2. CASE s # Target(r)
    BY <1>2, <1>t DEF Kept, TypeOK
  <1> QED BY <1>1, <1>2

LEMMA RevokedRows ==
    ASSUME SessionInv, NEW r \in Requests, pc[r] = "revokeAll",
           RevokeAllByUserId(Subject(r)),
           pc'[r] # pc[r], UNCHANGED now,
           NEW s \in Requests
    PROVE  Kept(s) \/ Ended(s)
  <1>1. CASE s \in Of(Subject(r))
    <2>1. session[s].user = Subject(r) /\ Subject(r) \in Users
      BY <1>1, SubjectIsUser DEF Of
    <2>2. Exists(s)
      BY <2>1, SessionsAssumption DEF Exists, Absent
    <2>3. session[s] \in Row /\ Dated(session[s])
      BY <2>2 DEF SessionInv, RowInv
    <2>4. session'[s] = Revoked(session[s])
      BY <1>1 DEF RevokeAllByUserId
    <2>5. /\ session'[s] \in Row /\ IsRevoked(session'[s])
          /\ session'[s].user = session[s].user /\ session'[s].expiresAt = session[s].expiresAt
      BY <2>3, <2>4, RowParts DEF SessionInv
    <2>6. Dated(session'[s])
      <3>1. CASE IsRevoked(session[s])
        BY <3>1, <2>3, <2>4 DEF Revoked
      <3>2. CASE ~IsRevoked(session[s])
        <4>1. Revoked(session[s]).revokedAt = now
          BY <3>2, <2>3 DEF Revoked, Row
        <4> QED BY <4>1, <2>3, <2>4, <2>5 DEF Dated
      <3> QED BY <3>1, <3>2
    <2> QED BY <2>1, <2>2, <2>5, <2>6 DEF Ended
  <1>2. CASE s \notin Of(Subject(r))
    BY <1>2 DEF RevokeAllByUserId, Kept
  <1> QED BY <1>1, <1>2

\* A handler leaves a row alone, saves it under its own id, or ends it on behalf
\* of its owner.
LEMMA HandlerRows ==
    ASSUME SessionInv, NEW r \in Requests, Acts(r), NEW s \in Requests
    PROVE  Kept(s) \/ Saved(s) \/ Ended(s)
  <1>t. TypeOK
    BY DEF SessionInv
  <1>1. CASE (SaveSession(r) \/ WriteUnacknowledged(r)) /\ pc[r] = "save"
    BY <1>1, SavedRow, <1>t DEF SaveSession, WriteUnacknowledged, Reply, Goto
  <1>2. CASE (RevokeSession(r) \/ WriteUnacknowledged(r)) /\ pc[r] = "revoke"
    <2>1. pc'[r] # pc[r]
      BY <1>2, <1>t DEF RevokeSession, WriteUnacknowledged, Reply, Goto, TypeOK
    <2> QED BY <1>2, <2>1, RevokedRow DEF RevokeSession, WriteUnacknowledged, Kept
  <1>3. CASE (RevokeAll(r) \/ WriteUnacknowledged(r)) /\ pc[r] = "revokeAll"
    <2>1. pc'[r] # pc[r]
      BY <1>3, <1>t DEF RevokeAll, WriteUnacknowledged, Reply, Goto, TypeOK
    <2> QED BY <1>3, <2>1, RevokedRows DEF RevokeAll, WriteUnacknowledged
  <1>4. CASE \/ Receive(r) \/ FindByEmail(r) \/ FindSession(r) \/ FindUser(r) \/ FindOwn(r)
             \/ CallFails(r) \/ Crash(r)
    BY <1>4 DEF Receive, FindByEmail, FindSession, FindUser, FindOwn, CallFails, Crash, Kept
  <1> QED BY <1>1, <1>2, <1>3, <1>4
          DEF Acts, Step, SaveSession, RevokeSession, RevokeAll, WriteUnacknowledged

\* Only the cleanup jobs delete a row.
LEMMA RowStep ==
    ASSUME SessionInv, [Next]_vars, NEW s \in Requests
    PROVE  Kept(s) \/ Deleted(s) \/ Saved(s) \/ Ended(s)
  <1>1. ASSUME NEW r \in Requests, Acts(r) PROVE Kept(s) \/ Saved(s) \/ Ended(s)
    BY <1>1, HandlerRows
  <1>2. ASSUME CleanupExpired \/ CleanupRevoked PROVE Kept(s) \/ Deleted(s)
    BY <1>2 DEF CleanupExpired, CleanupRevoked, Delete, Kept, Deleted
  <1>3. ASSUME Pass \/ (\E u \in Users : Suspend(u)) \/ UNCHANGED vars PROVE Kept(s)
    BY <1>3 DEF Pass, Suspend, vars, Kept
  <1> QED BY <1>1, <1>2, <1>3 DEF Next, Acts

LEMMA TimeGoesOn ==
    ASSUME SessionInv, [Next]_vars
    PROVE  now \in Nat /\ now' \in Nat /\ now <= now'
  <1>1. now' \in Instants
    BY StepTypeOK DEF TypeOK
  <1>2. now' = now \/ now' > now
    BY DEF Next, vars, Step, Receive, CallFails, WriteUnacknowledged, Crash, FindByEmail, SaveSession,
           FindSession, FindUser, RevokeSession, RevokeAll, FindOwn, Pass, Suspend,
           CleanupExpired, CleanupRevoked, Delete
  <1> QED BY <1>1, <1>2, SessionsAssumption DEF SessionInv, TypeOK

LEMMA DatedStays ==
    ASSUME SessionInv, [Next]_vars, NEW row \in Row, Dated(row)
    PROVE  Dated(row)'
    BY TimeGoesOn, RowParts DEF Dated, TtlDays, IsRevoked

\* A session that is spent stays so: its id is never used again.
LEMMA SpentStays ==
    ASSUME SessionInv, [Next]_vars, NEW s \in Requests, pc[s] = "done", Spent(s)
    PROVE  Spent(s)'
    BY RowStep DEF Spent, Kept, Deleted, Saved, Ended, Exists, IsRevoked
-----------------------------------------------------------------------------
(* Every step keeps the invariant *)

LEMMA StepControlInv == SessionInv /\ [Next]_vars => ControlInv'
  <1> SUFFICES ASSUME SessionInv, [Next]_vars, NEW r \in Requests
               PROVE  /\ pc'[r] = "findByEmail" => cmd'[r].op = "login"
                      /\ pc'[r] \in {"findSession", "findUser"} =>
                            cmd'[r].op = "refresh" /\ Target(r)' \in Requests
                      /\ pc'[r] = "findOwn" => cmd'[r].op = "logout" /\ Target(r)' \in Requests
                      /\ pc'[r] = "revoke" =>
                            cmd'[r].op \in {"refresh", "logout"} /\ Target(r)' \in Requests
                      /\ pc'[r] = "revokeAll" => cmd'[r].op \in {"refresh", "logout"}
                      /\ pc'[r] = "save" =>
                            cmd'[r].op = "refresh" \/ (cmd'[r].op = "login" /\ cmd'[r].user \in Users)
    BY DEF ControlInv
  <1>t. TypeOK /\ ControlInv
    BY DEF SessionInv
  <1>1. CASE Rests(r)
    BY <1>1, <1>t DEF Rests, ControlInv, Target
  <1>2. CASE Receive(r)
    <2>1. PICK c \in Known :
              /\ cmd' = [cmd EXCEPT ![r] = c]
              /\ \/ c.op = "login" /\ Goto(r, "findByEmail")
                 \/ Reply(r, "malformed", NoToken)
                 \/ c.op = "refresh" /\ c.token.id # None /\ Goto(r, "findSession")
                 \/ c.op = "logout" /\ c.id = None /\ Goto(r, "revokeAll")
                 \/ c.op = "logout" /\ c.id # None /\ Goto(r, "findOwn")
      BY <1>2 DEF Receive
    <2>2. c \in Command \cup {Idle} /\ cmd'[r] = c
      BY <2>1, <1>t, KnownIsCommand DEF TypeOK
    <2> QED BY <2>1, <2>2, <1>t, CommandParts DEF Goto, Reply, TypeOK, Target
  <1>3. CASE FindByEmail(r)
    BY <1>3, <1>t DEF FindByEmail, Goto, Reply, TypeOK, ControlInv, Target
  <1>4. CASE FindSession(r) \/ FindUser(r)
    BY <1>4, <1>t DEF FindSession, FindUser, Goto, Reply, TypeOK, ControlInv, Target
  <1>5. CASE FindOwn(r)
    BY <1>5, <1>t DEF FindOwn, Goto, Reply, TypeOK, ControlInv, Target
  <1>6. CASE RevokeSession(r)
    BY <1>6, <1>t DEF RevokeSession, Goto, Reply, TypeOK, ControlInv, Target
  <1>7. CASE SaveSession(r) \/ RevokeAll(r) \/ CallFails(r) \/ WriteUnacknowledged(r) \/ Crash(r)
    BY <1>7, <1>t DEF SaveSession, RevokeAll, CallFails, WriteUnacknowledged, Crash, Goto, Reply, TypeOK
  <1> QED BY <1>1, <1>2, <1>3, <1>4, <1>5, <1>6, <1>7, OneHandlerActs DEF Acts, Step

LEMMA StepRowInv == SessionInv /\ [Next]_vars => RowInv'
  <1> SUFFICES ASSUME SessionInv, [Next]_vars, NEW s \in Requests, Exists(s)'
               PROVE  pc'[s] = "done" /\ session'[s] \in Row /\ Dated(session[s])'
    BY DEF RowInv
  <1>1. CASE Kept(s)
    <2>1. Exists(s) /\ pc[s] = "done" /\ session[s] \in Row /\ Dated(session[s])
      BY <1>1 DEF Kept, Exists, SessionInv, RowInv
    <2>2. pc'[s] = "done"
      BY <2>1, DoneIsDone DEF Rests
    <2>3. Dated(session[s])'
      BY <2>1, <1>1, DatedStays DEF Kept, Dated, IsRevoked
    <2> QED BY <2>1, <2>2, <2>3, <1>1 DEF Kept
  <1>2. CASE Saved(s)
    <2>1. Created(s) \in Row /\ Dated(Created(s))
      BY <1>2, SubjectIsUser, CreatedTyped DEF Saved, SessionInv
    <2> QED BY <1>2, <2>1 DEF Saved, Dated, IsRevoked
  <1>3. CASE Ended(s)
    <2>1. pc[s] = "done"
      BY <1>3 DEF Ended, SessionInv, RowInv
    <2> QED BY <1>3, <2>1, DoneIsDone DEF Ended, Rests, Dated, IsRevoked
  <1> QED BY <1>1, <1>2, <1>3, RowStep DEF Deleted, Exists

\* What a handler has read stays true of the row while it keeps what it has read.
LEMMA SeenStays ==
    ASSUME SessionInv, [Next]_vars, NEW r \in Requests, Reads(r),
           cmd'[r] = cmd[r], seen'[r] = seen[r]
    PROVE  /\ Target(r)' = Target(r) /\ Target(r) \in Requests
           /\ pc'[Target(r)] = "done"
           /\ seen'[r] \in Row /\ Dated(seen[r])'
           /\ Exists(Target(r))' => /\ session'[Target(r)].user = seen[r].user
                                    /\ session'[Target(r)].expiresAt = seen[r].expiresAt
           /\ Exists(r)' => session'[r].user = seen[r].user
  <1>1. /\ Target(r) \in Requests /\ pc[Target(r)] = "done" /\ seen[r] \in Row /\ Dated(seen[r])
        /\ Exists(Target(r)) => /\ session[Target(r)].user = seen[r].user
                                /\ session[Target(r)].expiresAt = seen[r].expiresAt
        /\ Exists(r) => session[r].user = seen[r].user
    BY DEF SessionInv, SeenInv
  <1>2. pc'[Target(r)] = "done"
    BY <1>1, DoneIsDone DEF Rests
  <1>3. Dated(seen[r])'
    BY <1>1, DatedStays DEF Dated, IsRevoked
  <1>4. Exists(Target(r))' => /\ session'[Target(r)].user = seen[r].user
                              /\ session'[Target(r)].expiresAt = seen[r].expiresAt
    <2>1. Target(r)' = Target(r)
      BY DEF Target
    <2>2. /\ Kept(Target(r)) \/ Deleted(Target(r)) \/ Saved(Target(r)) \/ Ended(Target(r))
          /\ ~Saved(Target(r))
      BY <1>1, RowStep DEF Saved
    <2> QED BY <1>1, <2>1, <2>2 DEF Kept, Deleted, Ended, Exists
  <1>5. Exists(r)' => session'[r].user = seen[r].user
    <2>1. CASE Saved(r)
      <3>1. cmd[r].op = "refresh"
        BY <2>1 DEF Saved, Reads
      <3>2. Created(r).user = seen[r].user
        BY <3>1 DEF Created, Subject
      <3> QED BY <3>2, <2>1 DEF Saved
    <2> QED BY <1>1, <2>1, RowStep DEF Kept, Deleted, Ended, Exists
  <1> QED BY <1>1, <1>2, <1>3, <1>4, <1>5 DEF Target

LEMMA StepSeenInv == SessionInv /\ [Next]_vars => SeenInv'
  <1> SUFFICES ASSUME SessionInv, [Next]_vars, NEW r \in Requests, Reads(r)'
               PROVE  /\ Target(r)' \in Requests /\ pc'[Target(r)'] = "done"
                      /\ seen'[r] \in Row /\ Dated(seen[r])'
                      /\ Exists(Target(r))' =>
                            /\ session'[Target(r)'].user = seen'[r].user
                            /\ session'[Target(r)'].expiresAt = seen'[r].expiresAt
                      /\ Exists(r)' => session'[r].user = seen'[r].user
                      /\ cmd'[r].op = "refresh" /\ pc'[r] # "revokeAll" =>
                            cmd'[r].token.secret = Target(r)'
                      /\ cmd'[r].op = "logout" => seen'[r].user = cmd'[r].user
    BY DEF SeenInv, Exists
  <1>t. TypeOK /\ ControlInv /\ SeenInv
    BY DEF SessionInv
  <1>1. ASSUME Reads(r), cmd'[r] = cmd[r], seen'[r] = seen[r], pc[r] = "revokeAll" => pc'[r] = "revokeAll"
        PROVE  /\ cmd'[r].op = "refresh" /\ pc'[r] # "revokeAll" => cmd'[r].token.secret = Target(r)'
               /\ cmd'[r].op = "logout" => seen'[r].user = cmd'[r].user
    BY <1>1, <1>t DEF SeenInv, Target
  <1>2. CASE Rests(r)
    <2>1. Exists(r)' => Exists(r)
      BY <1>2, RowStep DEF Rests, Kept, Deleted, Saved, Ended, Exists
    <2>2. Reads(r)
      BY <1>2, <2>1 DEF Rests, Reads
    <2> QED BY <1>1, <1>2, <2>2, SeenStays DEF Rests, Exists
  <1>3. CASE FindSession(r)
    <2>1. /\ session[Target(r)] # Absent /\ seen'[r] = session[Target(r)]
          /\ ~IsRevoked(session[Target(r)]) => cmd[r].token.secret = Target(r)
          /\ IsRevoked(session[Target(r)]) => pc'[r] = "revokeAll"
      <3>1. ~Exists(r)'
        BY <1>3, <1>t DEF SessionInv, RowInv, FindSession, Exists
      <3>2. pc'[r] # "done"
        BY <3>1 DEF Reads
      <3> QED BY <1>3, <3>2, <1>t DEF FindSession, Reply, Goto, TypeOK
    <2>2. /\ cmd' = cmd /\ session' = session /\ now' = now /\ cmd[r].op = "refresh"
          /\ Target(r) \in Requests /\ Target(r)' = Target(r)
      BY <1>3, <1>t DEF FindSession, ControlInv, Target
    <2>3. pc[Target(r)] = "done" /\ session[Target(r)] \in Row /\ Dated(session[Target(r)])
      BY <2>1, <2>2 DEF SessionInv, RowInv, Exists
    <2>4. pc'[Target(r)] = "done" /\ ~Exists(r)'
      BY <1>3, <2>2, <2>3, DoneIsDone DEF Rests, FindSession, SessionInv, RowInv, Exists
    <2>5. Dated(seen[r])'
      BY <2>1, <2>2, <2>3 DEF Dated, IsRevoked
    <2> QED BY <2>1, <2>2, <2>3, <2>4, <2>5 DEF Exists
  <1>4. CASE FindOwn(r)
    <2>1. /\ cmd' = cmd /\ session' = session /\ now' = now /\ cmd[r].op = "logout"
          /\ Target(r) \in Requests /\ Target(r)' = Target(r)
      BY <1>4, <1>t DEF FindOwn, ControlInv, Target
    <2>2. /\ seen'[r] = session[Target(r)] /\ session[Target(r)].user = cmd[r].user
      <3>1. pc'[r] = "revoke"
        BY <2>1 DEF Reads
      <3> QED BY <1>4, <2>1, <3>1, <1>t DEF FindOwn, Reply, Goto, TypeOK, Subject
    <2>3. Exists(Target(r))
      BY <2>1, <2>2, <1>t, CommandParts, SessionsAssumption DEF Exists, Absent, TypeOK
    <2>4. pc[Target(r)] = "done" /\ session[Target(r)] \in Row /\ Dated(session[Target(r)])
      BY <2>1, <2>3 DEF SessionInv, RowInv
    <2>5. pc'[Target(r)] = "done" /\ ~Exists(r)'
      BY <1>4, <2>1, <2>4, DoneIsDone DEF Rests, FindOwn, SessionInv, RowInv, Exists
    <2>6. Dated(seen[r])'
      BY <2>1, <2>2, <2>4 DEF Dated, IsRevoked
    <2> QED BY <2>1, <2>2, <2>4, <2>5, <2>6 DEF Exists
  <1>5. CASE \/ FindUser(r) \/ RevokeSession(r) \/ RevokeAll(r) \/ SaveSession(r)
             \/ CallFails(r) \/ WriteUnacknowledged(r) \/ Crash(r)
    <2>1. cmd'[r] = cmd[r] /\ seen'[r] = seen[r]
      BY <1>5 DEF FindUser, RevokeSession, RevokeAll, SaveSession, CallFails, WriteUnacknowledged, Crash
    <2>2. pc[r] # "done" /\ pc'[r] # "revokeAll"
      BY <1>5, <1>t DEF FindUser, RevokeSession, RevokeAll, SaveSession, CallFails, WriteUnacknowledged,
         Crash, InFlight, Login, Refresh, Logout, Reply, Goto, TypeOK
    <2>3. ~Exists(r)
      BY <2>2 DEF SessionInv, RowInv
    <2>4. Reads(r) /\ pc[r] # "revokeAll"
      <3>1. CASE pc[r] = "save" /\ Exists(r)'
        BY <3>1, <2>1 DEF Reads, SessionInv, ControlInv
      <3>2. CASE Exists(r)' /\ pc[r] # "save"
        BY <3>2, <2>3, RowStep DEF Kept, Deleted, Saved, Ended, Exists
      <3>3. CASE ~Exists(r)'
        <4>1. pc'[r] \in {"findUser", "revoke", "save"}
          BY <3>3, <2>2 DEF Reads
        <4>2. FindUser(r) \/ RevokeSession(r)
          BY <4>1, <1>5, <1>t DEF RevokeAll, SaveSession, CallFails, WriteUnacknowledged,
             Crash, Reply, Goto, TypeOK
        <4>3. CASE FindUser(r)
          BY <4>3, <1>t DEF FindUser, ControlInv, Reads
        <4>4. CASE RevokeSession(r)
          BY <4>4, <1>t DEF RevokeSession, ControlInv, Reads
        <4> QED BY <4>2, <4>3, <4>4
      <3> QED BY <3>1, <3>2, <3>3
    <2> QED BY <1>1, <2>1, <2>4, SeenStays DEF Exists
  <1>6. CASE Receive(r) \/ FindByEmail(r)
    <2>1. ~Exists(r)'
      BY <1>6 DEF SessionInv, RowInv, Receive, FindByEmail, Exists
    <2>2. CASE FindByEmail(r)
      BY <2>1, <2>2, <1>t DEF FindByEmail, Reply, Goto, TypeOK, ControlInv, Reads
    <2>3. CASE Receive(r)
      <3>1. pc'[r] \notin {"findUser", "revoke", "save"}
        BY <2>3, <1>t DEF Receive, Reply, Goto, TypeOK
      <3>2. pc'[r] = "revokeAll" => cmd'[r].op = "logout"
        BY <2>3, <1>t DEF Receive, Reply, Goto, TypeOK
      <3> QED BY <2>1, <3>1, <3>2 DEF Reads
    <2> QED BY <1>6, <2>2, <2>3
  <1> QED BY <1>2, <1>3, <1>4, <1>5, <1>6, OneHandlerActs DEF Acts, Step

LEMMA StepSpentInv == SessionInv /\ [Next]_vars => SpentInv'
  <1> SUFFICES ASSUME SessionInv, [Next]_vars, NEW r \in Requests,
                      cmd'[r].op = "refresh", pc'[r] = "save" \/ Exists(r)'
               PROVE  Spent(Target(r))'
    BY DEF SpentInv, Spent, Exists
  <1>t. TypeOK /\ ControlInv /\ SeenInv
    BY DEF SessionInv
  <1>1. ASSUME cmd[r].op = "refresh", cmd'[r] = cmd[r], pc[r] = "save" \/ Exists(r)
        PROVE  Spent(Target(r))'
    <2>1. Reads(r) /\ Spent(Target(r))
      BY <1>1 DEF Reads, SessionInv, SpentInv
    <2>2. Target(r) \in Requests /\ pc[Target(r)] = "done" /\ Target(r)' = Target(r)
      BY <1>1, <2>1, <1>t DEF SeenInv, Target
    <2> QED BY <2>1, <2>2, SpentStays DEF Spent, Exists
  <1>2. CASE Rests(r)
    BY <1>1, <1>2, RowStep DEF Rests, Kept, Deleted, Saved, Ended, Exists
  <1>3. CASE RevokeSession(r)
    <2>1. pc[r] = "revoke" /\ ~Exists(r) /\ cmd' = cmd
      BY <1>3 DEF RevokeSession, SessionInv, RowInv
    <2>2. ~Exists(r)'
      BY <2>1, RowStep DEF Kept, Deleted, Saved, Ended, Exists
    <2>3. session' = [session EXCEPT ![Target(r)] = Revoked(seen[r])]
      BY <1>3, <2>2, <1>t DEF RevokeSession, Reply, Goto, TypeOK
    <2>4. Target(r)' = Target(r) /\ Target(r) \in Requests /\ IsRevoked(Revoked(seen[r]))
      BY <2>1, RevokeTyped DEF Target
    <2>5. session'[Target(r)] = Revoked(seen[r])
      BY <2>3, <2>4, <1>t DEF TypeOK
    <2> QED BY <2>4, <2>5 DEF Spent, IsRevoked
  <1>4. CASE SaveSession(r) \/ WriteUnacknowledged(r)
    <2>1. cmd' = cmd /\ pc'[r] # "save" /\ pc[r] # "done"
      BY <1>4, <1>t DEF SaveSession, WriteUnacknowledged, Reply, Goto, TypeOK
    <2>2. pc[r] = "save"
      BY <2>1, RowStep DEF Kept, Deleted, Saved, Ended, Exists, SessionInv, RowInv
    <2> QED BY <1>1, <2>1, <2>2
  <1>5. CASE \/ Receive(r) \/ FindByEmail(r) \/ FindSession(r) \/ FindUser(r) \/ FindOwn(r)
             \/ RevokeAll(r) \/ CallFails(r) \/ Crash(r)
    <2>1. pc'[r] # "save" \/ cmd'[r].op = "login"
      BY <1>5, <1>t DEF Receive, FindByEmail, FindSession, FindUser, FindOwn, RevokeAll, CallFails,
         Crash, Reply, Goto, TypeOK, ControlInv
    <2>2. pc[r] # "done"
      BY <1>5, <1>t DEF Receive, FindByEmail, FindSession, FindUser, FindOwn, RevokeAll, CallFails,
         Crash, InFlight, Login, Refresh, Logout
    <2>3. ~Exists(r)'
      <3>1. CASE pc[r] = "save"
        BY <1>5, <3>1 DEF Receive, FindByEmail, FindSession, FindUser, FindOwn, RevokeAll,
           CallFails, Crash, Exists, SessionInv, RowInv
      <3>2. CASE pc[r] # "save"
        BY <2>2, <3>2, RowStep DEF Kept, Deleted, Saved, Ended, Exists, SessionInv, RowInv
      <3> QED BY <3>1, <3>2
    <2> QED BY <2>1, <2>3
  <1> QED BY <1>2, <1>3, <1>4, <1>5, OneHandlerActs DEF Acts, Step

LEMMA StepOverInv == SessionInv /\ [Next]_vars => OverInv'
  <1> SUFFICES ASSUME SessionInv, [Next]_vars, NEW s \in over'
               PROVE  pc'[s] = "done" /\ Spent(s)'
    BY DEF OverInv
  <1>t. TypeOK /\ TypeOK'
    BY StepTypeOK DEF SessionInv
  <1>s. s \in Requests
    BY <1>t DEF TypeOK
  <1>1. CASE s \in over
    BY <1>1, <1>s, SpentStays, DoneIsDone DEF SessionInv, OverInv, Rests
  <1>2. CASE s \notin over
    <2>1. PICK r \in Requests : pc[r] = "revokeAll" /\ RevokeAllByUserId(Subject(r))
      BY <1>2 DEF Next, vars, Step, Receive, CallFails, WriteUnacknowledged, Crash, FindByEmail,
         SaveSession, FindSession, FindUser, RevokeSession, RevokeAll, FindOwn, Pass, Suspend,
         CleanupExpired, CleanupRevoked, Delete
    <2>2. s \in Of(Subject(r)) /\ Subject(r) \in Users
      BY <1>2, <2>1, SubjectIsUser DEF RevokeAllByUserId
    <2>3. Exists(s)
      BY <2>2, SessionsAssumption DEF Of, Exists, Absent
    <2>4. pc[s] = "done" /\ session[s] \in Row
      BY <1>s, <2>3 DEF SessionInv, RowInv
    <2>5. session'[s] = Revoked(session[s])
      BY <1>s, <2>1, <2>2 DEF RevokeAllByUserId
    <2>6. IsRevoked(Revoked(session[s]))
      BY <1>t, <2>4, RowParts
    <2>7. pc'[s] = "done"
      BY <1>s, <2>4, DoneIsDone DEF Rests
    <2> QED BY <2>5, <2>6, <2>7 DEF Spent, IsRevoked
  <1> QED BY <1>1, <1>2

LEMMA StepSessionInv == SessionInv /\ [Next]_vars => SessionInv'
  BY StepTypeOK, StepControlInv, StepRowInv, StepSeenInv, StepSpentInv, StepOverInv DEF SessionInv

LEMMA SessionInvAlways == Spec => []SessionInv
  BY InitSessionInv, StepSessionInv, PTL DEF Spec
-----------------------------------------------------------------------------
(* Theorems *)

\* Every row, command and answer keeps its shape.
THEOREM TypeCorrect == Spec => []TypeOK
  <1>1. SessionInv => TypeOK
    BY DEF SessionInv
  <1> QED BY <1>1, SessionInvAlways, PTL

\* A refresh never leaves the session it rotated usable beside the new one,
\* wherever it failed: the revocation is written first, and nothing undoes it.
THEOREM Rotation == Spec => []SpentBeforeSaved
  <1>1. SessionInv => SpentBeforeSaved
    BY DEF SessionInv, SpentInv, SpentBeforeSaved, Spent
  <1> QED BY <1>1, SessionInvAlways, PTL

\* Whoever gets a session from a refresh presented the secret of the session it
\* replaces, and that session is of the same user.
THEOREM Earned == Spec => []SessionsAreEarned
  <1>1. SessionInv => SessionsAreEarned
    BY DEF SessionInv, SeenInv, RowInv, Reads, SessionsAreEarned
  <1> QED BY <1>1, SessionInvAlways, PTL

\* No row that was revoked becomes usable again, though handlers write back rows
\* they read long before.
THEOREM RevocationIsFinal == Spec => NoRevival
  <1>1. SessionInv /\ [Next]_vars =>
          [\A s \in Requests : IsRevoked(session[s]) => IsRevoked(session'[s]) \/ session'[s] = Absent]_vars
    <2> SUFFICES ASSUME SessionInv, [Next]_vars, NEW s \in Requests, IsRevoked(session[s])
                 PROVE  IsRevoked(session'[s]) \/ session'[s] = Absent
      OBVIOUS
    <2>1. Exists(s)
      BY DEF Exists, Absent, IsRevoked
    <2>2. pc[s] = "done"
      BY <2>1 DEF SessionInv, RowInv
    <2> QED BY <2>2, RowStep DEF Kept, Deleted, Saved, Ended
  <1> QED BY <1>1, SessionInvAlways, PTL DEF Spec, NoRevival

\* After a global revocation no refresh that has yet to read its session gets
\* past it, whatever the handlers under way do.
THEOREM RevocationHolds == Spec => GlobalRevocationHolds
  <1>1. SessionInv /\ [Next]_vars =>
          [\A r \in Requests : pc[r] = "findSession" /\ pc'[r] = "findUser" => Target(r) \notin over]_vars
    <2> SUFFICES ASSUME SessionInv, [Next]_vars, NEW r \in Requests,
                        pc[r] = "findSession", pc'[r] = "findUser", Target(r) \in over
                 PROVE  FALSE
      OBVIOUS
    <2>t. TypeOK
      BY DEF SessionInv
    <2>1. Spent(Target(r))
      BY DEF SessionInv, OverInv
    <2>2. Acts(r)
      BY OneHandlerActs DEF Rests
    <2>3. FindSession(r)
      BY <2>2, <2>t DEF Acts, Receive, Step, CallFails, WriteUnacknowledged, Crash, FindByEmail,
         SaveSession, FindUser, RevokeSession, RevokeAll, FindOwn, Reply, Goto, TypeOK
    <2>4. session[Target(r)] # Absent /\ ~IsRevoked(session[Target(r)])
      BY <2>3, <2>t DEF FindSession, Reply, Goto, TypeOK
    <2> QED BY <2>1, <2>4 DEF Spent, Exists
  <1> QED BY <1>1, SessionInvAlways, PTL DEF Spec, GlobalRevocationHolds

\* Only a handler that acts for the owner of a session ends it.
THEOREM OwnersEndSessions == Spec => EndedByItsOwner
  <1>1. SessionInv /\ [Next]_vars =>
          [\A s \in Requests :
             Exists(s) /\ ~IsRevoked(session[s]) /\ IsRevoked(session'[s]) =>
               \E r \in Requests : pc'[r] # pc[r] /\ Subject(r) = session[s].user]_vars
    <2> SUFFICES ASSUME SessionInv, [Next]_vars, NEW s \in Requests,
                        Exists(s), ~IsRevoked(session[s]), IsRevoked(session'[s])
                 PROVE  \E r \in Requests : pc'[r] # pc[r] /\ Subject(r) = session[s].user
      OBVIOUS
    <2>1. ~Kept(s) /\ ~Deleted(s)
      BY DEF Kept, Deleted, IsRevoked, Absent
    <2>2. ~Saved(s)
      BY DEF Saved, SessionInv, RowInv
    <2> QED BY <2>1, <2>2, RowStep DEF Ended
  <1> QED BY <1>1, SessionInvAlways, PTL DEF Spec, EndedByItsOwner

\* The cleanup jobs delete only sessions whose date has passed.
THEOREM ReuseStaysDetectable == Spec => ReuseIsDetectable
  <1>1. SessionInv /\ [Next]_vars =>
          [\A s \in Requests : Exists(s) /\ session'[s] = Absent => IsExpired(session[s])]_vars
    <2> SUFFICES ASSUME SessionInv, [Next]_vars, NEW s \in Requests,
                        Exists(s), session'[s] = Absent
                 PROVE  IsExpired(session[s])
      OBVIOUS
    <2>1. /\ session[s] \in Row /\ Dated(session[s]) /\ pc[s] = "done"
          /\ session[s].expiresAt \in Int
          /\ IsRevoked(session[s]) => session[s].revokedAt \in Nat
      BY RowParts DEF SessionInv, RowInv
    <2>2. CleanupExpired \/ CleanupRevoked
      <3>1. \/ CleanupExpired \/ CleanupRevoked \/ UNCHANGED session
            \/ \E r \in Requests : Acts(r)
        BY DEF Next, Acts, vars, Pass, Suspend
      <3>2. ASSUME NEW r \in Requests, Acts(r) PROVE FALSE
        BY <2>1, <3>2, HandlerRows, RowParts DEF Kept, Saved, Ended, Exists
      <3> QED BY <3>1, <3>2 DEF Exists
    <2>3. CASE CleanupExpired
      BY <2>1, <2>3, TimeGoesOn DEF CleanupExpired, Delete, ExpiredBefore, RevokedBefore, Exists,
         IsExpired, Dated, TtlDays, RetentionDays
    <2>4. CASE CleanupRevoked
      BY <2>1, <2>4, TimeGoesOn DEF CleanupRevoked, Delete, ExpiredBefore, RevokedBefore, Exists,
         IsExpired
    <2> QED BY <2>2, <2>3, <2>4
  <1> QED BY <1>1, SessionInvAlways, PTL DEF Spec, ReuseIsDetectable
=============================================================================
