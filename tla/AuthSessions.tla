---------------------------- MODULE AuthSessions ----------------------------
(***************************************************************************)
(* AuthService of services/api with UsersService.changePassword: the       *)
(* sessions table, the credentials in users, and the calls that open,      *)
(* rotate and revoke sessions, one SQL statement at a time (READ           *)
(* COMMITTED, see PointsLedger).                                           *)
(*                                                                         *)
(* A session is named after the call that creates it, and so is its        *)
(* refresh token.  Rate limits and the status of accounts come before      *)
(* everything here, and are in RequestGates.                               *)
(***************************************************************************)
EXTENDS Integers, FiniteSets

CONSTANTS
  Users,
  Passwords,
  FirstHash,     \* FirstHash[u]: password_hash before the model starts
  Calls,
  MayBe,         \* MayBe[c]: the endpoints call c may be made to
  Threshold,     \* LOCKOUT_THRESHOLD
  MaxExpired,    \* bound on the sessions that expire
  NoCall

Endpoints == {"login", "refresh", "logout", "logoutAll", "changePassword"}

\* What a hash tells: whose password, and whether under today's parameters.
Hashes == [password: Passwords, outdated: BOOLEAN]

\* lockedUntil is null, in the future or in the past.
Lockouts == {"never", "locked", "over"}

UserRows == [hash: Hashes, failures: Nat, lockout: Lockouts]

SessionRows ==
  [user: Users \cup {NoCall}, state: {"absent", "live", "revoked"},
   expired: BOOLEAN, replacedBy: Calls \cup {NoCall}]

AbsentSession ==
  [user |-> NoCall, state |-> "absent", expired |-> FALSE, replacedBy |-> NoCall]

NewSession(u) ==
  [user |-> u, state |-> "live", expired |-> FALSE, replacedBy |-> NoCall]

\* What a call carries: credentials, a refresh token or the sid of an access
\* token, and the passwords of a change.
Logins    == [endpoint: {"login"}, user: Users, password: Passwords]
Refreshes == [endpoint: {"refresh"}, session: Calls]
Logouts   == [endpoint: {"logout", "logoutAll"}, session: Calls]
Changes   == [endpoint: {"changePassword"}, session: Calls,
              current: Passwords, password: Passwords]

Requests  == Logins \cup Refreshes \cup Logouts \cup Changes
NoRequest == [endpoint |-> "none"]

Phases == {"idle", "read", "fail", "rehash", "reset", "create", "lock", "rotate",
           "guard", "logout", "verify", "change", "snapshot", "revoke", "done"}

Outcomes == {"none", "ok", "unauthorized", "expired", "reused", "failed"}

ASSUME AuthAssumption ==
  /\ FirstHash \in [Users -> Hashes]
  /\ MayBe \in [Calls -> SUBSET Endpoints]
  /\ NoCall \notin Calls \cup Users
  /\ Threshold \in Nat \ {0}
  /\ MaxExpired \in Nat

VARIABLES
  users,        \* users: password_hash, failed_login_count, locked_until
  sessions,     \* sessions
  userLock,     \* the call whose transaction holds the users row
  sessionLock,  \* the call whose transaction holds the sessions row
  pc,           \* where each call is
  request,      \* what it carries
  seen,         \* the failed_login_count a login read
  snapshot,     \* the rows the UPDATE of a revocation has to cover
  outcome       \* what it answered

rows  == <<users, sessions>>
locks == <<userLock, sessionLock>>
vars  == <<rows, locks, pc, request, seen, snapshot, outcome>>

FirstUser(u) == [hash |-> FirstHash[u], failures |-> 0, lockout |-> "never"]

Init ==
  /\ users = [u \in Users |-> FirstUser(u)]
  /\ sessions = [s \in Calls |-> AbsentSession]
  /\ userLock = [u \in Users |-> NoCall]
  /\ sessionLock = [s \in Calls |-> NoCall]
  /\ pc = [c \in Calls |-> "idle"]
  /\ request = [c \in Calls |-> NoRequest]
  /\ seen = [c \in Calls |-> 0]
  /\ snapshot = [c \in Calls |-> {}]
  /\ outcome = [c \in Calls |-> "none"]

-----------------------------------------------------------------------------
Exists(s) == sessions[s].state # "absent"
Live(s)   == sessions[s].state = "live"

Move(c, from, to) == pc[c] = from /\ pc' = [pc EXCEPT ![c] = to]

Free(lock, c) == [r \in DOMAIN lock |-> IF lock[r] = c THEN NoCall ELSE lock[r]]

\* The call ends, and with it a transaction it has open.
Finish(c, answer) ==
  /\ pc' = [pc EXCEPT ![c] = "done"]
  /\ outcome' = [outcome EXCEPT ![c] = answer]
  /\ userLock' = Free(userLock, c)
  /\ sessionLock' = Free(sessionLock, c)
  /\ snapshot' = [snapshot EXCEPT ![c] = {}]
  /\ UNCHANGED <<request, seen>>

\* COMMIT; the answer may be lost on its way.
Committed(c, answer) == Finish(c, answer) \/ Finish(c, "failed")

\* A crash, a lost connection, a timeout, or a deadlock that PostgreSQL ends
\* with this call as its victim: the open transaction is rolled back.
Fail(c) ==
  /\ pc[c] \notin {"idle", "done"}
  /\ Finish(c, "failed")
  /\ UNCHANGED rows

-----------------------------------------------------------------------------
(* login                                                                   *)

LoginSubmit(c) ==
  /\ Move(c, "idle", "read")
  /\ "login" \in MayBe[c]
  /\ \E r \in Logins : request' = [request EXCEPT ![c] = r]
  /\ UNCHANGED <<rows, locks, seen, snapshot, outcome>>

\* findUnique, the lockout check, argon2.verify and needsRehash.
LoginRead(c) ==
  LET row == users[request[c].user] IN
  /\ pc[c] = "read" /\ row.lockout # "locked"
  /\ Move(c, "read", IF row.hash.password # request[c].password THEN "fail"
                     ELSE IF row.hash.outdated THEN "rehash" ELSE "reset")
  /\ seen' = [seen EXCEPT ![c] = row.failures]
  /\ UNCHANGED <<rows, locks, request, snapshot, outcome>>

LoginRefused(c) ==
  /\ pc[c] = "read"
  /\ users[request[c].user].lockout = "locked"
  /\ Finish(c, "unauthorized")
  /\ UNCHANGED rows

Counted(row, count, lockout) ==
  [row EXCEPT !.failures = count, !.lockout = lockout]

\* Mutant: the account is locked one failure too late.
HandleFailedLoginLate(c) ==
  LET u == request[c].user
      count == seen[c] + 1
  IN
  /\ pc[c] = "fail"
  /\ userLock[u] = NoCall
  /\ users' = [users EXCEPT ![u] = IF count > Threshold THEN Counted(@, 0, "locked")
                                  ELSE Counted(@, count, @.lockout)]
  /\ Finish(c, "unauthorized")
  /\ UNCHANGED sessions

\* The new count is computed from the row read before the verification.
HandleFailedLogin(c) ==
  LET u == request[c].user
      count == seen[c] + 1
  IN
  /\ pc[c] = "fail"
  /\ userLock[u] = NoCall
  /\ users' = [users EXCEPT ![u] = IF count >= Threshold THEN Counted(@, 0, "locked")
                                  ELSE Counted(@, count, @.lockout)]
  /\ Finish(c, "unauthorized")
  /\ UNCHANGED sessions

\* The password that was verified, under today's parameters.
Rehash(c) ==
  LET u == request[c].user IN
  /\ Move(c, "rehash", "reset")
  /\ userLock[u] = NoCall
  /\ users' = [users EXCEPT
       ![u].hash = [password |-> request[c].password, outdated |-> FALSE]]
  /\ UNCHANGED <<sessions, locks, request, seen, snapshot, outcome>>

ResetFailures(c) ==
  LET u == request[c].user IN
  /\ Move(c, "reset", "create")
  /\ userLock[u] = NoCall
  /\ users' = [users EXCEPT ![u] = Counted(@, 0, "never")]
  /\ UNCHANGED <<sessions, locks, request, seen, snapshot, outcome>>

CreateSession(c) ==
  /\ pc[c] = "create"
  /\ sessions' = [sessions EXCEPT ![c] = NewSession(request[c].user)]
  /\ Committed(c, "ok")
  /\ UNCHANGED users

-----------------------------------------------------------------------------
(* refresh                                                                 *)

\* A token nobody issued finds no row and changes nothing.
RefreshSubmit(c) ==
  /\ Move(c, "idle", "lock")
  /\ "refresh" \in MayBe[c]
  /\ \E r \in Refreshes :
       Exists(r.session) /\ request' = [request EXCEPT ![c] = r]
  /\ UNCHANGED <<rows, locks, seen, snapshot, outcome>>

\* Mutant: the row is read without FOR UPDATE.
LockTokenUnlocked(c) ==
  LET s == request[c].session IN
  /\ Move(c, "lock", IF Live(s) THEN "rotate" ELSE "snapshot")
  /\ ~sessions[s].expired
  /\ UNCHANGED <<rows, locks, request, seen, snapshot, outcome>>

\* SELECT ... FOR UPDATE waits for the row and reads its latest version.
LockToken(c) ==
  LET s == request[c].session IN
  /\ Move(c, "lock", IF Live(s) THEN "rotate" ELSE "snapshot")
  /\ sessionLock[s] = NoCall
  /\ ~sessions[s].expired
  /\ sessionLock' = [sessionLock EXCEPT ![s] = c]
  /\ UNCHANGED <<rows, userLock, request, seen, snapshot, outcome>>

TokenExpired(c) ==
  LET s == request[c].session IN
  /\ pc[c] = "lock"
  /\ sessionLock[s] = NoCall
  /\ sessions[s].expired
  /\ Finish(c, "expired")
  /\ UNCHANGED rows

\* Mutant: the old session is linked to its successor and not revoked.
CommitRotationUnrevoked(c) ==
  LET s == request[c].session IN
  /\ pc[c] = "rotate"
  /\ sessions' = [sessions EXCEPT ![c] = NewSession(sessions[s].user),
                                  ![s].replacedBy = c]
  /\ Committed(c, "ok")
  /\ UNCHANGED users

\* The successor is inserted and the old session revoked and linked to it,
\* rows that nobody else sees or locks before this COMMIT.
CommitRotation(c) ==
  LET s == request[c].session IN
  /\ pc[c] = "rotate"
  /\ sessions' = [sessions EXCEPT ![c] = NewSession(sessions[s].user),
                                  ![s].state = "revoked", ![s].replacedBy = c]
  /\ Committed(c, "ok")
  /\ UNCHANGED users

-----------------------------------------------------------------------------
(* The revoking UPDATE of refresh (reuse), logoutAll and changePassword    *)

UserOf(c) == sessions[request[c].session].user

\* The statement sees the rows committed when it starts.
TakeSnapshot(c) ==
  /\ Move(c, "snapshot", "revoke")
  /\ snapshot' = [snapshot EXCEPT ![c] =
                    {s \in Calls : Live(s) /\ sessions[s].user = UserOf(c)}]
  /\ UNCHANGED <<rows, locks, request, seen, outcome>>

\* It updates them one by one, in an order of its own, waiting for each.  A
\* row that was revoked while it waited no longer matches and is left alone.
RevokeRow(c) ==
  /\ pc[c] = "revoke"
  /\ \E s \in snapshot[c] :
       /\ Live(s)
       /\ sessionLock[s] = NoCall
       /\ sessionLock' = [sessionLock EXCEPT ![s] = c]
  /\ UNCHANGED <<rows, userLock, pc, request, seen, snapshot, outcome>>

Covered(c) == \A s \in snapshot[c] : Live(s) => sessionLock[s] = c

Revoked(c) ==
  [s \in Calls |-> IF s \in snapshot[c] /\ sessionLock[s] = c
                        THEN [sessions[s] EXCEPT !.state = "revoked"]
                        ELSE sessions[s]]

\* Mutant: the 401 is thrown inside the transaction and rolls it back.
CommitReuseThrown(c) ==
  /\ pc[c] = "revoke" /\ request[c].endpoint = "refresh"
  /\ Covered(c)
  /\ Finish(c, "reused")
  /\ UNCHANGED rows

\* Reuse: the revocation is committed before the 401 is thrown.
CommitReuse(c) ==
  /\ pc[c] = "revoke" /\ request[c].endpoint = "refresh"
  /\ Covered(c)
  /\ sessions' = Revoked(c)
  /\ Committed(c, "reused")
  /\ UNCHANGED users

-----------------------------------------------------------------------------
(* Calls with an access token: UserStatusGuard comes first                 *)

GuardedSubmit(c) ==
  /\ Move(c, "idle", "guard")
  /\ \E r \in Logouts \cup Changes :
       /\ r.endpoint \in MayBe[c]
       /\ Exists(r.session)
       /\ request' = [request EXCEPT ![c] = r]
  /\ UNCHANGED <<rows, locks, seen, snapshot, outcome>>

AfterGuard(endpoint) ==
  CASE endpoint = "logout" -> "logout"
    [] endpoint = "logoutAll" -> "snapshot"
    [] endpoint = "changePassword" -> "verify"

GuardPasses(c) ==
  LET s == request[c].session IN
  /\ pc[c] = "guard"
  /\ Live(s) /\ ~sessions[s].expired
  /\ pc' = [pc EXCEPT ![c] = AfterGuard(request[c].endpoint)]
  /\ UNCHANGED <<rows, locks, request, seen, snapshot, outcome>>

GuardRejects(c) ==
  LET s == request[c].session IN
  /\ pc[c] = "guard"
  /\ ~Live(s) \/ sessions[s].expired
  /\ Finish(c, "unauthorized")
  /\ UNCHANGED rows

\* One conditional UPDATE of one row.
Logout(c) ==
  LET s == request[c].session IN
  /\ pc[c] = "logout"
  /\ sessionLock[s] = NoCall
  /\ sessions' = IF Live(s) THEN [sessions EXCEPT ![s].state = "revoked"]
                            ELSE sessions
  /\ Committed(c, "ok")
  /\ UNCHANGED users

CommitLogoutAll(c) ==
  /\ pc[c] = "revoke" /\ request[c].endpoint = "logoutAll"
  /\ Covered(c)
  /\ sessions' = Revoked(c)
  /\ Committed(c, "ok")
  /\ UNCHANGED users

-----------------------------------------------------------------------------
(* changePassword                                                          *)

VerifyCurrent(c) ==
  /\ Move(c, "verify", "change")
  /\ users[UserOf(c)].hash.password = request[c].current
  /\ UNCHANGED <<rows, locks, request, seen, snapshot, outcome>>

RejectCurrent(c) ==
  /\ pc[c] = "verify"
  /\ users[UserOf(c)].hash.password # request[c].current
  /\ Finish(c, "unauthorized")
  /\ UNCHANGED rows

\* BEGIN; UPDATE users, not yet visible.
UpdatePassword(c) ==
  /\ Move(c, "change", "snapshot")
  /\ userLock[UserOf(c)] = NoCall
  /\ userLock' = [userLock EXCEPT ![UserOf(c)] = c]
  /\ UNCHANGED <<rows, sessionLock, request, seen, snapshot, outcome>>

CommitChange(c) ==
  /\ pc[c] = "revoke" /\ request[c].endpoint = "changePassword"
  /\ Covered(c)
  /\ sessions' = Revoked(c)
  /\ users' = [users EXCEPT
       ![UserOf(c)].hash = [password |-> request[c].password, outdated |-> FALSE]]
  /\ Committed(c, "ok")

-----------------------------------------------------------------------------
(* Time                                                                    *)

LockoutEnds(u) ==
  /\ users[u].lockout = "locked"
  /\ users' = [users EXCEPT ![u].lockout = "over"]
  /\ UNCHANGED <<sessions, locks, pc, request, seen, snapshot, outcome>>

SessionExpires(s) ==
  /\ Exists(s) /\ ~sessions[s].expired
  /\ Cardinality({t \in Calls : sessions[t].expired}) < MaxExpired
  /\ sessions' = [sessions EXCEPT ![s].expired = TRUE]
  /\ UNCHANGED <<users, locks, pc, request, seen, snapshot, outcome>>

Step(c) ==
  \/ LoginSubmit(c)
  \/ LoginRead(c)
  \/ LoginRefused(c)
  \/ HandleFailedLogin(c)
  \/ Rehash(c)
  \/ ResetFailures(c)
  \/ CreateSession(c)
  \/ RefreshSubmit(c)
  \/ LockToken(c)
  \/ TokenExpired(c)
  \/ CommitRotation(c)
  \/ TakeSnapshot(c)
  \/ RevokeRow(c)
  \/ CommitReuse(c)
  \/ GuardedSubmit(c)
  \/ GuardPasses(c)
  \/ GuardRejects(c)
  \/ Logout(c)
  \/ CommitLogoutAll(c)
  \/ VerifyCurrent(c)
  \/ RejectCurrent(c)
  \/ UpdatePassword(c)
  \/ CommitChange(c)
  \/ Fail(c)

Next ==
  \/ \E c \in Calls : Step(c)
  \/ \E u \in Users : LockoutEnds(u)
  \/ \E s \in Calls : SessionExpires(s)

Spec == Init /\ [][Next]_vars

-----------------------------------------------------------------------------
TypeOK ==
  /\ users \in [Users -> UserRows]
  /\ \A u \in Users : users[u].failures < Threshold
  /\ sessions \in [Calls -> SessionRows]
  /\ userLock \in [Users -> Calls \cup {NoCall}]
  /\ sessionLock \in [Calls -> Calls \cup {NoCall}]
  /\ pc \in [Calls -> Phases]
  /\ request \in [Calls -> Requests \cup {NoRequest}]
  /\ seen \in [Calls -> 0 .. Threshold - 1]
  /\ snapshot \in [Calls -> SUBSET Calls]
  /\ outcome \in [Calls -> Outcomes]

\* However many requests present one refresh token, at most one obtains a
\* successor, and then the token is dead and linked to it (ADR-027: the row
\* lock of refresh covers the read and both writes).
TokensRotateOnce ==
  \A c \in Calls : Exists(c) /\ request[c].endpoint = "refresh" =>
    LET s == request[c].session IN
    sessions[s].state = "revoked" /\ sessions[s].replacedBy = c

\* The login a session descends from by rotation.
Origin ==
  LET origin[s \in {t \in Calls : Exists(t)}] ==
        IF request[s].endpoint = "login" THEN s ELSE origin[request[s].session]
  IN origin

\* A login never has two live sessions, whatever is retried or raced.
OneLivePerLogin ==
  \A s, t \in DOMAIN Origin :
    Live(s) /\ Live(t) /\ Origin[s] = Origin[t] => s = t

\* When a revocation is answered, what its UPDATE saw is revoked, whether by
\* it or by another call it waited for; the answer 401 of a reused token does
\* not take the revocation back.
RevocationsTakeEffect ==
  [][\A c \in Calls :
       pc[c] = "revoke" /\ outcome'[c] \in {"ok", "reused"} =>
         \A s \in snapshot[c] : sessions'[s].state = "revoked"]_vars

\* AUTH_V2.md section 6: on reuse the entire session chain is revoked.  Once a
\* reused token is answered, no session of its login is live.
ReuseEndsChain ==
  [][\A c \in Calls :
       outcome[c] # "reused" /\ outcome'[c] = "reused" =>
         \A s \in DOMAIN Origin' :
           Origin'[s] = Origin[request[c].session] =>
             sessions'[s].state = "revoked"]_vars

\* AUTH_V2.md section 5: re-hashing is transparent.  Which password an account
\* has changes only by changePassword.
RehashIsTransparent ==
  [][\A u \in Users :
       users'[u].hash.password # users[u].hash.password =>
         \E c \in Calls : CommitChange(c) /\ UserOf(c) = u]_vars

\* AUTH_V2.md section 7: an account is locked after Threshold consecutive
\* failures.  If that many logins came in and all of them failed, it has been.
LockedAfterThreshold ==
  \A u \in Users :
    LET logins == {c \in Calls : request[c].endpoint = "login" /\ request[c].user = u} IN
    /\ Cardinality(logins) >= Threshold
    /\ \A c \in logins : outcome[c] = "unauthorized"
    => users[u].lockout # "never"
=============================================================================
