------------------------- MODULE AuthSessionsProofs -------------------------
(***************************************************************************)
(* Proofs about AuthSessions, for any users, passwords, calls and          *)
(* lockout threshold.                                                      *)
(***************************************************************************)
EXTENDS AuthSessions, TLAPS

WithSession == Refreshes \cup Logouts \cup Changes

\* What a call carries fits where it is.
RequestsFit ==
  \A c \in Calls :
    /\ pc[c] \in {"read", "fail", "rehash", "reset", "create"} => request[c] \in Logins
    /\ pc[c] \in {"lock", "rotate"} => request[c] \in Refreshes
    /\ pc[c] = "guard" => request[c] \in Logouts \cup Changes
    /\ pc[c] = "logout" => request[c] \in Logouts
    /\ pc[c] \in {"verify", "change"} => request[c] \in Changes
    /\ pc[c] \in {"snapshot", "revoke"} => request[c] \in WithSession

\* Tokens and sids were handed out by calls that have ended, to users.
SessionsAreReal ==
  /\ \A c \in Calls : Exists(c) => pc[c] = "done" /\ sessions[c].user \in Users
  /\ \A c \in Calls : request[c] \in WithSession => Exists(request[c].session)
  /\ \A c \in Calls : \A s \in snapshot[c] : Exists(s)

\* From its check to its COMMIT a rotation holds the token, which stays live.
RotatesLive ==
  \A c \in Calls : pc[c] = "rotate" =>
    /\ Live(request[c].session)
    /\ sessionLock[request[c].session] = c

\* A call has an answer only at its end.
AnswersEnd ==
  \A c \in Calls : pc[c] # "done" => outcome[c] = "none"

IInv ==
  /\ TypeOK
  /\ RequestsFit
  /\ SessionsAreReal
  /\ RotatesLive
  /\ AnswersEnd
  /\ TokensRotateOnce

-----------------------------------------------------------------------------
(* Locks, snapshots and answers: what Finish leaves behind                 *)

\* Giving up the locks of a call keeps the other holders.
LEMMA FreeTyped ==
  ASSUME NEW R, NEW lock \in [R -> Calls \cup {NoCall}], NEW c
  PROVE  /\ Free(lock, c) \in [R -> Calls \cup {NoCall}]
         /\ \A r \in R : lock[r] # c => Free(lock, c)[r] = lock[r]
  BY DEF Free

\* The types of everything but the two tables.
RestIsTyped ==
  /\ userLock \in [Users -> Calls \cup {NoCall}]
  /\ sessionLock \in [Calls -> Calls \cup {NoCall}]
  /\ pc \in [Calls -> Phases]
  /\ request \in [Calls -> Requests \cup {NoRequest}]
  /\ seen \in [Calls -> 0 .. Threshold - 1]
  /\ snapshot \in [Calls -> SUBSET Calls]
  /\ outcome \in [Calls -> Outcomes]

\* A call that ends keeps the types of everything but the tables.
LEMMA FinishTyped ==
  ASSUME RestIsTyped, NEW c \in Calls, NEW answer \in Outcomes, Finish(c, answer)
  PROVE  RestIsTyped'
<1>1. userLock' \in [Users -> Calls \cup {NoCall}]
  BY FreeTyped DEF RestIsTyped, Finish
<1>2. sessionLock' \in [Calls -> Calls \cup {NoCall}]
  BY FreeTyped DEF RestIsTyped, Finish
<1> QED
  BY <1>1, <1>2 DEF RestIsTyped, Finish, Phases

\* A session row that is created, revoked, linked or expired is a row.
LEMMA RowsTyped ==
  ASSUME NEW r \in SessionRows
  PROVE  /\ \A u \in Users : NewSession(u) \in SessionRows
         /\ [r EXCEPT !.state = "revoked"] \in SessionRows
         /\ [r EXCEPT !.expired = TRUE] \in SessionRows
         /\ \A c \in Calls :
              [r EXCEPT !.state = "revoked", !.replacedBy = c] \in SessionRows
  BY DEF SessionRows, NewSession
-----------------------------------------------------------------------------
(* Every step changes the sessions table in one of five ways.              *)

Touched(R, c) ==
  /\ \A s \in R : sessionLock[s] \in {c, NoCall}
  /\ sessions' = [s \in Calls |-> IF s \in R THEN [sessions[s] EXCEPT !.state = "revoked"]
                                             ELSE sessions[s]]

SessionsChange ==
  \/ UNCHANGED sessions
  \/ \E c \in Calls : CreateSession(c)
  \/ \E c \in Calls : CommitRotation(c)
  \/ \E c \in Calls : \E R \in SUBSET Calls :
       /\ \A s \in R : Exists(s)
       /\ pc[c] \in {"logout", "revoke"}
       /\ Touched(R, c)
  \/ \E s \in Calls : SessionExpires(s)

\* The five ways a step changes the sessions table.
LEMMA SessionShapes ==
  ASSUME IInv, [Next]_vars
  PROVE  SessionsChange
<1>1. CASE UNCHANGED vars
  BY <1>1 DEF vars, rows, SessionsChange
<1>2. ASSUME NEW u \in Users, LockoutEnds(u) PROVE SessionsChange
  BY <1>2 DEF LockoutEnds, SessionsChange
<1>3. ASSUME NEW s \in Calls, SessionExpires(s) PROVE SessionsChange
  BY <1>3 DEF SessionsChange
<1>4. ASSUME NEW c \in Calls, Step(c) PROVE SessionsChange
  <2>1. CASE CreateSession(c) \/ CommitRotation(c)
    BY <2>1 DEF SessionsChange
  <2>2. CASE Logout(c)
    <3> DEFINE s == request[c].session
               R == IF Live(s) THEN {s} ELSE {}
    <3>1. s \in Calls /\ Exists(s)
      BY <2>2 DEF Logout, IInv, RequestsFit, SessionsAreReal, WithSession, Logouts
    <3>2. sessions \in [Calls -> SessionRows]
      BY DEF IInv, TypeOK
    <3>3. Touched(R, c)
      BY <2>2, <3>1, <3>2 DEF Logout, Touched
    <3>4. pc[c] = "logout"
      BY <2>2 DEF Logout
    <3> QED
      BY <3>1, <3>3, <3>4 DEF SessionsChange
  <2>3. CASE CommitReuse(c) \/ CommitLogoutAll(c) \/ CommitChange(c)
    <3> DEFINE R == {s \in snapshot[c] : sessionLock[s] = c}
    <3>1. R \in SUBSET Calls /\ \A s \in R : Exists(s)
      BY DEF IInv, TypeOK, SessionsAreReal
    <3>2. sessions' = Revoked(c) /\ pc[c] = "revoke"
      BY <2>3 DEF CommitReuse, CommitLogoutAll, CommitChange
    <3>3. Touched(R, c)
      BY <3>2 DEF Touched, Revoked
    <3> QED
      BY <3>1, <3>2, <3>3 DEF SessionsChange
  <2>4. CASE \/ LoginSubmit(c) \/ LoginRead(c) \/ LoginRefused(c)
             \/ HandleFailedLogin(c) \/ Rehash(c) \/ ResetFailures(c)
             \/ RefreshSubmit(c) \/ LockToken(c) \/ TokenExpired(c)
    BY <2>4 DEF LoginSubmit, LoginRead, LoginRefused, HandleFailedLogin, Rehash,
                ResetFailures, RefreshSubmit, LockToken, TokenExpired, rows, SessionsChange
  <2>5. CASE \/ TakeSnapshot(c) \/ RevokeRow(c) \/ GuardedSubmit(c) \/ GuardPasses(c)
             \/ GuardRejects(c) \/ VerifyCurrent(c) \/ RejectCurrent(c)
             \/ UpdatePassword(c) \/ Fail(c)
    BY <2>5 DEF TakeSnapshot, RevokeRow, GuardedSubmit, GuardPasses, GuardRejects,
                VerifyCurrent, RejectCurrent, UpdatePassword, Fail, rows, SessionsChange
  <2> QED
    BY <1>4, <2>1, <2>2, <2>3, <2>4, <2>5 DEF Step
<1> QED
  BY <1>1, <1>2, <1>3, <1>4 DEF Next

-----------------------------------------------------------------------------
(* Each part of the invariant is kept.                                     *)

\* The types of the sessions table are kept.
LEMMA SessionsTyped ==
  ASSUME IInv, SessionsChange
  PROVE  sessions' \in [Calls -> SessionRows]
<1>0. sessions \in [Calls -> SessionRows]
  BY DEF IInv, TypeOK
<1>1. ASSUME NEW c \in Calls, CreateSession(c) PROVE sessions' \in [Calls -> SessionRows]
  <2>1. request[c].user \in Users
    BY <1>1 DEF CreateSession, IInv, RequestsFit, Logins
  <2> QED
    BY <1>0, <1>1, <2>1, RowsTyped DEF CreateSession
<1>2. ASSUME NEW c \in Calls, CommitRotation(c) PROVE sessions' \in [Calls -> SessionRows]
  <2> DEFINE s == request[c].session
  <2>1. s \in Calls /\ Live(s)
    BY <1>2 DEF CommitRotation, IInv, RequestsFit, RotatesLive, Refreshes
  <2>2. sessions[s].user \in Users
    BY <2>1 DEF IInv, SessionsAreReal, Exists, Live
  <2>3. sessions' = [sessions EXCEPT ![c] = NewSession(sessions[s].user),
                                     ![s].state = "revoked", ![s].replacedBy = c]
    BY <1>2 DEF CommitRotation
  <2>4. s # c
    BY <1>2, <2>1 DEF CommitRotation, IInv, SessionsAreReal, Exists, Live
  <2>5. sessions' = [sessions EXCEPT ![c] = NewSession(sessions[s].user),
          ![s] = [sessions[s] EXCEPT !.state = "revoked", !.replacedBy = c]]
    BY <1>0, <2>1, <2>3, <2>4
  <2> QED
    BY <1>0, <2>1, <2>2, <2>5, RowsTyped
<1>3. ASSUME NEW c \in Calls, NEW R \in SUBSET Calls, Touched(R, c)
      PROVE  sessions' \in [Calls -> SessionRows]
  BY <1>0, <1>3, RowsTyped DEF Touched
<1>4. ASSUME NEW s \in Calls, SessionExpires(s) PROVE sessions' \in [Calls -> SessionRows]
  <2>1. sessions' = [sessions EXCEPT ![s] = [sessions[s] EXCEPT !.expired = TRUE]]
    BY <1>0, <1>4 DEF SessionExpires
  <2> QED
    BY <1>0, <2>1, RowsTyped
<1> QED
  BY <1>0, <1>1, <1>2, <1>3, <1>4 DEF SessionsChange

\* A users row with another count and lockout is a row with that count.
LEMMA CountTyped ==
  ASSUME NEW row \in UserRows, NEW n \in Nat, NEW l \in Lockouts
  PROVE  Counted(row, n, l) \in UserRows /\ Counted(row, n, l).failures = n
<1> DEFINE r == [row EXCEPT !.failures = n]
<1>1. Counted(row, n, l) = [r EXCEPT !.lockout = l]
  BY DEF Counted
<1>2. r \in UserRows /\ r.failures = n
  BY DEF UserRows
<1> HIDE DEF r
<1> QED
  BY <1>1, <1>2 DEF UserRows

\* The types of the users table, and the count below the threshold, are kept.
LEMMA UsersTyped ==
  ASSUME IInv, [Next]_vars
  PROVE  users' \in [Users -> UserRows] /\ \A u \in Users : users'[u].failures < Threshold
<1>0. /\ users \in [Users -> UserRows]
      /\ \A u \in Users : users[u].failures < Threshold
      /\ Threshold \in Nat \ {0}
  BY AuthAssumption DEF IInv, TypeOK
<1>1. ASSUME UNCHANGED users
      PROVE  users' \in [Users -> UserRows] /\ \A u \in Users : users'[u].failures < Threshold
  BY <1>0, <1>1
<1>2. ASSUME NEW u \in Users, NEW r \in UserRows, r.failures < Threshold,
             users' = [users EXCEPT ![u] = r]
      PROVE  users' \in [Users -> UserRows] /\ \A v \in Users : users'[v].failures < Threshold
  BY <1>0, <1>2
<1>3. ASSUME NEW u \in Users, LockoutEnds(u)
      PROVE  users' \in [Users -> UserRows] /\ \A v \in Users : users'[v].failures < Threshold
  <2> DEFINE r == [users[u] EXCEPT !.lockout = "over"]
  <2>1. r \in UserRows /\ r.failures < Threshold
    BY <1>0 DEF UserRows, Lockouts
  <2>2. users' = [users EXCEPT ![u] = r]
    BY <1>0, <1>3 DEF LockoutEnds
  <2> HIDE DEF r
  <2> QED
    BY <1>2, <2>1, <2>2
<1>4. ASSUME NEW c \in Calls, HandleFailedLogin(c)
      PROVE  users' \in [Users -> UserRows] /\ \A v \in Users : users'[v].failures < Threshold
  <2> DEFINE u == request[c].user
             count == seen[c] + 1
             r == IF count >= Threshold THEN Counted(users[u], 0, "locked")
                  ELSE Counted(users[u], count, users[u].lockout)
  <2>1. u \in Users
    BY <1>4 DEF HandleFailedLogin, IInv, RequestsFit, Logins
  <2>2. count \in Nat
    BY <1>0 DEF IInv, TypeOK
  <2>3. users[u] \in UserRows /\ users[u].lockout \in Lockouts /\ "locked" \in Lockouts
    BY <1>0, <2>1 DEF UserRows, Lockouts
  <2>4. r \in UserRows /\ r.failures < Threshold
    <3>1. CASE count >= Threshold
      <4>1. r = Counted(users[u], 0, "locked") /\ 0 \in Nat
        BY <3>1
      <4> HIDE DEF r, count
      <4> QED
        BY <1>0, <2>3, <4>1, CountTyped
    <3>2. CASE ~(count >= Threshold)
      <4>1. r = Counted(users[u], count, users[u].lockout) /\ count < Threshold
        BY <1>0, <2>2, <3>2
      <4> HIDE DEF r, count
      <4> QED
        BY <1>0, <2>2, <2>3, <4>1, CountTyped
    <3> QED
      BY <3>1, <3>2
  <2>5. users' = [users EXCEPT ![u] = r]
    BY <1>4 DEF HandleFailedLogin
  <2> HIDE DEF r, u
  <2> QED
    BY <1>2, <2>1, <2>4, <2>5
<1>5. ASSUME NEW c \in Calls, Rehash(c)
      PROVE  users' \in [Users -> UserRows] /\ \A v \in Users : users'[v].failures < Threshold
  <2> DEFINE u == request[c].user
             r == [users[u] EXCEPT
                     !.hash = [password |-> request[c].password, outdated |-> FALSE]]
  <2>1. u \in Users /\ request[c].password \in Passwords
    BY <1>5 DEF Rehash, Move, IInv, RequestsFit, Logins
  <2>2. r \in UserRows /\ r.failures < Threshold
    BY <1>0, <2>1 DEF UserRows, Hashes
  <2>3. users' = [users EXCEPT ![u] = r]
    BY <1>0, <1>5, <2>1 DEF Rehash
  <2> HIDE DEF r, u
  <2> QED
    BY <1>2, <2>1, <2>2, <2>3
<1>6. ASSUME NEW c \in Calls, ResetFailures(c)
      PROVE  users' \in [Users -> UserRows] /\ \A v \in Users : users'[v].failures < Threshold
  <2> DEFINE u == request[c].user
             r == Counted(users[u], 0, "never")
  <2>1. u \in Users
    BY <1>6 DEF ResetFailures, Move, IInv, RequestsFit, Logins
  <2>4. users[u] \in UserRows /\ "never" \in Lockouts
    BY <1>0, <2>1 DEF Lockouts
  <2>2. r \in UserRows /\ r.failures < Threshold
    BY <1>0, <2>4, CountTyped
  <2>3. users' = [users EXCEPT ![u] = r]
    BY <1>6 DEF ResetFailures
  <2> HIDE DEF r, u
  <2> QED
    BY <1>2, <2>1, <2>2, <2>3
<1>7. ASSUME NEW c \in Calls, CommitChange(c)
      PROVE  users' \in [Users -> UserRows] /\ \A v \in Users : users'[v].failures < Threshold
  <2> DEFINE u == UserOf(c)
             r == [users[u] EXCEPT
                     !.hash = [password |-> request[c].password, outdated |-> FALSE]]
  <2>1. request[c] \in Changes
    BY <1>7 DEF CommitChange, IInv, RequestsFit, WithSession, Refreshes, Logouts
  <2>2. u \in Users /\ request[c].password \in Passwords
    BY <2>1 DEF IInv, SessionsAreReal, WithSession, Changes, UserOf
  <2>3. r \in UserRows /\ r.failures < Threshold
    BY <1>0, <2>2 DEF UserRows, Hashes
  <2>4. users' = [users EXCEPT ![u] = r]
    BY <1>0, <1>7, <2>2 DEF CommitChange
  <2> HIDE DEF r, u
  <2> QED
    BY <1>2, <2>2, <2>3, <2>4
<1>8. ASSUME NEW c \in Calls, Step(c),
             ~HandleFailedLogin(c), ~Rehash(c), ~ResetFailures(c), ~CommitChange(c)
      PROVE  UNCHANGED users
  BY <1>8 DEF Step, LoginSubmit, LoginRead, LoginRefused, CreateSession, RefreshSubmit,
     LockToken, TokenExpired, CommitRotation, TakeSnapshot, RevokeRow, CommitReuse,
     GuardedSubmit, GuardPasses, GuardRejects, Logout, CommitLogoutAll, VerifyCurrent,
     RejectCurrent, UpdatePassword, Fail, rows
<1>9. CASE UNCHANGED vars
  BY <1>1, <1>9 DEF vars, rows
<1>10. CASE \E s \in Calls : SessionExpires(s)
  BY <1>1, <1>10 DEF SessionExpires
<1> QED
  BY <1>1, <1>3, <1>4, <1>5, <1>6, <1>7, <1>8, <1>9, <1>10 DEF Next

\* The actions that end a call.
Ends(c) ==
  \/ LoginRefused(c) \/ HandleFailedLogin(c) \/ CreateSession(c) \/ TokenExpired(c)
  \/ CommitRotation(c) \/ CommitReuse(c) \/ GuardRejects(c) \/ Logout(c)
  \/ CommitLogoutAll(c) \/ RejectCurrent(c) \/ CommitChange(c) \/ Fail(c)

\* An action that ends a call gives it one answer.
LEMMA EndsFinish ==
  ASSUME NEW c \in Calls, Ends(c)
  PROVE  \E answer \in Outcomes \ {"none"} : Finish(c, answer)
  BY DEF Ends, LoginRefused, HandleFailedLogin, CreateSession, TokenExpired, CommitRotation,
     CommitReuse, GuardRejects, Logout, CommitLogoutAll, RejectCurrent, CommitChange, Fail,
     Committed, Outcomes

\* The types of everything but the two tables are kept.
LEMMA RestTyped ==
  ASSUME IInv, [Next]_vars
  PROVE  RestIsTyped'
<1>0. RestIsTyped
  BY DEF IInv, TypeOK, RestIsTyped
<1>1. ASSUME NEW c \in Calls, Ends(c) PROVE RestIsTyped'
  BY <1>0, <1>1, EndsFinish, FinishTyped
<1>2. ASSUME NEW c \in Calls, LoginSubmit(c) \/ RefreshSubmit(c) \/ GuardedSubmit(c)
      PROVE  RestIsTyped'
  BY <1>0, <1>2 DEF RestIsTyped, LoginSubmit, RefreshSubmit, GuardedSubmit,
                    Move, Phases, Requests, locks
<1>3. ASSUME NEW c \in Calls, LoginRead(c) PROVE RestIsTyped'
  <2>1. request[c].user \in Users
    BY <1>3 DEF LoginRead, IInv, RequestsFit, Logins
  <2>2. users[request[c].user].failures \in 0 .. Threshold - 1
    BY <2>1, AuthAssumption DEF IInv, TypeOK, UserRows
  <2>3. /\ seen' = [seen EXCEPT ![c] = users[request[c].user].failures]
        /\ UNCHANGED <<userLock, sessionLock, request, snapshot, outcome>>
    BY <1>3 DEF LoginRead, locks
  <2>4. pc' \in [Calls -> Phases]
    BY <1>0, <1>3 DEF LoginRead, Move, Phases, RestIsTyped
  <2> QED
    BY <1>0, <2>2, <2>3, <2>4 DEF RestIsTyped
<1>4. ASSUME NEW c \in Calls, LockToken(c) \/ RevokeRow(c) PROVE RestIsTyped'
  BY <1>0, <1>4 DEF LockToken, RevokeRow, RestIsTyped, Move, Phases
<1>5. ASSUME NEW c \in Calls, \/ Rehash(c) \/ ResetFailures(c) \/ TakeSnapshot(c)
                              \/ VerifyCurrent(c) \/ UpdatePassword(c)
      PROVE  RestIsTyped'
  BY <1>0, <1>5 DEF Rehash, ResetFailures, TakeSnapshot, VerifyCurrent, UpdatePassword,
                    RestIsTyped, Move, Phases, locks
<1>6. ASSUME NEW c \in Calls, GuardPasses(c) PROVE RestIsTyped'
  <2>1. request[c].endpoint \in {"logout", "logoutAll", "changePassword"}
    BY <1>6 DEF GuardPasses, IInv, RequestsFit, Logouts, Changes
  <2>2. AfterGuard(request[c].endpoint) \in Phases
    BY <2>1 DEF AfterGuard, Phases
  <2> QED
    BY <1>0, <1>6, <2>2 DEF GuardPasses, RestIsTyped, locks
<1>7. CASE UNCHANGED vars
  BY <1>0, <1>7 DEF vars, locks, RestIsTyped
<1>8. CASE (\E u \in Users : LockoutEnds(u)) \/ (\E s \in Calls : SessionExpires(s))
  BY <1>0, <1>8 DEF LockoutEnds, SessionExpires, locks, RestIsTyped
<1> QED
  BY <1>1, <1>2, <1>3, <1>4, <1>5, <1>6, <1>7, <1>8 DEF Next, Step, Ends

\* What is kept of the other calls when one takes a step.
OthersKept(c) ==
  \A d \in Calls \ {c} :
    /\ pc'[d] = pc[d] /\ request'[d] = request[d]
    /\ snapshot'[d] = snapshot[d] /\ outcome'[d] = outcome[d]
    /\ \A s \in Calls : sessionLock[s] = d => sessionLock'[s] = d

\* A step of one call leaves the others, and the sessions they hold, alone.
LEMMA StepIsLocal ==
  ASSUME IInv, NEW c \in Calls, Step(c)
  PROVE  OthersKept(c) /\ pc[c] # "done"
<1>0. RestIsTyped /\ NoCall \notin Calls
  BY AuthAssumption DEF IInv, TypeOK, RestIsTyped
<1>1. CASE Ends(c)
  <2>1. PICK answer \in Outcomes : Finish(c, answer)
    BY <1>1, EndsFinish
  <2>2. OthersKept(c)
    BY <1>0, <2>1, FreeTyped DEF Finish, OthersKept, RestIsTyped
  <2>3. pc[c] # "done"
    BY <1>1 DEF Ends, LoginRefused, HandleFailedLogin, CreateSession, TokenExpired,
       CommitRotation, CommitReuse, GuardRejects, Logout, CommitLogoutAll, RejectCurrent,
       CommitChange, Fail
  <2> QED
    BY <2>2, <2>3
<1>2. CASE LoginSubmit(c) \/ RefreshSubmit(c) \/ GuardedSubmit(c)
  BY <1>0, <1>2 DEF LoginSubmit, RefreshSubmit, GuardedSubmit, Move, locks, OthersKept,
                    RestIsTyped
<1>3. CASE \/ LoginRead(c) \/ Rehash(c) \/ ResetFailures(c) \/ TakeSnapshot(c)
           \/ VerifyCurrent(c) \/ UpdatePassword(c) \/ GuardPasses(c)
  BY <1>0, <1>3 DEF LoginRead, Rehash, ResetFailures, TakeSnapshot, VerifyCurrent,
                    UpdatePassword, GuardPasses, Move, locks, OthersKept, RestIsTyped
<1>4. CASE LockToken(c) \/ RevokeRow(c)
  BY <1>0, <1>4 DEF LockToken, RevokeRow, Move, OthersKept, RestIsTyped
<1> QED
  BY <1>1, <1>2, <1>3, <1>4 DEF Step, Ends

\* Requests keep fitting where their calls are.
LEMMA RequestsFitKept ==
  ASSUME IInv, [Next]_vars
  PROVE  RequestsFit'
<1>0. RestIsTyped /\ RequestsFit
  BY DEF IInv, TypeOK, RestIsTyped
<1>1. ASSUME NEW c \in Calls, Step(c) PROVE RequestsFit'
  <2> DEFINE Fits(p, r) ==
        /\ p \in {"read", "fail", "rehash", "reset", "create"} => r \in Logins
        /\ p \in {"lock", "rotate"} => r \in Refreshes
        /\ p = "guard" => r \in Logouts \cup Changes
        /\ p = "logout" => r \in Logouts
        /\ p \in {"verify", "change"} => r \in Changes
        /\ p \in {"snapshot", "revoke"} => r \in WithSession
  <2>0. Fits(pc[c], request[c])
    BY <1>0 DEF RequestsFit
  <2>1. ASSUME Ends(c) PROVE Fits(pc'[c], request'[c])
    <3>1. pc'[c] = "done"
      BY <1>0, <2>1, EndsFinish DEF Finish, RestIsTyped
    <3> QED
      BY <3>1
  <2>2. ASSUME LoginSubmit(c) \/ RefreshSubmit(c) \/ GuardedSubmit(c)
        PROVE  Fits(pc'[c], request'[c])
    BY <1>0, <2>2 DEF LoginSubmit, RefreshSubmit, GuardedSubmit, Move, RestIsTyped
  <2>3. ASSUME \/ LoginRead(c) \/ Rehash(c) \/ ResetFailures(c) \/ TakeSnapshot(c)
               \/ VerifyCurrent(c) \/ UpdatePassword(c) \/ LockToken(c) \/ RevokeRow(c)
        PROVE  Fits(pc'[c], request'[c])
    BY <1>0, <2>0, <2>3 DEF LoginRead, Rehash, ResetFailures, TakeSnapshot, VerifyCurrent,
       UpdatePassword, LockToken, RevokeRow, Move, RestIsTyped, WithSession
  <2>4. ASSUME GuardPasses(c) PROVE Fits(pc'[c], request'[c])
    <3>1. request'[c] = request[c] /\ request[c] \in Logouts \cup Changes
      BY <2>0, <2>4 DEF GuardPasses
    <3>2. pc'[c] = AfterGuard(request[c].endpoint)
      BY <1>0, <2>4 DEF GuardPasses, RestIsTyped
    <3>3. CASE request[c] \in Logouts
      <4>1. pc'[c] \in {"logout", "snapshot"}
        BY <3>2, <3>3 DEF AfterGuard, Logouts
      <4> QED
        BY <3>1, <3>3, <4>1 DEF WithSession
    <3>4. CASE request[c] \in Changes
      <4>1. pc'[c] = "verify"
        BY <3>2, <3>4 DEF AfterGuard, Changes
      <4> QED
        BY <3>1, <3>4, <4>1
    <3> QED
      BY <3>1, <3>3, <3>4
  <2>5. Fits(pc'[c], request'[c])
    BY <1>1, <2>1, <2>2, <2>3, <2>4 DEF Step, Ends
  <2>6. OthersKept(c)
    BY <1>1, StepIsLocal
  <2> QED
    BY <1>0, <2>5, <2>6 DEF RequestsFit, OthersKept
<1>2. CASE UNCHANGED vars
  BY <1>0, <1>2 DEF vars, RequestsFit
<1>3. CASE (\E u \in Users : LockoutEnds(u)) \/ (\E s \in Calls : SessionExpires(s))
  BY <1>0, <1>3 DEF LockoutEnds, SessionExpires, RequestsFit
<1> QED
  BY <1>1, <1>2, <1>3 DEF Next

\* A row of sessions only moves forward: it is never deleted or revived, and a
\* revoked one keeps its successor.
LEMMA SessionsForward ==
  ASSUME IInv, SessionsChange, NEW s \in Calls, Exists(s)
  PROVE  /\ Exists(s)' /\ sessions'[s].user = sessions[s].user
         /\ sessions[s].state = "revoked" =>
              /\ sessions'[s].state = "revoked"
              /\ sessions'[s].replacedBy = sessions[s].replacedBy
<1>0. sessions \in [Calls -> SessionRows] /\ sessions[s] \in SessionRows /\ pc[s] = "done"
  BY DEF IInv, TypeOK, SessionsAreReal
<1>1. CASE UNCHANGED sessions
  BY <1>1 DEF Exists
<1>2. CASE \E c \in Calls : CreateSession(c)
  BY <1>0, <1>2 DEF CreateSession, Exists
<1>3. ASSUME NEW c \in Calls, CommitRotation(c)
      PROVE  /\ Exists(s)' /\ sessions'[s].user = sessions[s].user
             /\ sessions[s].state = "revoked" => sessions'[s] = sessions[s]
  <2> DEFINE t == request[c].session
  <2>1. t \in Calls /\ Live(t) /\ s # c
    BY <1>0, <1>3 DEF CommitRotation, IInv, RequestsFit, RotatesLive, Refreshes
  <2>2. sessions' = [sessions EXCEPT ![c] = NewSession(sessions[t].user),
                                     ![t].state = "revoked", ![t].replacedBy = c]
    BY <1>3 DEF CommitRotation
  <2> HIDE DEF t
  <2>3. CASE s = t
    BY <1>0, <2>1, <2>2, <2>3 DEF Exists, Live, SessionRows
  <2>4. CASE s # t
    BY <1>0, <2>1, <2>2, <2>4 DEF Exists
  <2> QED
    BY <2>3, <2>4
<1>4. CASE \E c \in Calls : \E R \in SUBSET Calls : Touched(R, c)
  BY <1>0, <1>4 DEF Touched, Exists, SessionRows
<1>5. CASE \E t \in Calls : SessionExpires(t)
  BY <1>0, <1>5 DEF SessionExpires, Exists, SessionRows
<1> QED
  BY <1>1, <1>2, <1>3, <1>4, <1>5 DEF SessionsChange

\* A session comes into being only as its call ends well.
LEMMA SessionsBegin ==
  ASSUME IInv, [Next]_vars, NEW s \in Calls, ~Exists(s), Exists(s)'
  PROVE  /\ CreateSession(s) \/ CommitRotation(s)
         /\ pc'[s] = "done" /\ request'[s] = request[s]
         /\ sessions'[s].user \in Users
<1>0. sessions \in [Calls -> SessionRows] /\ pc \in [Calls -> Phases]
  BY DEF IInv, TypeOK
<1>1. SessionsChange
  BY SessionShapes
<1>2. CASE UNCHANGED sessions
  BY <1>2 DEF Exists
<1>3. ASSUME NEW c \in Calls, CreateSession(c) PROVE c = s /\ sessions'[s].user \in Users
  <2>1. request[c].user \in Users
    BY <1>3 DEF CreateSession, IInv, RequestsFit, Logins
  <2> QED
    BY <1>0, <1>3, <2>1 DEF CreateSession, Exists, NewSession
<1>4. ASSUME NEW c \in Calls, CommitRotation(c) PROVE c = s /\ sessions'[s].user \in Users
  <2> DEFINE t == request[c].session
  <2>1. t \in Calls /\ Exists(t) /\ sessions[t].user \in Users
    BY <1>4 DEF CommitRotation, IInv, RequestsFit, RotatesLive, Refreshes, SessionsAreReal,
                Exists, Live
  <2>2. sessions' = [sessions EXCEPT ![c] = NewSession(sessions[t].user),
                                     ![t].state = "revoked", ![t].replacedBy = c]
    BY <1>4 DEF CommitRotation
  <2> HIDE DEF t
  <2>3. c # s => sessions'[s] = sessions[s]
    BY <1>0, <2>1, <2>2
  <2>4. c = s
    BY <2>3 DEF Exists
  <2> QED
    BY <1>0, <2>1, <2>2, <2>4 DEF NewSession
<1>5. ~ \E c \in Calls : \E R \in SUBSET Calls : (\A t \in R : Exists(t)) /\ Touched(R, c)
  BY <1>0 DEF Touched, Exists, SessionRows
<1>6. ~ \E t \in Calls : SessionExpires(t)
  BY <1>0 DEF SessionExpires, Exists, SessionRows
<1>7. CreateSession(s) \/ CommitRotation(s)
  BY <1>1, <1>2, <1>3, <1>4, <1>5, <1>6 DEF SessionsChange
<1>8. pc'[s] = "done" /\ request'[s] = request[s]
  BY <1>0, <1>7 DEF CreateSession, CommitRotation, Committed, Finish
<1> QED
  BY <1>3, <1>4, <1>7, <1>8

\* A call that has ended is never heard of again.
LEMMA DoneIsStable ==
  ASSUME IInv, [Next]_vars, NEW c \in Calls, pc[c] = "done"
  PROVE  pc'[c] = "done" /\ request'[c] = request[c] /\ outcome'[c] = outcome[c]
<1>1. ASSUME NEW d \in Calls, Step(d)
      PROVE  pc'[c] = "done" /\ request'[c] = request[c] /\ outcome'[c] = outcome[c]
  BY <1>1, StepIsLocal DEF OthersKept
<1>2. CASE UNCHANGED vars
  BY <1>2 DEF vars
<1>3. CASE (\E u \in Users : LockoutEnds(u)) \/ (\E s \in Calls : SessionExpires(s))
  BY <1>3 DEF LockoutEnds, SessionExpires
<1> QED
  BY <1>1, <1>2, <1>3 DEF Next

\* Where the requests and snapshots of a step come from.
LEMMA RequestsBegin ==
  ASSUME IInv, [Next]_vars, NEW c \in Calls
  PROVE  /\ \/ request'[c] = request[c]
            \/ request'[c] \in Logins
            \/ request'[c] \in WithSession /\ Exists(request'[c].session)
         /\ \A s \in snapshot'[c] : s \in snapshot[c] \/ Exists(s)
<1> DEFINE Real ==
      /\ \/ request'[c] = request[c]
         \/ request'[c] \in Logins
         \/ request'[c] \in WithSession /\ Exists(request'[c].session)
      /\ \A s \in snapshot'[c] : s \in snapshot[c] \/ Exists(s)
<1>0. RestIsTyped
  BY DEF IInv, TypeOK, RestIsTyped
<1>1. ASSUME NEW d \in Calls, Step(d), d # c PROVE Real
  BY <1>1, StepIsLocal DEF OthersKept
<1>2. ASSUME Ends(c) PROVE Real
  BY <1>0, <1>2, EndsFinish DEF Finish, RestIsTyped
<1>3. ASSUME LoginSubmit(c) \/ RefreshSubmit(c) \/ GuardedSubmit(c) PROVE Real
  BY <1>0, <1>3 DEF LoginSubmit, RefreshSubmit, GuardedSubmit, WithSession, RestIsTyped
<1>4. ASSUME \/ LoginRead(c) \/ Rehash(c) \/ ResetFailures(c) \/ LockToken(c) \/ RevokeRow(c)
             \/ VerifyCurrent(c) \/ UpdatePassword(c) \/ GuardPasses(c)
      PROVE  Real
  BY <1>4 DEF LoginRead, Rehash, ResetFailures, LockToken, RevokeRow, VerifyCurrent,
              UpdatePassword, GuardPasses
<1>5. ASSUME TakeSnapshot(c) PROVE Real
  BY <1>0, <1>5 DEF TakeSnapshot, RestIsTyped, Live, Exists
<1>6. CASE UNCHANGED vars
  BY <1>6 DEF vars
<1>7. CASE (\E u \in Users : LockoutEnds(u)) \/ (\E s \in Calls : SessionExpires(s))
  BY <1>7 DEF LockoutEnds, SessionExpires
<1> QED
  BY <1>1, <1>2, <1>3, <1>4, <1>5, <1>6, <1>7 DEF Next, Step, Ends

\* What is handed out stays real.
LEMMA SessionsAreRealKept ==
  ASSUME IInv, [Next]_vars
  PROVE  SessionsAreReal'
<1>0. RestIsTyped /\ SessionsAreReal /\ SessionsChange
  BY SessionShapes DEF IInv, TypeOK, RestIsTyped
<1>1. ASSUME NEW c \in Calls, Exists(c)' PROVE pc'[c] = "done" /\ sessions'[c].user \in Users
  <2>1. CASE Exists(c)
    BY <1>0, <2>1, SessionsForward, DoneIsStable DEF SessionsAreReal
  <2>2. CASE ~Exists(c)
    BY <1>1, <2>2, SessionsBegin
  <2> QED
    BY <2>1, <2>2
<1>2. ASSUME NEW c \in Calls, request'[c] \in WithSession PROVE Exists(request[c].session)'
  <2>1. request'[c] \notin Logins /\ request'[c].session \in Calls
    BY <1>2 DEF Logins, WithSession, Refreshes, Logouts, Changes
  <2>2. Exists(request'[c].session)
    BY <1>0, <1>2, <2>1, RequestsBegin DEF SessionsAreReal
  <2> QED
    BY <1>0, <2>1, <2>2, SessionsForward
<1>3. ASSUME NEW c \in Calls, NEW s \in snapshot'[c] PROVE Exists(s)'
  <2>1. s \in Calls /\ Exists(s)
    BY <1>0, RequestsBegin, RestTyped DEF SessionsAreReal, RestIsTyped
  <2> QED
    BY <1>0, <2>1, SessionsForward
<1> QED
  BY <1>1, <1>2, <1>3 DEF SessionsAreReal

\* Nobody but its holder touches a session that is being rotated.
LEMMA RotatesLiveKept ==
  ASSUME IInv, [Next]_vars
  PROVE  RotatesLive'
<1> SUFFICES ASSUME NEW c \in Calls, pc'[c] = "rotate"
             PROVE  /\ sessions'[request'[c].session].state = "live"
                    /\ sessionLock'[request'[c].session] = c
  BY DEF RotatesLive, Live
<1>0. RestIsTyped /\ RotatesLive /\ SessionsChange /\ sessions \in [Calls -> SessionRows]
  BY SessionShapes DEF IInv, TypeOK, RestIsTyped
<1> DEFINE s == request[c].session
<1>1. ASSUME pc[c] = "rotate", UNCHANGED <<pc, request, sessionLock>>,
             (\E t \in Calls : SessionExpires(t)) \/ UNCHANGED sessions
      PROVE  sessions'[s].state = "live" /\ sessionLock'[s] = c /\ request'[c] = request[c]
  <2>1. s \in Calls /\ Live(s) /\ sessionLock[s] = c
    BY <1>0, <1>1 DEF RotatesLive, IInv, RequestsFit, Refreshes
  <2>2. request'[c] = request[c] /\ sessionLock'[s] = c
    BY <1>1, <2>1
  <2> HIDE DEF s
  <2>3. ASSUME NEW t \in Calls, SessionExpires(t) PROVE sessions'[s].state = "live"
    BY <1>0, <2>1, <2>3 DEF SessionExpires, Live, SessionRows
  <2>4. ASSUME UNCHANGED sessions PROVE sessions'[s].state = "live"
    BY <2>1, <2>4 DEF Live
  <2> QED
    BY <1>1, <2>1, <2>2, <2>3, <2>4
<1>2. ASSUME NEW d \in Calls, Step(d), d # c
      PROVE  sessions'[s].state = "live" /\ sessionLock'[s] = c /\ request'[c] = request[c]
  <2>1. OthersKept(d)
    BY <1>2, StepIsLocal
  <2>2. pc[c] = "rotate" /\ request'[c] = request[c]
    BY <1>2, <2>1 DEF OthersKept
  <2>3. s \in Calls /\ Live(s) /\ sessionLock[s] = c /\ pc[s] = "done"
    BY <1>0, <2>2 DEF RotatesLive, IInv, RequestsFit, Refreshes, SessionsAreReal, Live, Exists
  <2>4. sessionLock'[s] = c
    BY <1>2, <2>1, <2>3 DEF OthersKept
  <2> HIDE DEF s
  <2>5. ASSUME UNCHANGED sessions PROVE sessions'[s].state = "live"
    BY <2>3, <2>5 DEF Live
  <2>6. ASSUME NEW e \in Calls, CreateSession(e) PROVE sessions'[s].state = "live"
    BY <1>0, <2>3, <2>6 DEF CreateSession, Live
  <2>7. ASSUME NEW e \in Calls, CommitRotation(e) PROVE sessions'[s].state = "live"
    <3> DEFINE t == request[e].session
    <3>1. e = d
      BY <1>0, <1>2, <2>1, <2>7, EndsFinish
         DEF OthersKept, CommitRotation, Committed, Finish, RestIsTyped
    <3>2. t \in Calls /\ sessionLock[t] = e
      BY <1>0, <2>7 DEF CommitRotation, RotatesLive, IInv, RequestsFit, Refreshes
    <3>3. s # t /\ s # e
      BY <1>2, <2>3, <2>7, <3>1, <3>2 DEF CommitRotation
    <3>4. sessions' = [sessions EXCEPT ![e] = NewSession(sessions[t].user),
                                       ![t].state = "revoked", ![t].replacedBy = e]
      BY <2>7 DEF CommitRotation
    <3> HIDE DEF t
    <3> QED
      BY <1>0, <2>3, <3>2, <3>3, <3>4 DEF Live
  <2>8. ASSUME NEW e \in Calls, NEW R \in SUBSET Calls, pc[e] \in {"logout", "revoke"},
               Touched(R, e)
        PROVE  sessions'[s].state = "live"
    <3>1. s \notin R
      BY <2>2, <2>3, <2>8, AuthAssumption DEF Touched
    <3> QED
      BY <1>0, <2>3, <2>8, <3>1 DEF Touched, Live
  <2>9. ASSUME NEW t \in Calls, SessionExpires(t) PROVE sessions'[s].state = "live"
    BY <1>0, <2>3, <2>9 DEF SessionExpires, Live, SessionRows
  <2> QED
    BY <1>0, <2>2, <2>4, <2>5, <2>6, <2>7, <2>8, <2>9 DEF SessionsChange
<1>3. ASSUME Step(c) PROVE sessions'[s].state = "live" /\ sessionLock'[s] = c /\ request'[c] = request[c]
  <2>1. ~Ends(c)
    BY <1>0, EndsFinish DEF Finish, RestIsTyped
  <2>4. ~(LoginSubmit(c) \/ LoginRead(c) \/ Rehash(c) \/ ResetFailures(c) \/ RefreshSubmit(c))
    BY <1>0 DEF LoginSubmit, LoginRead, Rehash, ResetFailures, RefreshSubmit, Move, RestIsTyped
  <2>5. ~(\/ TakeSnapshot(c) \/ RevokeRow(c) \/ GuardedSubmit(c) \/ VerifyCurrent(c)
          \/ UpdatePassword(c))
    BY <1>0 DEF TakeSnapshot, RevokeRow, GuardedSubmit, VerifyCurrent, UpdatePassword, Move,
                RestIsTyped
  <2>6. ~GuardPasses(c)
    <3>1. SUFFICES ASSUME GuardPasses(c) PROVE FALSE
      OBVIOUS
    <3>2. request[c].endpoint \in {"logout", "logoutAll", "changePassword"}
      BY <3>1 DEF GuardPasses, IInv, RequestsFit, Logouts, Changes
    <3>3. pc'[c] = AfterGuard(request[c].endpoint)
      BY <1>0, <3>1 DEF GuardPasses, RestIsTyped
    <3> QED
      BY <3>2, <3>3 DEF AfterGuard
  <2>2. LockToken(c)
    BY <1>3, <2>1, <2>4, <2>5, <2>6 DEF Step, Ends
  <2>3. s \in Calls
    BY <2>2 DEF LockToken, Move, IInv, RequestsFit, Refreshes
  <2> QED
    BY <1>0, <2>2, <2>3 DEF LockToken, Move, rows, Live, RestIsTyped
<1>4. CASE UNCHANGED vars
  BY <1>1, <1>4 DEF vars, rows, locks
<1>5. CASE (\E u \in Users : LockoutEnds(u)) \/ (\E t \in Calls : SessionExpires(t))
  BY <1>1, <1>5 DEF LockoutEnds, SessionExpires, locks
<1> QED
  BY <1>1, <1>2, <1>3, <1>4, <1>5 DEF Next

\* A call that goes on has not answered.
LEMMA AnswersEndKept ==
  ASSUME IInv, [Next]_vars
  PROVE  AnswersEnd'
<1> SUFFICES ASSUME NEW c \in Calls, pc'[c] # "done" PROVE outcome'[c] = "none"
  BY DEF AnswersEnd
<1>0. RestIsTyped /\ pc[c] # "done" /\ outcome[c] = "none"
  BY DoneIsStable DEF IInv, AnswersEnd, TypeOK, RestIsTyped
<1>1. ASSUME NEW d \in Calls, Step(d), d # c PROVE outcome'[c] = outcome[c]
  BY <1>1, StepIsLocal DEF OthersKept
<1>2. ASSUME Step(c) PROVE outcome'[c] = outcome[c]
  <2>1. ~Ends(c)
    BY <1>0, EndsFinish DEF Finish, RestIsTyped
  <2> QED
    BY <1>2, <2>1 DEF Step, Ends, LoginSubmit, LoginRead, Rehash, ResetFailures,
       RefreshSubmit, LockToken, TakeSnapshot, RevokeRow, GuardedSubmit, GuardPasses,
       VerifyCurrent, UpdatePassword
<1>3. CASE UNCHANGED vars
  BY <1>0, <1>3 DEF vars
<1>4. CASE (\E u \in Users : LockoutEnds(u)) \/ (\E s \in Calls : SessionExpires(s))
  BY <1>0, <1>4 DEF LockoutEnds, SessionExpires
<1> QED
  BY <1>0, <1>1, <1>2, <1>3, <1>4 DEF Next

\* A rotated token stays dead and linked to its only successor.
LEMMA TokensRotateOnceKept ==
  ASSUME IInv, [Next]_vars
  PROVE  TokensRotateOnce'
<1> SUFFICES ASSUME NEW c \in Calls, Exists(c)', request'[c].endpoint = "refresh"
             PROVE  /\ sessions'[request'[c].session].state = "revoked"
                    /\ sessions'[request'[c].session].replacedBy = c
  BY DEF TokensRotateOnce
<1>0. RestIsTyped /\ SessionsChange /\ sessions \in [Calls -> SessionRows]
  BY SessionShapes DEF IInv, TypeOK, RestIsTyped
<1>1. CASE Exists(c)
  <2> DEFINE s == request[c].session
  <2>1. request'[c] = request[c]
    BY <1>1, DoneIsStable DEF IInv, SessionsAreReal
  <2>2. request[c] \in WithSession
    BY <1>0, <2>1 DEF RestIsTyped, Requests, WithSession, Logins, NoRequest
  <2>3. s \in Calls /\ Exists(s)
    BY <2>2 DEF IInv, SessionsAreReal, WithSession, Refreshes, Logouts, Changes
  <2>4. sessions[s].state = "revoked" /\ sessions[s].replacedBy = c
    BY <1>1, <2>1 DEF IInv, TokensRotateOnce
  <2> QED
    BY <1>0, <2>1, <2>3, <2>4, SessionsForward
<1>2. CASE ~Exists(c)
  <2> DEFINE s == request[c].session
  <2>1. CreateSession(c) \/ CommitRotation(c)
    BY <1>2, SessionsBegin
  <2>2. request'[c] = request[c]
    BY <1>2, SessionsBegin
  <2>3. ~CreateSession(c)
    BY <2>2 DEF CreateSession, IInv, RequestsFit, Logins
  <2>4. s \in Calls /\ Live(s) /\ s # c
    BY <1>2, <2>1, <2>3 DEF CommitRotation, IInv, RequestsFit, RotatesLive, Refreshes,
                            Live, Exists
  <2>5. sessions' = [sessions EXCEPT ![c] = NewSession(sessions[s].user),
                                     ![s].state = "revoked", ![s].replacedBy = c]
    BY <2>1, <2>3 DEF CommitRotation
  <2> HIDE DEF s
  <2>6. sessions'[s].state = "revoked" /\ sessions'[s].replacedBy = c
    BY <1>0, <2>4, <2>5 DEF SessionRows
  <2> QED
    BY <2>2, <2>6 DEF s
<1> QED
  BY <1>1, <1>2

-----------------------------------------------------------------------------
\* Nothing has happened at first.
LEMMA InitIInv ==
  ASSUME Init
  PROVE  IInv
<1>1. TypeOK
  <2>1. \A u \in Users : FirstUser(u) \in UserRows /\ FirstUser(u).failures < Threshold
    BY AuthAssumption DEF FirstUser, UserRows, Lockouts
  <2>2. AbsentSession \in SessionRows
    BY DEF AbsentSession, SessionRows
  <2> QED
    BY <2>1, <2>2, AuthAssumption DEF Init, TypeOK, Phases, Outcomes
<1>2. RequestsFit /\ RotatesLive /\ AnswersEnd
  BY DEF Init, RequestsFit, RotatesLive, AnswersEnd
<1>3. \A s \in Calls : ~Exists(s)
  BY DEF Init, Exists, AbsentSession
<1>4. \A c \in Calls : request[c] \notin WithSession
  BY DEF Init, NoRequest, WithSession, Refreshes, Logouts, Changes
<1>5. SessionsAreReal /\ TokensRotateOnce
  BY <1>3, <1>4 DEF Init, SessionsAreReal, TokensRotateOnce
<1> QED
  BY <1>1, <1>2, <1>5 DEF IInv

\* Every step keeps the invariant.
LEMMA StepIInv ==
  ASSUME IInv, [Next]_vars
  PROVE  IInv'
<1>1. TypeOK'
  BY SessionShapes, SessionsTyped, UsersTyped, RestTyped DEF TypeOK, RestIsTyped
<1> QED
  BY <1>1, RequestsFitKept, SessionsAreRealKept, RotatesLiveKept, AnswersEndKept,
     TokensRotateOnceKept DEF IInv

\* The invariant of AuthSessions.
THEOREM SessionsInvariance == Spec => []IInv
<1>1. Init => IInv
  BY InitIInv
<1>2. IInv /\ [Next]_vars => IInv'
  BY StepIInv
<1> QED
  BY <1>1, <1>2, PTL DEF Spec

\* users, sessions and the calls keep their types, and no count of failed
\* logins is ever stored at or above the threshold.
THEOREM SessionsTypeCorrect == Spec => []TypeOK
<1>1. IInv => TypeOK
  BY DEF IInv
<1> QED
  BY <1>1, SessionsInvariance, PTL

\* However many refresh calls race on one token, at most one obtains a
\* successor, and the token is then revoked and linked to it.
THEOREM RotationIsExclusive == Spec => []TokensRotateOnce
<1>1. IInv => TokensRotateOnce
  BY DEF IInv
<1> QED
  BY <1>1, SessionsInvariance, PTL

\* A revocation that is answered has left nothing of what it saw alive.
LEMMA RevocationStep ==
  ASSUME IInv, [Next]_vars, NEW c \in Calls, NEW s \in snapshot[c],
         pc[c] = "revoke", outcome'[c] \in {"ok", "reused"}
  PROVE  sessions'[s].state = "revoked"
<1>0. /\ RestIsTyped /\ outcome[c] = "none"
      /\ sessions \in [Calls -> SessionRows] /\ s \in Calls /\ Exists(s)
  BY DEF IInv, TypeOK, RestIsTyped, AnswersEnd, SessionsAreReal
<1>1. Step(c)
  <2>1. ASSUME NEW d \in Calls, Step(d), d # c PROVE FALSE
    BY <1>0, <2>1, StepIsLocal DEF OthersKept
  <2>2. ~UNCHANGED vars
    BY <1>0 DEF vars
  <2>3. ~((\E u \in Users : LockoutEnds(u)) \/ (\E t \in Calls : SessionExpires(t)))
    BY <1>0 DEF LockoutEnds, SessionExpires
  <2> QED
    BY <2>1, <2>2, <2>3 DEF Next
<1>2. ~Fail(c)
  BY <1>0 DEF Fail, Finish, RestIsTyped
<1>3. ~RevokeRow(c)
  BY <1>0 DEF RevokeRow
<1>4. CommitReuse(c) \/ CommitLogoutAll(c) \/ CommitChange(c)
  BY <1>1, <1>2, <1>3 DEF Step, LoginSubmit, LoginRead, LoginRefused, HandleFailedLogin,
     Rehash, ResetFailures, CreateSession, RefreshSubmit, LockToken, TokenExpired,
     CommitRotation, TakeSnapshot, GuardedSubmit, GuardPasses, GuardRejects, Logout,
     VerifyCurrent, RejectCurrent, UpdatePassword, Move
<1>5. Covered(c) /\ sessions' = Revoked(c)
  BY <1>4 DEF CommitReuse, CommitLogoutAll, CommitChange
<1>6. CASE Live(s)
  BY <1>0, <1>5, <1>6 DEF Covered, Revoked, SessionRows
<1>7. CASE ~Live(s)
  BY <1>0, <1>5, <1>7 DEF Revoked, SessionRows, Live, Exists
<1> QED
  BY <1>6, <1>7

\* When the answer of logout-all, changePassword or a reused token goes out,
\* every session its UPDATE saw is revoked, by it or by a call it waited for.
THEOREM RevocationsAreComplete == Spec => RevocationsTakeEffect
<1>1. IInv /\ [Next]_vars =>
        [\A c \in Calls :
           pc[c] = "revoke" /\ outcome'[c] \in {"ok", "reused"} =>
             \A s \in snapshot[c] : sessions'[s].state = "revoked"]_vars
  BY RevocationStep
<1> QED
  BY <1>1, SessionsInvariance, PTL DEF Spec, RevocationsTakeEffect

-----------------------------------------------------------------------------
(* The login a session descends from                                       *)
(*                                                                         *)
(* Origin is defined by recursion along the refreshes.  That there is such *)
(* a function, and only one, is part of the invariant: a session that is   *)
(* created extends the function to itself, and the sessions that exist     *)
(* keep the requests that created them.                                    *)

Created == {t \in Calls : Exists(t)}

Descends(f) ==
  f = [s \in Created |-> IF request[s].endpoint = "login" THEN s ELSE f[request[s].session]]

\* Sessions come from logins and refreshes; each has one origin, and of the
\* sessions with one origin at most one is live.
ChainsInv ==
  /\ \A s \in Created : request[s] \in Logins \cup Refreshes
  /\ \E f : /\ Descends(f)
            /\ \A g : Descends(g) => g = f
            /\ \A s \in Created : f[s] \in Created
            /\ \A s, t \in Created : Live(s) /\ Live(t) /\ f[s] = f[t] => s = t

\* While no session is created, origins stay and no session comes to life.
LEMMA ChainsStay ==
  ASSUME IInv, ChainsInv, [Next]_vars, \A s \in Calls : Exists(s)' => Exists(s)
  PROVE  ChainsInv'
<1>0. SessionsChange
  BY SessionShapes
<1>1. Created' = Created
  BY <1>0, SessionsForward DEF Created
<1>2. \A s \in Created : request'[s] = request[s]
  BY DoneIsStable DEF Created, IInv, SessionsAreReal
<1>3. \A s \in Created : Live(s)' => Live(s)
  <2> SUFFICES ASSUME NEW s \in Created, Live(s)'
               PROVE  Live(s)
    OBVIOUS
  <2>1. sessions[s].state \in {"absent", "live", "revoked"} /\ Exists(s) /\ s \in Calls
    BY DEF IInv, TypeOK, SessionRows, Created
  <2>2. sessions[s].state # "revoked"
    BY <1>0, <2>1, SessionsForward DEF Live
  <2> QED BY <2>1, <2>2 DEF Live, Exists
<1>4. ASSUME NEW f PROVE Descends(f)' <=> Descends(f)
  BY <1>1, <1>2 DEF Descends
<1>5. PICK f : /\ Descends(f)
               /\ \A g : Descends(g) => g = f
               /\ \A s \in Created : f[s] \in Created
               /\ \A s, t \in Created : Live(s) /\ Live(t) /\ f[s] = f[t] => s = t
  BY DEF ChainsInv
<1>6. /\ Descends(f)' /\ \A g : Descends(g)' => g = f
      /\ \A s \in Created' : f[s] \in Created'
      /\ \A s, t \in Created' : Live(s)' /\ Live(t)' /\ f[s] = f[t] => s = t
  BY <1>1, <1>3, <1>4, <1>5
<1> QED BY <1>1, <1>2, <1>6 DEF ChainsInv

\* A session that is created continues the line of the one it replaces, which
\* it leaves revoked, or begins a line.
LEMMA ChainsGrow ==
  ASSUME IInv, ChainsInv, [Next]_vars, NEW c \in Calls, ~Exists(c), Exists(c)'
  PROVE  ChainsInv'
<1> DEFINE p == request[c].session
           login == request[c].endpoint = "login"
<1>1. CreateSession(c) \/ CommitRotation(c)
  BY SessionsBegin
<1>2. request' = request
  BY <1>1 DEF CreateSession, CommitRotation, Committed, Finish
<1>3. sessions \in [Calls -> SessionRows]
  BY DEF IInv, TypeOK
<1>4. \/ /\ login /\ request[c] \in Logins
         /\ \A s \in Calls : s # c => sessions'[s].state = sessions[s].state
      \/ /\ ~login /\ request[c] \in Refreshes /\ p \in Calls /\ Live(p)
         /\ \A s \in Calls : s # c /\ s # p => sessions'[s].state = sessions[s].state
         /\ sessions'[p].state = "revoked"
  <2>1. CASE CreateSession(c)
    <3>1. request[c] \in Logins
      BY <2>1 DEF CreateSession, IInv, RequestsFit
    <3> QED BY <1>3, <2>1, <3>1 DEF CreateSession, Logins
  <2>2. CASE CommitRotation(c)
    <3>1. request[c] \in Refreshes /\ Live(p)
      BY <2>2 DEF CommitRotation, IInv, RequestsFit, RotatesLive
    <3>2. p \in Calls /\ ~login
      BY <3>1 DEF Refreshes
    <3>3. p # c
      BY <3>1 DEF Live, Exists
    <3> QED BY <1>3, <2>2, <3>1, <3>2, <3>3 DEF CommitRotation, SessionRows
  <2> QED BY <1>1, <2>1, <2>2
<1>5. ~login => p \in Created
  BY <1>4 DEF Created, Live, Exists
<1>6. Created' = Created \cup {c} /\ c \notin Created
  BY <1>4 DEF Created, Exists, Live
<1>7. \A s \in Created : request[s].endpoint = "login" \/ request[s].session \in Created
  <2> SUFFICES ASSUME NEW s \in Created, request[s].endpoint # "login"
               PROVE  request[s].session \in Created
    OBVIOUS
  <2>1. request[s] \in Refreshes /\ s \in Calls
    BY DEF ChainsInv, Logins, Created
  <2>2. Exists(request[s].session) /\ request[s].session \in Calls
    BY <2>1 DEF IInv, SessionsAreReal, WithSession, Refreshes
  <2> QED BY <2>2 DEF Created
<1>8. PICK f : /\ Descends(f)
               /\ \A g : Descends(g) => g = f
               /\ \A s \in Created : f[s] \in Created
               /\ \A s, t \in Created : Live(s) /\ Live(t) /\ f[s] = f[t] => s = t
  BY DEF ChainsInv
<1>9. \A s \in Created : f[s] = IF request[s].endpoint = "login" THEN s ELSE f[request[s].session]
  BY <1>8 DEF Descends
<1> DEFINE root == IF login THEN c ELSE f[p]
<1>10. PICK h : h = [s \in Created \cup {c} |-> IF s = c THEN root ELSE f[s]]
  OBVIOUS
<1>15. h[c] = root /\ \A s \in Created : h[s] = f[s]
  BY <1>6, <1>10
<1>11. Descends(h)'
  <2>1. \A s \in Created \cup {c} :
           h[s] = IF request[s].endpoint = "login" THEN s ELSE h[request[s].session]
    <3>1. h[c] = IF login THEN c ELSE h[p]
      BY <1>5, <1>15
    <3>2. \A s \in Created : h[s] = IF request[s].endpoint = "login" THEN s ELSE h[request[s].session]
      BY <1>7, <1>9, <1>15
    <3> QED BY <3>1, <3>2
  <2>2. DOMAIN h = Created \cup {c} /\ h = [s \in DOMAIN h |-> h[s]]
    BY <1>10
  <2>3. h = [s \in Created \cup {c} |->
               IF request[s].endpoint = "login" THEN s ELSE h[request[s].session]]
    BY <2>1, <2>2
  <2> QED BY <1>2, <1>6, <2>3 DEF Descends
<1>12. ASSUME NEW g, Descends(g)' PROVE g = h
  <2> DEFINE k == [s \in Created |-> g[s]]
  <2>1. g = [s \in Created \cup {c} |->
               IF request[s].endpoint = "login" THEN s ELSE g[request[s].session]]
    BY <1>2, <1>6, <1>12 DEF Descends
  <2>2. \A s \in Created \cup {c} :
           g[s] = IF request[s].endpoint = "login" THEN s ELSE g[request[s].session]
    BY <2>1
  <2>3. \A s \in Created : k[s] = g[s]
    OBVIOUS
  <2>4. \A s \in Created : k[s] = IF request[s].endpoint = "login" THEN s ELSE k[request[s].session]
    BY <1>7, <2>2, <2>3
  <2>5. Descends(k)
    <3>1. k = [s \in Created |-> k[s]]
      BY <2>3
    <3> HIDE DEF k
    <3> QED BY <2>4, <3>1 DEF Descends
  <2>6. k = f
    BY <1>8, <2>5
  <2>7. \A s \in Created : g[s] = f[s]
    BY <2>3, <2>6
  <2>8. g[c] = root
    BY <1>5, <2>2, <2>7
  <2>9. g = [s \in Created \cup {c} |-> g[s]]
    BY <2>1
  <2> QED BY <1>10, <2>7, <2>8, <2>9
<1>13. ASSUME NEW s \in Created', NEW t \in Created', Live(s)', Live(t)', h[s] = h[t]
       PROVE  s = t
  <2>1. ASSUME NEW r \in Created, Live(r)'
        PROVE  Live(r) /\ h[r] = f[r] /\ h[r] # h[c]
    <3>1. r # c /\ r \in Calls
      BY <1>6 DEF Created
    <3>2. Live(r)
      BY <1>4, <2>1, <3>1 DEF Live
    <3>3. CASE login
      BY <1>6, <1>8, <1>15, <3>2, <3>3
    <3>4. CASE ~login
      <4>1. r # p
        BY <1>4, <2>1, <3>4 DEF Live
      <4> QED BY <1>4, <1>5, <1>8, <1>15, <3>2, <3>4, <4>1
    <3> QED BY <3>3, <3>4
  <2> QED BY <1>6, <1>8, <1>13, <2>1
<1>14. \A s \in Created' : request'[s] \in Logins \cup Refreshes
  BY <1>2, <1>4, <1>6 DEF ChainsInv
<1>16. \A s \in Created' : h[s] \in Created'
  BY <1>5, <1>6, <1>8, <1>15
<1> QED BY <1>11, <1>12, <1>13, <1>14, <1>16 DEF ChainsInv

\* Sessions and credentials with the origins of the sessions: in every state
\* each session has one origin, and each origin one live session at most.
THEOREM ChainsInvariance == Spec => [](IInv /\ ChainsInv)
<1>1. Init => IInv /\ ChainsInv
  <2> SUFFICES ASSUME Init PROVE ChainsInv
    BY InitIInv
  <2>1. Created = {}
    BY DEF Init, Created, Exists, AbsentSession
  <2>2. \A f : Descends(f) <=> f = [s \in {} |-> s]
    BY <2>1 DEF Descends
  <2> QED BY <2>1, <2>2 DEF ChainsInv
<1>2. IInv /\ ChainsInv /\ [Next]_vars => IInv' /\ ChainsInv'
  BY StepIInv, ChainsStay, ChainsGrow
<1> QED BY <1>1, <1>2, PTL DEF Spec

\* A login never has two live sessions, however its refreshes race, are
\* retried or replayed, and whatever becomes of their answers.
THEOREM OneLiveSession == Spec => []OneLivePerLogin
<1>1. ASSUME ChainsInv
      PROVE  OneLivePerLogin
  <2>1. PICK f : /\ Descends(f)
                 /\ \A g : Descends(g) => g = f
                 /\ \A s \in Created : f[s] \in Created
                 /\ \A s, t \in Created : Live(s) /\ Live(t) /\ f[s] = f[t] => s = t
    BY <1>1 DEF ChainsInv
  <2>2. Origin = CHOOSE g : Descends(g)
    BY DEF Origin, Descends, Created
  <2>3. Origin = f
    BY <2>1, <2>2
  <2>4. DOMAIN f = Created
    BY <2>1 DEF Descends
  <2> QED BY <2>1, <2>3, <2>4 DEF OneLivePerLogin
<1> QED BY <1>1, ChainsInvariance, PTL

=============================================================================
