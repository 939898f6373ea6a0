---------------------------- MODULE RequestGates ----------------------------
(***************************************************************************)
(* What a request to services/api passes before its handler does its work, *)
(* and keeps in Redis: the rate limits of login (AuthService's             *)
(* checkRateLimit, by address and by username) and the account status      *)
(* cached by UserStatusGuard.                                              *)
(*                                                                         *)
(* Redis may fail at any command and come back; both gates fail safe, the  *)
(* limits by letting the login pass, the guard by asking PostgreSQL.       *)
(***************************************************************************)
EXTENDS Integers, FiniteSets

CONSTANTS
  Logins,      \* login calls under way at once
  Guarded,     \* guarded calls under way at once
  Ips,
  Names,
  Max,         \* Max[k]: LOGIN_RATE_IP_MAX or LOGIN_RATE_USER_MAX
  NoKey

Calls    == Logins \cup Guarded
Limits   == Ips \cup Names
Statuses == {"active", "suspended"}   \* "banned" is refused alike

ASSUME GatesAssumption ==
  /\ Max \in [Limits -> Nat \ {0}]
  /\ Ips \cap Names = {} /\ Logins \cap Guarded = {}
  /\ NoKey \notin Limits

VARIABLES
  counter,     \* ratelimit:login:...: INCR's value and whether it expires
  passed,      \* history: calls a counter let pass since it last expired
  userStatus,  \* users.status of the account
  cached,      \* user:status:...: a status and whether it expires
  pc,          \* where each call is
  ip, name,    \* what a login is limited by
  seen         \* the status a guarded call is judged by

redis == <<counter, passed, cached>>
vars  == <<redis, userStatus, pc, ip, name, seen>>

Phases == {"idle", "ip", "expireIp", "name", "expireName", "account",
           "session", "status", "store", "answered"}

\* INCR is told apart up to one past the limit.
NoCounter == [count |-> 0, expires |-> FALSE]
NoStatus  == [status |-> "none", expires |-> FALSE]

Init ==
  /\ counter = [k \in Limits |-> NoCounter]
  /\ passed = [k \in Limits |-> 0]
  /\ userStatus = "active"
  /\ cached = NoStatus
  /\ pc = [c \in Calls |-> "idle"]
  /\ ip = [c \in Logins |-> NoKey]
  /\ name = [c \in Logins |-> NoKey]
  /\ seen = [c \in Calls |-> "none"]

Move(c, from, to) == pc[c] = from /\ pc' = [pc EXCEPT ![c] = to]

\* The call is over, and another may take its place.
End(c) ==
  /\ pc' = [pc EXCEPT ![c] = "idle"]
  /\ seen' = [seen EXCEPT ![c] = "none"]
  /\ ip' = [l \in Logins |-> IF l = c THEN NoKey ELSE ip[l]]
  /\ name' = [l \in Logins |-> IF l = c THEN NoKey ELSE name[l]]

-----------------------------------------------------------------------------
(* login                                                                   *)

LoginSubmit(c) ==
  /\ Move(c, "idle", "ip")
  /\ \E i \in Ips, n \in Names :
       ip' = [ip EXCEPT ![c] = i] /\ name' = [name EXCEPT ![c] = n]
  /\ UNCHANGED <<redis, userStatus, seen>>

\* The gates in their order: at, the key, waiting for EXPIRE, and what follows.
Gates(c) ==
  {[at |-> "ip", key |-> ip[c], expire |-> "expireIp", next |-> "name"],
   [at |-> "name", key |-> name[c], expire |-> "expireName", next |-> "account"]}

Incremented(k) ==
  [counter[k] EXCEPT !.count = IF @ > Max[k] THEN @ ELSE @ + 1]

\* Mutant: one request too many in a window.
ExceededLate(k, current) == current > Max[k] + 1

Exceeded(k, current) == current > Max[k]

\* INCR answers current: the first of a window goes on to EXPIRE, one beyond
\* the limit is answered 429, the others pass.
Increment(c) ==
  \E g \in Gates(c) :
    LET k == g.key  current == Incremented(k).count IN
    /\ pc[c] = g.at
    /\ counter' = [counter EXCEPT ![k] = Incremented(k)]
    /\ \/ /\ Exceeded(k, current)
          /\ End(c)
          /\ UNCHANGED passed
       \/ /\ ~Exceeded(k, current)
          /\ pc' = [pc EXCEPT ![c] = IF current = 1 THEN g.expire ELSE g.next]
          /\ passed' = [passed EXCEPT ![k] = IF current = 1 THEN @ ELSE @ + 1]
          /\ UNCHANGED <<ip, name, seen>>
    /\ UNCHANGED <<cached, userStatus>>

\* EXPIRE, which does nothing to a key that is not there.
Expiring(k) == [counter EXCEPT ![k].expires = counter[k].count > 0]

SetExpiry(c) ==
  \E g \in Gates(c) :
    LET k == g.key IN
    /\ Move(c, g.expire, g.next)
    /\ counter' = Expiring(k)
    /\ passed' = [passed EXCEPT ![k] = @ + 1]
    /\ UNCHANGED <<cached, userStatus, ip, name, seen>>

\* Redis does not answer INCR or EXPIRE, which it may have executed: the
\* login passes.
FailOpen(c) ==
  \E g \in Gates(c) :
    LET k == g.key IN
    /\ \/ /\ Move(c, g.at, g.next)
          /\ counter' \in {counter, [counter EXCEPT ![k] = Incremented(k)]}
       \/ /\ Move(c, g.expire, g.next)
          /\ counter' \in {counter, Expiring(k)}
    /\ UNCHANGED <<passed, cached, userStatus, ip, name, seen>>

\* The account is read in PostgreSQL; the password is AuthSessions' affair.
ReadAccount(c) ==
  /\ Move(c, "account", "answered")
  /\ seen' = [seen EXCEPT ![c] = userStatus]
  /\ UNCHANGED <<redis, userStatus, ip, name>>

-----------------------------------------------------------------------------
(* UserStatusGuard                                                         *)

GuardedSubmit(c) ==
  /\ Move(c, "idle", "session")
  /\ UNCHANGED <<redis, userStatus, ip, name, seen>>

\* The session check, which may answer 401.
CheckSession(c) ==
  /\ pc[c] = "session"
  /\ \/ Move(c, "session", "status") /\ UNCHANGED <<ip, name, seen>>
     \/ End(c)
  /\ UNCHANGED <<redis, userStatus>>

CacheHit(c) ==
  /\ Move(c, "status", "answered")
  /\ cached # NoStatus
  /\ seen' = [seen EXCEPT ![c] = cached.status]
  /\ UNCHANGED <<redis, userStatus, ip, name>>

\* Nothing cached, or no answer from Redis: PostgreSQL is asked.
ReadStatus(c) ==
  /\ Move(c, "status", "store")
  /\ seen' = [seen EXCEPT ![c] = userStatus]
  /\ UNCHANGED <<redis, userStatus, ip, name>>

\* Mutant: SET without EX.
EntryForGood(status) == [status |-> status, expires |-> FALSE]

Entry(status) == [status |-> status, expires |-> TRUE]

\* SET ... EX 60, executed or not.
StoreStatus(c) ==
  /\ Move(c, "store", "answered")
  /\ cached' \in {cached, Entry(seen[c])}
  /\ UNCHANGED <<counter, passed, userStatus, ip, name, seen>>

\* The call has its verdict, goes on to its handler or is refused, and ends.
Leave(c) ==
  /\ pc[c] = "answered"
  /\ End(c)
  /\ UNCHANGED <<redis, userStatus>>

\* The process dies or the connection to PostgreSQL fails.
Die(c) ==
  /\ pc[c] # "idle"
  /\ End(c)
  /\ UNCHANGED <<redis, userStatus>>

-----------------------------------------------------------------------------
(* Redis expires keys; somebody changes the account                        *)

WindowEnds(k) ==
  /\ counter[k].expires
  /\ counter' = [counter EXCEPT ![k] = NoCounter]
  /\ passed' = [passed EXCEPT ![k] = 0]
  /\ UNCHANGED <<cached, userStatus, pc, ip, name, seen>>

StatusExpires ==
  /\ cached.expires
  /\ cached' = NoStatus
  /\ UNCHANGED <<counter, passed, userStatus, pc, ip, name, seen>>

\* In the database; no code of the repository does it, or deletes the cached
\* status.
ChangeStatus(s) ==
  /\ userStatus # s
  /\ userStatus' = s
  /\ UNCHANGED <<redis, pc, ip, name, seen>>

-----------------------------------------------------------------------------
Progress(c) ==
  \/ c \in Logins  /\ (Increment(c) \/ SetExpiry(c) \/ FailOpen(c) \/ ReadAccount(c))
  \/ c \in Guarded /\ (CheckSession(c) \/ CacheHit(c) \/ ReadStatus(c) \/ StoreStatus(c))
  \/ Leave(c)
  \/ Die(c)

Next ==
  \/ \E c \in Logins : LoginSubmit(c)
  \/ \E c \in Guarded : GuardedSubmit(c)
  \/ \E c \in Calls : Progress(c)
  \/ \E k \in Limits : WindowEnds(k)
  \/ StatusExpires
  \/ \E s \in Statuses : ChangeStatus(s)

Spec == Init /\ [][Next]_vars

\* A call that came in is served or dies, and Redis expires what is to expire.
FairSpec ==
  /\ Spec
  /\ \A c \in Calls : WF_vars(Progress(c))
  /\ \A k \in Limits : WF_vars(WindowEnds(k))
  /\ WF_vars(StatusExpires)

-----------------------------------------------------------------------------
GatesTypeOK ==
  /\ \A k \in Limits : counter[k] \in [count: 0 .. Max[k] + 1, expires: BOOLEAN]
  /\ passed \in [Limits -> Nat]
  /\ userStatus \in Statuses
  /\ cached \in [status: Statuses \cup {"none"}, expires: BOOLEAN]
  /\ pc \in [Calls -> Phases]
  /\ ip \in [Logins -> Ips \cup {NoKey}]
  /\ name \in [Logins -> Names \cup {NoKey}]
  /\ seen \in [Calls -> Statuses \cup {"none"}]

\* AUTH_V2.md section 7: no window of an address or a username lets more than
\* its limit pass, however many logins race; those that pass because Redis
\* failed are not counted.
LimitsAreKept == \A k \in Limits : passed[k] <= Max[k]

\* AUTH_V2.md section 9: the status is cached briefly.  Once it stays what it
\* is, every call comes to be judged by it, though one that read an earlier
\* status may cache that after the change.
StatusTakesHold ==
  \A s \in Statuses :
    <>[](userStatus = s) => <>[](\A c \in Calls : seen[c] \in {s, "none"})

-----------------------------------------------------------------------------
\* AUTH_V2.md section 7: a limit is so many per window.  A key that answers
\* 429 admits again when its window is over.
LimitsLift == \A k \in Limits : counter[k].count > Max[k] ~> counter[k].count = 0
=============================================================================
