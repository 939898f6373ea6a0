----------------------------- MODULE SessionApi -----------------------------
(***************************************************************************)
(* What the API does with the requests of one player's web client: the     *)
(* login, refresh, logout and me handlers of AuthController.               *)
(*                                                                         *)
(* AuthSessions models the statements inside login, refresh and logout and *)
(* shows that each is atomic in effect; here each of them is one step.     *)
(* RequestGates models the rate limits and the account status, which here  *)
(* may refuse a request at any time.  Sessions last: to a tab, one that    *)
(* expires is like one revoked, and AuthSessions has it.                   *)
(***************************************************************************)
EXTENDS Integers, FiniteSets

CONSTANTS
  Tabs,   \* browser tabs, each in a browser of its own
  Sids,   \* sessions the table has room for (a bound)
  NoSid

VARIABLES
  sessions,  \* sessions of this player
  wire       \* the requests and answers under way

SessionStates == {"absent", "live", "rotated", "revoked"}

ASSUME ApiAssumption == NoSid \notin Sids

Slots   == {"restore", "logout", "login", "refresh"}
Answers == {"ok", "unauthorized", "refused"}

\* A request is sent; a guarded one is admitted by its guards and handled;
\* then it is an answer.
Stages == {"sent", "admitted"} \cup Answers

\* cookie is what a refresh carries; bearer and aged are the access token;
\* sid is the session an answer brings.
Messages ==
  [tab: Tabs, slot: Slots, path: {"login", "refresh", "logout", "me"},
   cookie: Sids \cup {NoSid}, bearer: Sids \cup {NoSid}, aged: BOOLEAN,
   at: Stages, sid: Sids \cup {NoSid}]

Live(s)  == s \in Sids /\ sessions[s] = "live"
Free     == {s \in Sids : sessions[s] = "absent"}

\* A session's id is random: any that no session has.
FreshSid == CHOOSE s \in Free : TRUE

Becomes(m, n)   == wire' = (wire \ {m}) \cup {n}
Advance(m, at)  == Becomes(m, [m EXCEPT !.at = at])
Grant(m, s)     == Becomes(m, [m EXCEPT !.at = "ok", !.sid = s])
Arrived(m, p)   == m \in wire /\ m.path = p /\ m.at = "sent"

AllRevoked ==
  [s \in Sids |-> IF sessions[s] = "live" THEN "revoked" ELSE sessions[s]]

-----------------------------------------------------------------------------
(* login and refresh                                                       *)

Login(m) ==
  /\ Arrived(m, "login")
  /\ Free # {}
  /\ sessions' = [sessions EXCEPT ![FreshSid] = "live"]
  /\ Grant(m, FreshSid)

\* A wrong password, a locked or inactive account: one generic 401.
LoginRefused(m) ==
  /\ Arrived(m, "login")
  /\ Advance(m, "unauthorized")
  /\ UNCHANGED sessions

\* No cookie.
RefreshRefused(m) ==
  /\ Arrived(m, "refresh")
  /\ m.cookie = NoSid
  /\ Advance(m, "unauthorized")
  /\ UNCHANGED sessions

\* revoked_at is set, for whichever reason.
ReuseDetected(m) ==
  /\ Arrived(m, "refresh")
  /\ m.cookie \in Sids /\ sessions[m.cookie] \in {"rotated", "revoked"}
  /\ sessions' = AllRevoked
  /\ Advance(m, "unauthorized")

Rotate(m) ==
  /\ Arrived(m, "refresh")
  /\ Live(m.cookie)
  /\ Free # {}
  /\ sessions' = [sessions EXCEPT ![m.cookie] = "rotated", ![FreshSid] = "live"]
  /\ Grant(m, FreshSid)

-----------------------------------------------------------------------------
(* PlayerJwtGuard, UserStatusGuard and what they guard                     *)

Guarded == {"me", "logout"}

\* 401: the token has expired, or its session has ended.
SessionRejected(m) ==
  /\ m \in wire /\ m.path \in Guarded /\ m.at = "sent"
  /\ m.aged \/ ~Live(m.bearer)
  /\ Advance(m, "unauthorized")
  /\ UNCHANGED sessions

SessionAccepted(m) ==
  /\ m \in wire /\ m.path \in Guarded /\ m.at = "sent"
  /\ ~m.aged /\ Live(m.bearer)
  /\ Advance(m, "admitted")
  /\ UNCHANGED sessions

\* 403 for the account's status, or a handler that fails.
Refused(m) ==
  /\ m \in wire /\ m.path \in Guarded /\ m.at = "admitted"
  /\ Advance(m, "refused")
  /\ UNCHANGED sessions

Me(m) ==
  /\ m \in wire /\ m.path = "me" /\ m.at = "admitted"
  /\ Advance(m, "ok")
  /\ UNCHANGED sessions

Logout(m) ==
  /\ m \in wire /\ m.path = "logout" /\ m.at = "admitted"
  /\ sessions' = IF Live(m.bearer) THEN [sessions EXCEPT ![m.bearer] = "revoked"]
                                   ELSE sessions
  /\ Advance(m, "ok")

Serve(m) ==
  \/ Login(m)
  \/ LoginRefused(m)
  \/ RefreshRefused(m)
  \/ ReuseDetected(m)
  \/ Rotate(m)
  \/ SessionRejected(m)
  \/ SessionAccepted(m)
  \/ Refused(m)
  \/ Me(m)
  \/ Logout(m)

-----------------------------------------------------------------------------
\* logoutAll or changePassword from another client of the player.
RevokeElsewhere ==
  /\ \E s \in Sids : Live(s)
  /\ sessions' = AllRevoked
  /\ UNCHANGED wire
=============================================================================
