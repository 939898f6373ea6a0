---------------------------- MODULE WebSession -----------------------------
(***************************************************************************)
(* services/auth/session.ts of apps/web, the login form and the lobby that *)
(* use it, and the network between them and the API of SessionApi.            *)
(*                                                                         *)
(* A tab runs one JavaScript thread: a step is the arrival of an answer or *)
(* an event of the user, with everything its promises go on to do.  The    *)
(* refresh cookie travels with a request as it is when it is sent, and is  *)
(* set when the answer arrives.                                            *)
(***************************************************************************)
EXTENDS SessionApi

VARIABLES
  cookie,   \* jito_refresh of the tab's browser
  token,    \* accessToken
  page,     \* LobbyStage: not mounted, mounted without a session, rendered
  job,      \* restoreInFlight, the logout and the login under way
  lost      \* history: the answer of a refresh did not reach the tab

clientVars == <<cookie, token, page, job, lost>>
vars       == <<sessions, wire, clientVars>>

Pages  == {"out", "waiting", "lobby"}
Jobs   == {"restore", "logout", "login"}

\* authedRequest: awaits a first refresh, the call, the refresh after its 401
\* and the call again.
Steps  == {"idle", "refresh", "call", "again", "recall"}

NoToken == [sid |-> NoSid, aged |-> FALSE]
Tokens  == [sid: Sids \cup {NoSid}, aged: BOOLEAN]
Fresh(s) == [sid |-> s, aged |-> FALSE]

Init ==
  /\ sessions = [s \in Sids |-> "absent"]
  /\ wire = {}
  /\ cookie = [t \in Tabs |-> NoSid]
  /\ token = [t \in Tabs |-> NoToken]
  /\ page = [t \in Tabs |-> "out"]
  /\ job = [t \in Tabs |-> [j \in Jobs |-> "idle"]]
  /\ lost = [t \in Tabs |-> FALSE]

-----------------------------------------------------------------------------
(* Requests                                                                *)

Request(t, slot, path, ck, tk) ==
  [tab |-> t, slot |-> slot, path |-> path, cookie |-> ck,
   bearer |-> tk.sid, aged |-> tk.aged, at |-> "sent", sid |-> NoSid]

Path == [restore |-> "me", logout |-> "logout"]

Call(t, j, tk)      == Request(t, j, Path[j], NoSid, tk)
RefreshCall(t, ck)  == Request(t, "refresh", "refresh", ck, NoToken)
LoginCall(t)        == Request(t, "login", "login", NoSid, NoToken)

\* Mutant: every caller sends a refresh of its own.
RefreshNeededAlways(t) == {RefreshCall(t, cookie[t])}

\* refreshInFlight: nothing to send while one is under way.
RefreshNeeded(t) ==
  IF \E m \in wire : m.tab = t /\ m.slot = "refresh"
  THEN {} ELSE {RefreshCall(t, cookie[t])}

Set(f, t, v)   == f' = [f EXCEPT ![t] = v]
JobAt(t, j, s) == [job[t] EXCEPT ![j] = s]

\* authedRequest up to its first await.
FirstStep(tk)        == IF tk = NoToken THEN "refresh" ELSE "call"
FirstSent(t, j, tk)  ==
  IF tk = NoToken THEN RefreshNeeded(t) ELSE {Call(t, j, tk)}

-----------------------------------------------------------------------------
(* The user                                                                *)

\* LobbyStage mounts: restoreSession joins a restore under way or starts one.
OpenLobby(t) ==
  /\ page[t] = "out"
  /\ Set(page, t, "waiting")
  /\ IF job[t]["restore"] = "idle"
     THEN /\ Set(job, t, JobAt(t, "restore", FirstStep(token[t])))
          /\ wire' = wire \cup FirstSent(t, "restore", token[t])
     ELSE UNCHANGED <<job, wire>>
  /\ UNCHANGED <<sessions, cookie, token, lost>>

\* To a game, the home page or the login form: the module keeps its memory.
LeaveLobby(t) ==
  /\ page[t] # "out"
  /\ Set(page, t, "out")
  /\ UNCHANGED <<sessions, wire, cookie, token, job, lost>>

\* The login form's handleSubmit.  (Bound: one login per tab at a time; a form
\* left and mounted again could submit another.)
SubmitLogin(t) ==
  /\ page[t] = "out" /\ job[t]["login"] = "idle"
  /\ Set(job, t, JobAt(t, "login", "call"))
  /\ wire' = wire \cup {LoginCall(t)}
  /\ UNCHANGED <<sessions, cookie, token, page, lost>>

\* handleExit: logoutSession.  (Bound: one per tab at a time; the button takes
\* clicks while a logout is under way.)
Exit(t) ==
  /\ page[t] = "lobby" /\ job[t]["logout"] = "idle"
  /\ Set(job, t, JobAt(t, "logout", FirstStep(token[t])))
  /\ wire' = wire \cup FirstSent(t, "logout", token[t])
  /\ UNCHANGED <<sessions, cookie, token, page, lost>>

\* Fifteen minutes have passed.
TokenAges(t) ==
  /\ token[t] # NoToken /\ ~token[t].aged
  /\ token' = [token EXCEPT ![t].aged = TRUE]
  /\ UNCHANGED <<sessions, wire, cookie, page, job, lost>>

-----------------------------------------------------------------------------
(* Answers                                                                 *)

Comes(m, slot, at) == m \in wire /\ m.slot = slot /\ m.at = at

\* Where restore and logout leave the page when they end without a session:
\* LobbyStage replaces itself by /login if it still waits, handleExit goes
\* home whatever the page.
PageAfter(t, ended) ==
  IF "logout" \in ended \/ ("restore" \in ended /\ page[t] = "waiting")
  THEN "out" ELSE page[t]

\* The jobs of ended reject or resolve to null; logoutSession clears the
\* token in its finally, whatever its calls did.
End(t, ended, tk, m) ==
  /\ Set(job, t, [j \in Jobs |-> IF j \in ended THEN "idle" ELSE job[t][j]])
  /\ Set(page, t, PageAfter(t, ended))
  /\ Set(token, t, IF "logout" \in ended THEN NoToken ELSE tk)
  /\ wire' = wire \ {m}

\* loginWithPassword, then router.push('/lobby'), which mounts the lobby
\* unless it is there already.  Cookie and token are one step: a tab that has
\* the answer's headers and still awaits its body is not told apart.
LoginAnswered(m) ==
  LET t == m.tab
      starts == page[t] = "out" /\ job[t]["restore"] = "idle"
  IN
  /\ Comes(m, "login", "ok")
  /\ Set(cookie, t, m.sid)
  /\ Set(token, t, Fresh(m.sid))
  /\ Set(page, t, IF page[t] = "out" THEN "waiting" ELSE page[t])
  /\ Set(job, t, [job[t] EXCEPT !["login"] = "idle",
                                !["restore"] = IF starts THEN "call" ELSE @])
  /\ wire' = (wire \ {m})
       \cup (IF starts THEN {Call(t, "restore", Fresh(m.sid))} ELSE {})
  /\ UNCHANGED <<sessions, lost>>

LoginFailed(m) ==
  /\ Comes(m, "login", "unauthorized")
  /\ Set(job, m.tab, JobAt(m.tab, "login", "idle"))
  /\ wire' = wire \ {m}
  /\ UNCHANGED <<sessions, cookie, token, page, lost>>

\* The jobs that await refreshInFlight.
Waiters(t) == {j \in Jobs : job[t][j] \in {"refresh", "again"}}

RefreshAnswered(m) ==
  LET t == m.tab IN
  /\ Comes(m, "refresh", "ok")
  /\ Set(cookie, t, m.sid)
  /\ Set(token, t, Fresh(m.sid))
  /\ Set(job, t, [j \in Jobs |->
       CASE job[t][j] = "refresh" -> "call"
         [] job[t][j] = "again"   -> "recall"
         [] OTHER                 -> job[t][j]])
  /\ wire' = (wire \ {m}) \cup {Call(t, j, Fresh(m.sid)) : j \in Waiters(t)}
  /\ UNCHANGED <<sessions, page, lost>>

RefreshFailed(m) ==
  /\ Comes(m, "refresh", "unauthorized")
  /\ End(m.tab, Waiters(m.tab), NoToken, m)
  /\ UNCHANGED <<sessions, cookie, lost>>

\* GET /auth/me: the lobby is rendered if it waits.
Restored(m) ==
  LET t == m.tab IN
  /\ Comes(m, "restore", "ok")
  /\ Set(page, t, IF page[t] = "waiting" THEN "lobby" ELSE page[t])
  /\ Set(job, t, JobAt(t, "restore", "idle"))
  /\ wire' = wire \ {m}
  /\ UNCHANGED <<sessions, cookie, token, lost>>

\* Mutant: the token survives a logout that succeeded.
LoggedOutInPart(m) ==
  /\ Comes(m, "logout", "ok")
  /\ Set(cookie, m.tab, NoSid)
  /\ Set(job, m.tab, JobAt(m.tab, "logout", "idle"))
  /\ Set(page, m.tab, "out")
  /\ wire' = wire \ {m}
  /\ UNCHANGED <<sessions, token, lost>>

\* POST /auth/logout: the answer clears the cookie.
LoggedOut(m) ==
  /\ Comes(m, "logout", "ok")
  /\ Set(cookie, m.tab, NoSid)
  /\ End(m.tab, {"logout"}, token[m.tab], m)
  /\ UNCHANGED <<sessions, lost>>

\* Mutant: a 401 ends the call instead of being retried.
RetriedNever(m) ==
  /\ m \in wire /\ m.slot \in {"restore", "logout"} /\ m.at = "unauthorized"
  /\ job[m.tab][m.slot] = "call"
  /\ End(m.tab, {m.slot}, NoToken, m)
  /\ UNCHANGED <<sessions, cookie, lost>>

\* The first 401 drops the token, whichever it is by now, and refreshes.
Retried(m) ==
  LET t == m.tab IN
  /\ m \in wire /\ m.slot \in {"restore", "logout"} /\ m.at = "unauthorized"
  /\ job[t][m.slot] = "call"
  /\ Set(token, t, NoToken)
  /\ Set(job, t, JobAt(t, m.slot, "again"))
  /\ wire' = (wire \ {m}) \cup RefreshNeeded(t)
  /\ UNCHANGED <<sessions, cookie, page, lost>>

\* A second 401, or another refusal.
CallFailed(m) ==
  /\ m \in wire /\ m.slot \in {"restore", "logout"}
  /\ \/ m.at = "refused"
     \/ m.at = "unauthorized" /\ job[m.tab][m.slot] = "recall"
  /\ End(m.tab, {m.slot}, token[m.tab], m)
  /\ UNCHANGED <<sessions, cookie, lost>>

Answered(m) ==
  \/ LoginAnswered(m)
  \/ LoginFailed(m)
  \/ RefreshAnswered(m)
  \/ RefreshFailed(m)
  \/ Restored(m)
  \/ LoggedOut(m)
  \/ Retried(m)
  \/ CallFailed(m)

-----------------------------------------------------------------------------
(* The network fails, the page is reloaded                                 *)

\* A request that fails may have been handled or not.  (One handled after its
\* tab has given up is to the tab as if handled before, or a RevokeElsewhere.)
LosesRefresh(t, ms) ==
  Set(lost, t, lost[t] \/ \E m \in ms : m.slot = "refresh")

\* Mutant: those who await a refresh that fails wait on.
FailedBySilently(m) == IF m.slot = "refresh" THEN {} ELSE {m.slot}

\* The jobs a NETWORK_ERROR of m rejects.
FailedBy(m) == IF m.slot = "refresh" THEN Waiters(m.tab) ELSE {m.slot}

Lose(m) ==
  LET t == m.tab IN
  /\ m \in wire
  /\ wire' = wire \ {m}
  /\ Set(job, t, [j \in Jobs |-> IF j \in FailedBy(m) THEN "idle" ELSE job[t][j]])
  /\ Set(page, t, PageAfter(t, FailedBy(m)))
  /\ Set(token, t, IF "logout" \in FailedBy(m) THEN NoToken ELSE token[t])
  /\ LosesRefresh(t, {m})
  /\ UNCHANGED <<sessions, cookie>>

\* The module's memory is gone, the cookie is not; the lobby mounts anew if
\* it is the page reloaded.
Reload(t) ==
  LET mine == {m \in wire : m.tab = t} IN
  /\ mine # {} \/ token[t] # NoToken
  /\ wire' = wire \ mine
  /\ Set(page, t, "out")
  /\ Set(token, t, NoToken)
  /\ Set(job, t, [j \in Jobs |-> "idle"])
  /\ LosesRefresh(t, mine)
  /\ UNCHANGED <<sessions, cookie>>

-----------------------------------------------------------------------------
User(t) == OpenLobby(t) \/ LeaveLobby(t) \/ SubmitLogin(t) \/ Exit(t)

Server == RevokeElsewhere \/ \E m \in wire : Serve(m)

Next ==
  \/ \E t \in Tabs : User(t) \/ TokenAges(t) \/ Reload(t)
  \/ \E m \in wire : Answered(m) \/ Lose(m)
  \/ Server /\ UNCHANGED clientVars

Spec == Init /\ [][Next]_vars

\* A request moves on, is answered or fails in the end.
Moves(t, slot) ==
  \E m \in wire : m.tab = t /\ m.slot = slot /\
    \/ Serve(m) /\ UNCHANGED clientVars
    \/ Answered(m) \/ Lose(m)

FairSpec ==
  Spec /\ \A t \in Tabs : \A slot \in {"restore", "refresh"} : WF_vars(Moves(t, slot))

-----------------------------------------------------------------------------
\* Every job has the one request it awaits under way, and a lobby without a
\* session has a restore under way: no promise is left without its answer.
WebTypeOK ==
  /\ sessions \in [Sids -> SessionStates]
  /\ \A m \in wire : m \in Messages
  /\ cookie \in [Tabs -> Sids \cup {NoSid}]
  /\ token \in [Tabs -> Tokens]
  /\ page \in [Tabs -> Pages]
  /\ job \in [Tabs -> [Jobs -> Steps]]
  /\ lost \in [Tabs -> BOOLEAN]
  /\ \A t \in Tabs :
       LET sent(slot) == {m \in wire : m.tab = t /\ m.slot = slot} IN
       /\ \A j \in Jobs : Cardinality(sent(j)) =
            IF job[t][j] \in {"call", "recall"} THEN 1 ELSE 0
       /\ Cardinality(sent("refresh")) = IF Waiters(t) = {} THEN 0 ELSE 1
       /\ page[t] = "waiting" => job[t]["restore"] # "idle"

\* The access token in memory is of the session the cookie refreshes, however
\* logins, refreshes and logouts of the tab overtake each other.
TokenGoesWithCookie ==
  \A t \in Tabs : token[t] # NoToken => cookie[t] = token[t].sid

\* session.ts, header: a tab never presents a token it has rotated itself,
\* which would revoke the whole chain, unless the answer was lost.
ReplaysComeFromLoss ==
  [][\A m \in wire :
       ReuseDetected(m) /\ sessions[m.cookie] = "rotated" => lost[m.tab]]_vars

\* The session a request is about.
Credential(m) == IF m.path = "refresh" THEN m.cookie ELSE m.bearer

SentAway(t) == page[t] = "waiting" /\ page'[t] = "out"

\* LobbyStage: no session, back to /login.  A 401 sends a lobby that waits
\* away only if the session of the cookie has ended, not because the access
\* token has; unless the answer is about another session than the cookie's.
SentAwaySignedOut ==
  [][\A m \in wire :
       /\ SentAway(m.tab) /\ Answered(m) /\ m.at = "unauthorized"
       /\ Credential(m) = cookie[m.tab]
       => ~Live(cookie[m.tab])]_vars

\* A lobby that waits is rendered or left, whatever is lost.
RestoresEnd ==
  \A t \in Tabs : page[t] = "waiting" ~> job[t]["restore"] = "idle"

=============================================================================
