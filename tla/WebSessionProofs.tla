-------------------------- MODULE WebSessionProofs --------------------------
(***************************************************************************)
(* Proofs about WebSession, for any number of tabs and of sessions: what a *)
(* tab awaits is under way, the token in memory goes with the cookie, a    *)
(* session is refreshed twice only after a loss, and a lobby is sent away  *)
(* only when its session is over.                                          *)
(*                                                                         *)
(* The invariant has three parts: what the requests under way have to do   *)
(* with the jobs of their tab (Requests), which sessions they may name     *)
(* (Knowledge), and who may still present a session (Holders).             *)
(***************************************************************************)
EXTENDS WebSession, TLAPS, FiniteSetTheorems

-----------------------------------------------------------------------------
(* The invariant                                                           *)

TypeInv ==
  /\ sessions \in [Sids -> SessionStates]
  /\ wire \subseteq Messages
  /\ cookie \in [Tabs -> Sids \cup {NoSid}]
  /\ token \in [Tabs -> Tokens]
  /\ page \in [Tabs -> Pages]
  /\ job \in [Tabs -> [Jobs -> Steps]]
  /\ lost \in [Tabs -> BOOLEAN]

SlotPath == [restore |-> "me", logout |-> "logout",
             login |-> "login", refresh |-> "refresh"]

\* The shape of a message: only a refresh carries the cookie, only an answer
\* to a login or a refresh brings a session.
WellFormed(m) ==
  /\ m.path = SlotPath[m.slot]
  /\ m.slot # "refresh" => m.cookie = NoSid
  /\ m.sid # NoSid => m.at = "ok" /\ m.slot \in {"login", "refresh"}

\* A tab has one request of a kind under way, and awaits it.
OnePerSlot ==
  \A m, n \in wire : m.tab = n.tab /\ m.slot = n.slot => m = n

CallsAreAwaited ==
  \A m \in wire : m.slot \in Jobs => job[m.tab][m.slot] \in {"call", "recall"}

RefreshesAreAwaited ==
  \A m \in wire : m.slot = "refresh" => Waiters(m.tab) # {}

\* And what it awaits is under way.
UnderWay(t, slot) == \E m \in wire : m.tab = t /\ m.slot = slot

CallsAreUnderWay ==
  \A t \in Tabs : \A j \in Jobs :
    job[t][j] \in {"call", "recall"} => UnderWay(t, j)

RefreshesAreUnderWay ==
  \A t \in Tabs : Waiters(t) # {} => UnderWay(t, "refresh")

JobsFit ==
  \A t \in Tabs :
    /\ job[t]["login"] \in {"idle", "call"}
    /\ page[t] = "waiting" => job[t]["restore"] # "idle"

\* The call that follows a refresh carries the token it brought.
RecallsAreFresh ==
  \A m \in wire :
    m.slot \in {"restore", "logout"} /\ job[m.tab][m.slot] = "recall" => ~m.aged

Requests ==
  /\ \A m \in wire : WellFormed(m)
  /\ OnePerSlot
  /\ CallsAreAwaited
  /\ RefreshesAreAwaited
  /\ CallsAreUnderWay
  /\ RefreshesAreUnderWay
  /\ JobsFit
  /\ RecallsAreFresh

\* The sessions the API has created.
Known(s) == s = NoSid \/ (s \in Sids /\ sessions[s] # "absent")

NamesAreKnown ==
  /\ \A m \in wire : Known(m.cookie) /\ Known(m.bearer) /\ Known(m.sid)
  /\ \A t \in Tabs : Known(cookie[t]) /\ Known(token[t].sid)

\* A 401 is about a session that has ended, or a token that has expired.
RejectionsAreTrue ==
  \A m \in wire : m.at = "unauthorized" =>
    /\ m.slot = "refresh" => ~Live(m.cookie)
    /\ m.slot \in {"restore", "logout"} /\ ~m.aged => ~Live(m.bearer)

Knowledge == NamesAreKnown /\ RejectionsAreTrue

\* A session is presented, or brought, by one tab only; one that an answer
\* brings is nowhere else yet, and has not been rotated.
OneHolder ==
  /\ \A t, u \in Tabs : cookie[t] = cookie[u] /\ cookie[t] # NoSid => t = u
  /\ \A t \in Tabs : \A m \in wire :
       cookie[t] = m.cookie /\ cookie[t] # NoSid => t = m.tab
  /\ \A m, n \in wire : m.cookie = n.cookie /\ m.cookie # NoSid => m.tab = n.tab

AnswersBringNew ==
  \A m \in wire : m.sid # NoSid =>
    /\ sessions[m.sid] # "rotated"
    /\ \A t \in Tabs : cookie[t] # m.sid
    /\ \A n \in wire : n.cookie # m.sid /\ (n.sid = m.sid => n = m)

Rotated(s) == s \in Sids /\ sessions[s] = "rotated"

\* A cookie that has been rotated is about to be replaced, or its successor
\* was lost.
RotatedCookies ==
  \A t \in Tabs : Rotated(cookie[t]) /\ ~lost[t] =>
    \E m \in wire : m.tab = t /\ m.slot = "refresh" /\ m.at = "ok"

RotatedRequests ==
  \A m \in wire :
    m.slot = "refresh" /\ m.at = "sent" /\ Rotated(m.cookie) => lost[m.tab]

Holders == OneHolder /\ AnswersBringNew /\ RotatedCookies /\ RotatedRequests

Inv ==
  TypeInv /\ Requests /\ Knowledge /\ Holders /\ TokenGoesWithCookie

-----------------------------------------------------------------------------
(* What a step of the API does                                             *)

SameRequest(m, n) ==
  /\ n.tab = m.tab /\ n.slot = m.slot /\ n.path = m.path
  /\ n.cookie = m.cookie /\ n.bearer = m.bearer /\ n.aged = m.aged

\* Sessions are created, ended and rotated, and never come back.
SessionsAge ==
  /\ sessions' \in [Sids -> SessionStates]
  /\ \A s \in Sids : sessions[s] # "absent" =>
       /\ sessions'[s] # "absent"
       /\ sessions'[s] = "live" => sessions[s] = "live"

\* The API turns the request m into n.
Served(m, n) ==
  /\ wire' = (wire \ {m}) \cup {n}
  /\ n \in Messages /\ SameRequest(m, n) /\ n.at # "sent" /\ WellFormed(n)
  /\ m.at \in {"sent", "admitted"}
  /\ n.sid # NoSid => n.sid \in Free /\ sessions'[n.sid] = "live"
  /\ n.at = "unauthorized" =>
       /\ m.slot = "refresh" => ~Live(m.cookie)
       /\ m.slot \in {"restore", "logout"} /\ ~m.aged => ~Live(m.bearer)
  /\ \A s \in Sids : sessions'[s] = "rotated" =>
       \/ sessions[s] = "rotated"
       \/ s = m.cookie /\ m.slot = "refresh" /\ n.at = "ok"

\* A new session is one that nobody has.
LEMMA FreshSidIsFree ==
  ASSUME Free # {}
  PROVE  FreshSid \in Free
  BY DEF FreshSid

\* Sending a message on keeps what it asks for.
LEMMA Advanced ==
  ASSUME NEW m \in Messages, NEW at \in Stages, WellFormed(m), m.at # "ok"
  PROVE  LET n == [m EXCEPT !.at = at] IN
           n \in Messages /\ SameRequest(m, n) /\ n.at = at
             /\ n.sid = NoSid /\ WellFormed(n)
  BY DEF Messages, WellFormed, SameRequest

LEMMA Granted ==
  ASSUME NEW m \in Messages, NEW s \in Sids, WellFormed(m),
         m.slot \in {"login", "refresh"}
  PROVE  LET n == [m EXCEPT !.at = "ok", !.sid = s] IN
           n \in Messages /\ SameRequest(m, n) /\ n.at = "ok"
             /\ n.sid = s /\ WellFormed(n)
  BY DEF Messages, WellFormed, SameRequest, Stages, Answers

LEMMA SlotsOfPaths ==
  ASSUME NEW m \in Messages, WellFormed(m)
  PROVE  /\ m.path = "login" <=> m.slot = "login"
         /\ m.path = "refresh" <=> m.slot = "refresh"
         /\ m.path \in Guarded <=> m.slot \in {"restore", "logout"}
         /\ m.path = "me" <=> m.slot = "restore"
         /\ m.path = "logout" <=> m.slot = "logout"
  BY DEF Messages, WellFormed, SlotPath, Slots, Guarded

\* Every handler of the API is such a step.
LEMMA ServeServes ==
  ASSUME TypeInv, Requests, NEW m \in wire, Serve(m)
  PROVE  SessionsAge /\ \E n : Served(m, n)
<1>1. m \in Messages /\ WellFormed(m)
  BY DEF TypeInv, Requests
<1>2. ASSUME NEW at \in Stages, Advance(m, at), at # "sent", m.at \in {"sent", "admitted"},
             at = "unauthorized" =>
               /\ m.slot = "refresh" => ~Live(m.cookie)
               /\ m.slot \in {"restore", "logout"} /\ ~m.aged => ~Live(m.bearer),
             \A s \in Sids : sessions'[s] = "rotated" => sessions[s] = "rotated"
      PROVE  \E n : Served(m, n)
  <2> DEFINE n == [m EXCEPT !.at = at]
  <2>1. n \in Messages /\ SameRequest(m, n) /\ n.at = at /\ n.sid = NoSid /\ WellFormed(n)
    BY <1>1, <1>2, Advanced
  <2>2. wire' = (wire \ {m}) \cup {n}
    BY <1>2 DEF Advance, Becomes
  <2> HIDE DEF n
  <2>3. Served(m, n)
    BY <1>2, <2>1, <2>2 DEF Served
  <2> QED BY <2>3
<1>3. ASSUME NEW s \in Free, Grant(m, s), m.at = "sent", m.slot \in {"login", "refresh"},
             sessions'[s] = "live",
             \A r \in Sids : sessions'[r] = "rotated" =>
               sessions[r] = "rotated" \/ (r = m.cookie /\ m.slot = "refresh")
      PROVE  \E n : Served(m, n)
  <2> DEFINE n == [m EXCEPT !.at = "ok", !.sid = s]
  <2>1. n \in Messages /\ SameRequest(m, n) /\ n.at = "ok" /\ n.sid = s /\ WellFormed(n)
    BY <1>1, <1>3, Granted DEF Free
  <2>2. wire' = (wire \ {m}) \cup {n}
    BY <1>3 DEF Grant, Becomes
  <2> HIDE DEF n
  <2>3. Served(m, n)
    BY <1>3, <2>1, <2>2 DEF Served
  <2> QED BY <2>3
<1>4. sessions \in [Sids -> SessionStates]
  BY DEF TypeInv
<1>5. ASSUME sessions' = sessions
      PROVE  SessionsAge /\ \A s \in Sids : sessions'[s] = "rotated" => sessions[s] = "rotated"
  BY <1>4, <1>5 DEF SessionsAge
<1>6. CASE Login(m)
  <2>1. FreshSid \in Free
    BY <1>6, FreshSidIsFree DEF Login
  <2>2. SessionsAge /\ sessions'[FreshSid] = "live"
        /\ \A r \in Sids : sessions'[r] = "rotated" => sessions[r] = "rotated"
    BY <1>4, <1>6, <2>1 DEF Login, SessionsAge, Free, SessionStates
  <2>3. m.at = "sent" /\ m.slot = "login" /\ Grant(m, FreshSid)
    BY <1>1, <1>6, SlotsOfPaths DEF Login, Arrived
  <2> QED BY <1>3, <2>1, <2>2, <2>3
<1>7. CASE LoginRefused(m)
  BY <1>1, <1>2, <1>5, <1>7, SlotsOfPaths DEF LoginRefused, Arrived, Stages, Answers
<1>8. CASE RefreshRefused(m)
  BY <1>1, <1>2, <1>5, <1>8, SlotsOfPaths, ApiAssumption
     DEF RefreshRefused, Arrived, Stages, Answers, Live
<1>9. CASE ReuseDetected(m)
  <2>1. SessionsAge /\ \A s \in Sids : sessions'[s] = "rotated" => sessions[s] = "rotated"
    BY <1>4, <1>9 DEF ReuseDetected, SessionsAge, AllRevoked, SessionStates
  <2> QED BY <1>1, <1>2, <1>9, <2>1, SlotsOfPaths DEF ReuseDetected, Arrived, Stages, Answers, Live
<1>10. CASE Rotate(m)
  <2>1. FreshSid \in Free /\ m.cookie \in Sids /\ sessions[m.cookie] = "live"
    BY <1>10, FreshSidIsFree DEF Rotate, Live
  <2>2. SessionsAge /\ sessions'[FreshSid] = "live"
        /\ \A r \in Sids : sessions'[r] = "rotated" => sessions[r] = "rotated" \/ r = m.cookie
    BY <1>4, <1>10, <2>1 DEF Rotate, SessionsAge, Free, SessionStates
  <2>3. m.at = "sent" /\ m.slot = "refresh" /\ Grant(m, FreshSid)
    BY <1>1, <1>10, SlotsOfPaths DEF Rotate, Arrived
  <2> QED BY <1>3, <2>1, <2>2, <2>3
<1>11. CASE SessionRejected(m)
  BY <1>1, <1>2, <1>5, <1>11, SlotsOfPaths DEF SessionRejected, Stages, Answers
<1>12. CASE SessionAccepted(m)
  BY <1>1, <1>2, <1>5, <1>12, SlotsOfPaths DEF SessionAccepted, Stages
<1>13. CASE Refused(m)
  BY <1>1, <1>2, <1>5, <1>13, SlotsOfPaths DEF Refused, Stages, Answers
<1>14. CASE Me(m)
  BY <1>1, <1>2, <1>5, <1>14, SlotsOfPaths DEF Me, Stages, Answers
<1>15. CASE Logout(m)
  <2>1. SessionsAge /\ \A s \in Sids : sessions'[s] = "rotated" => sessions[s] = "rotated"
    BY <1>4, <1>15 DEF Logout, SessionsAge, SessionStates, Live
  <2> QED BY <1>1, <1>2, <1>15, <2>1, SlotsOfPaths DEF Logout, Stages, Answers
<1> QED
  BY <1>6, <1>7, <1>8, <1>9, <1>10, <1>11, <1>12, <1>13, <1>14, <1>15 DEF Serve

-----------------------------------------------------------------------------
(* The steps of the API keep the invariant                                 *)

LEMMA ServedKeepsTypes ==
  ASSUME TypeInv, SessionsAge, NEW m \in wire, NEW n, Served(m, n), UNCHANGED clientVars
  PROVE  TypeInv'
  BY DEF TypeInv, SessionsAge, Served, clientVars

LEMMA ServedKeepsRequests ==
  ASSUME TypeInv, Requests, NEW m \in wire, NEW n, Served(m, n), UNCHANGED clientVars
  PROVE  Requests'
<1>1. /\ job' = job /\ page' = page /\ wire' = (wire \ {m}) \cup {n}
      /\ n.tab = m.tab /\ n.slot = m.slot /\ n.aged = m.aged /\ WellFormed(n)
      /\ \A t : Waiters(t)' = Waiters(t)
  BY DEF Served, SameRequest, clientVars, Waiters
<1>2. (\A x \in wire : WellFormed(x))'
  BY <1>1 DEF Requests, WellFormed
<1>3. OnePerSlot'
  BY <1>1 DEF Requests, OnePerSlot
<1>4. CallsAreAwaited'
  BY <1>1 DEF Requests, CallsAreAwaited
<1>5. RefreshesAreAwaited'
  BY <1>1 DEF Requests, RefreshesAreAwaited
<1>6. \A t, slot : UnderWay(t, slot) => UnderWay(t, slot)'
  BY <1>1 DEF UnderWay
<1>7. CallsAreUnderWay'
  BY <1>1, <1>6 DEF Requests, CallsAreUnderWay
<1>8. RefreshesAreUnderWay'
  BY <1>1, <1>6 DEF Requests, RefreshesAreUnderWay
<1>9. JobsFit'
  BY <1>1 DEF Requests, JobsFit
<1>10. RecallsAreFresh'
  BY <1>1 DEF Requests, RecallsAreFresh
<1> QED BY <1>2, <1>3, <1>4, <1>5, <1>7, <1>8, <1>9, <1>10 DEF Requests

\* What is known stays known, and what has ended stays ended.
LEMMA SessionsAgeKnown ==
  ASSUME SessionsAge, NEW s, Known(s)
  PROVE  /\ Known(s)'
         /\ ~Live(s) => ~Live(s)'
  BY ApiAssumption DEF SessionsAge, Known, Live

LEMMA ServedKeepsKnowledge ==
  ASSUME TypeInv, SessionsAge, Knowledge, NEW m \in wire, NEW n, Served(m, n),
         UNCHANGED clientVars
  PROVE  Knowledge'
<1>1. /\ cookie' = cookie /\ token' = token /\ wire' = (wire \ {m}) \cup {n}
      /\ SameRequest(m, n)
  BY DEF Served, clientVars
<1>2. Known(n.sid)'
  BY ApiAssumption DEF Served, Known, Free, SessionsAge
<1>3. Known(n.cookie) /\ Known(n.bearer)
  BY <1>1 DEF Knowledge, NamesAreKnown, SameRequest
<1>4. NamesAreKnown'
  <2>1. \A t \in Tabs : Known(cookie[t])' /\ Known(token[t].sid)'
    BY <1>1, SessionsAgeKnown DEF Knowledge, NamesAreKnown, Known
  <2>2. ASSUME NEW x \in wire'
        PROVE  Known(x.cookie)' /\ Known(x.bearer)' /\ Known(x.sid)'
    <3>1. CASE x \in wire
      BY <3>1, SessionsAgeKnown DEF Knowledge, NamesAreKnown
    <3>2. CASE x = n
      BY <1>2, <1>3, <3>2, SessionsAgeKnown
    <3> QED BY <1>1, <3>1, <3>2
  <2> QED BY <2>1, <2>2 DEF NamesAreKnown, Known
<1>5. RejectionsAreTrue'
  <2>1. ASSUME NEW x \in wire', x.at = "unauthorized"
        PROVE  /\ x.slot = "refresh" => ~Live(x.cookie)
               /\ x.slot \in {"restore", "logout"} /\ ~x.aged => ~Live(x.bearer)
               /\ Known(x.cookie) /\ Known(x.bearer)
    <3>1. CASE x \in wire
      BY <2>1, <3>1 DEF Knowledge, NamesAreKnown, RejectionsAreTrue
    <3>2. CASE x = n
      BY <1>1, <1>3, <2>1, <3>2 DEF Served, SameRequest
    <3> QED BY <1>1, <3>1, <3>2
  <2>2. ASSUME NEW x \in wire', x.at = "unauthorized"
        PROVE  /\ x.slot = "refresh" => ~Live(x.cookie)'
               /\ x.slot \in {"restore", "logout"} /\ ~x.aged => ~Live(x.bearer)'
    BY <2>1, <2>2, SessionsAgeKnown
  <2> QED BY <2>2 DEF RejectionsAreTrue, Live
<1> QED BY <1>4, <1>5 DEF Knowledge

LEMMA ServedKeepsHolders ==
  ASSUME TypeInv, SessionsAge, Requests, Knowledge, Holders,
         NEW m \in wire, NEW n, Served(m, n), UNCHANGED clientVars
  PROVE  Holders'
<1>1. /\ cookie' = cookie /\ lost' = lost /\ wire' = (wire \ {m}) \cup {n}
      /\ n.tab = m.tab /\ n.slot = m.slot /\ n.cookie = m.cookie
      /\ m \in Messages /\ n \in Messages
  BY DEF Served, clientVars, SameRequest, TypeInv
<1>2. OneHolder'
  BY <1>1 DEF Holders, OneHolder
<1>3. AnswersBringNew'
  <2>1. n.sid # NoSid =>
          /\ sessions'[n.sid] # "rotated"
          /\ \A t \in Tabs : cookie[t] # n.sid
          /\ \A x \in wire : x.cookie # n.sid /\ x.sid # n.sid
    BY DEF Served, Free, Knowledge, NamesAreKnown, Known
  <2>2. ASSUME NEW x \in wire, x.sid # NoSid
        PROVE  /\ sessions'[x.sid] # "rotated"
               /\ \A t \in Tabs : cookie[t] # x.sid
               /\ n.cookie # x.sid
    BY <1>1, <2>2 DEF Holders, AnswersBringNew, TypeInv, Messages, Served
  <2>3. ASSUME NEW x \in wire', x.sid # NoSid
        PROVE  /\ sessions'[x.sid] # "rotated"
               /\ \A t \in Tabs : cookie'[t] # x.sid
               /\ \A y \in wire' : y.cookie # x.sid /\ (y.sid = x.sid => y = x)
    <3>1. CASE x = n
      BY <1>1, <2>1, <2>3, <3>1
    <3>2. CASE x \in wire
      BY <1>1, <2>1, <2>2, <2>3, <3>2 DEF Holders, AnswersBringNew
    <3> QED BY <1>1, <3>1, <3>2
  <2> QED BY <2>3 DEF AnswersBringNew
<1>4. \A s : Rotated(s)' => Rotated(s) \/ (s = m.cookie /\ s # NoSid /\ m.slot = "refresh" /\ n.at = "ok")
  BY ApiAssumption DEF Served, Rotated
<1>5. RotatedCookies'
  <2>1. ASSUME NEW t \in Tabs, Rotated(cookie[t])', ~lost[t]
        PROVE  \E x \in wire' : x.tab = t /\ x.slot = "refresh" /\ x.at = "ok"
    <3>1. CASE Rotated(cookie[t])
      <4>1. PICK x \in wire : x.tab = t /\ x.slot = "refresh" /\ x.at = "ok"
        BY <2>1, <3>1 DEF Holders, RotatedCookies
      <4>2. x # m
        BY <4>1 DEF Served
      <4> QED BY <1>1, <4>1, <4>2
    <3>2. CASE cookie[t] = m.cookie /\ cookie[t] # NoSid /\ m.slot = "refresh" /\ n.at = "ok"
      <4>1. t = m.tab
        BY <3>2 DEF Holders, OneHolder
      <4> QED BY <1>1, <3>2, <4>1
    <3>3. cookie[t]' = cookie[t]
      BY <1>1
    <3> QED BY <1>4, <2>1, <3>1, <3>2, <3>3 DEF Rotated
  <2> QED BY <1>1, <2>1 DEF RotatedCookies, Rotated
<1>6. RotatedRequests'
  <2>1. ASSUME NEW x \in wire', x.slot = "refresh", x.at = "sent", Rotated(x.cookie)'
        PROVE  lost[x.tab]
    <3>1. x \in wire /\ x # n
      BY <1>1, <2>1 DEF Served
    <3>2. CASE Rotated(x.cookie)
      BY <2>1, <3>1, <3>2 DEF Holders, RotatedRequests
    <3>3. CASE x.cookie = m.cookie /\ x.cookie # NoSid /\ m.slot = "refresh" /\ n.at = "ok"
      <4>1. x = m
        BY <2>1, <3>1, <3>3 DEF Holders, OneHolder, Requests, OnePerSlot
      <4> QED BY <1>1, <3>1, <4>1
    <3> QED BY <1>4, <2>1, <3>2, <3>3
  <2> QED BY <1>1, <2>1 DEF RotatedRequests, Rotated
<1> QED BY <1>2, <1>3, <1>5, <1>6 DEF Holders

\* A tab whose sessions are revoked elsewhere.
LEMMA RevokeKeepsInv ==
  ASSUME Inv, RevokeElsewhere, UNCHANGED clientVars
  PROVE  Inv'
<1>1. /\ wire' = wire /\ cookie' = cookie /\ token' = token /\ page' = page
      /\ job' = job /\ lost' = lost
  BY DEF RevokeElsewhere, clientVars
<1>2. /\ SessionsAge
      /\ \A s : Rotated(s)' => Rotated(s)
  BY DEF Inv, TypeInv, RevokeElsewhere, SessionsAge, AllRevoked, SessionStates, Rotated
<1>3. TypeInv'
  BY <1>1, <1>2 DEF Inv, TypeInv, SessionsAge
<1>4. Requests'
  BY <1>1 DEF Inv, Requests, WellFormed, OnePerSlot, CallsAreAwaited, RefreshesAreAwaited,
     CallsAreUnderWay, RefreshesAreUnderWay, JobsFit, RecallsAreFresh, UnderWay, Waiters
<1>5. NamesAreKnown'
  BY <1>1, <1>2, SessionsAgeKnown DEF Inv, Knowledge, NamesAreKnown
<1>6. RejectionsAreTrue'
  BY <1>1, <1>2, SessionsAgeKnown DEF Inv, Knowledge, NamesAreKnown, RejectionsAreTrue
<1>7. AnswersBringNew'
  BY <1>1, <1>2, ApiAssumption DEF Inv, TypeInv, Messages, Holders, AnswersBringNew, Rotated
<1>8. OneHolder' /\ RotatedCookies' /\ RotatedRequests'
  BY <1>1, <1>2 DEF Inv, Holders, OneHolder, RotatedCookies, RotatedRequests, Rotated
<1>9. TokenGoesWithCookie'
  BY <1>1 DEF Inv, TokenGoesWithCookie
<1> QED BY <1>3, <1>4, <1>5, <1>6, <1>7, <1>8, <1>9 DEF Inv, Knowledge, Holders

LEMMA ServerKeepsInv ==
  ASSUME Inv, Server, UNCHANGED clientVars
  PROVE  Inv'
<1>1. ASSUME NEW m \in wire, Serve(m)
      PROVE  Inv'
  <2>1. PICK n : Served(m, n)
    BY <1>1, ServeServes DEF Inv
  <2>2. SessionsAge
    BY <1>1, ServeServes DEF Inv
  <2>3. TokenGoesWithCookie'
    BY DEF Inv, TokenGoesWithCookie, clientVars
  <2> QED BY <2>1, <2>2, <2>3, ServedKeepsTypes, ServedKeepsRequests, ServedKeepsKnowledge,
             ServedKeepsHolders DEF Inv
<1> QED BY <1>1, RevokeKeepsInv DEF Server

-----------------------------------------------------------------------------
(* What a step of a tab does                                               *)

\* A request the tab t sends: a refresh carries the cookie of the moment, and
\* is sent only if none is under way.
Sends(t, x) ==
  /\ x \in Messages /\ WellFormed(x)
  /\ x.tab = t /\ x.at = "sent" /\ x.sid = NoSid
  /\ Known(x.bearer)
  /\ x.slot = "refresh" => x.cookie = cookie[t] /\ ~UnderWay(t, "refresh")

\* The answer m gives the tab t its cookie and its token.
Brings(t, m) ==
  /\ m \in wire /\ m \notin wire' /\ m.tab = t /\ m.at = "ok"
  /\ cookie'[t] = m.sid /\ token'[t] = Fresh(m.sid)
  /\ \A x \in wire' : x \notin wire => x.slot # "refresh"

\* A tab touches its own requests, cookie and memory only.
TabStep(t) ==
  /\ sessions' = sessions
  /\ \A u \in Tabs \ {t} :
       /\ cookie'[u] = cookie[u] /\ token'[u] = token[u] /\ page'[u] = page[u]
       /\ job'[u] = job[u] /\ lost'[u] = lost[u]
  /\ \A x \in wire : x \notin wire' => x.tab = t
  /\ \A x \in wire' : x \notin wire => Sends(t, x)
  /\ lost[t] => lost'[t]
  /\ \A x \in wire : x \notin wire' /\ x.slot = "refresh" /\ x.at = "ok" =>
       lost'[t] \/ cookie'[t] = x.sid
  /\ \/ \E m \in wire : Brings(t, m)
     \/ /\ cookie'[t] = cookie[t]
        /\ token'[t] = NoToken \/ (token[t] # NoToken /\ token'[t].sid = token[t].sid)
     \/ cookie'[t] = NoSid /\ token'[t] = NoToken

LEMMA TabKeepsKnowledge ==
  ASSUME TypeInv, TypeInv', Knowledge, NEW t \in Tabs, TabStep(t)
  PROVE  Knowledge'
<1>1. sessions' = sessions /\ \A s : Known(s)' <=> Known(s)
  BY DEF TabStep, Known
<1>2. Known(NoSid)
  BY DEF Known
<1>3. \A u \in Tabs : Known(cookie[u])' /\ Known(token[u].sid)'
  <2>1. ASSUME NEW u \in Tabs
        PROVE  Known(cookie'[u]) /\ Known(token'[u].sid)
    <3>1. CASE u # t
      BY <3>1 DEF TabStep, Knowledge, NamesAreKnown
    <3>2. CASE u = t
      <4>1. CASE \E m \in wire : Brings(t, m)
        BY <3>2, <4>1 DEF Brings, Fresh, Knowledge, NamesAreKnown
      <4>2. CASE /\ cookie'[t] = cookie[t]
                 /\ token'[t] = NoToken \/ (token[t] # NoToken /\ token'[t].sid = token[t].sid)
        BY <1>2, <3>2, <4>2 DEF Knowledge, NamesAreKnown, NoToken
      <4>3. CASE cookie'[t] = NoSid /\ token'[t] = NoToken
        BY <1>2, <3>2, <4>3 DEF NoToken
      <4> QED BY <4>1, <4>2, <4>3 DEF TabStep
    <3> QED BY <3>1, <3>2
  <2> QED BY <1>1, <2>1 DEF Known
<1>4. ASSUME NEW x \in wire'
      PROVE  Known(x.cookie) /\ Known(x.bearer) /\ Known(x.sid)
  BY <1>2 DEF TabStep, Sends, WellFormed, Knowledge, NamesAreKnown
<1>5. NamesAreKnown'
  BY <1>1, <1>3, <1>4 DEF NamesAreKnown, Known
<1>6. RejectionsAreTrue'
  BY <1>1 DEF TabStep, Sends, Knowledge, RejectionsAreTrue, Live
<1> QED BY <1>5, <1>6 DEF Knowledge

LEMMA TabKeepsHolders ==
  ASSUME TypeInv, TypeInv', Requests, Holders, NEW t \in Tabs, TabStep(t)
  PROVE  Holders'
<1>1. PICK ck : cookie'[t] = ck
  OBVIOUS
<1>2. \/ ck = cookie[t]
      \/ ck = NoSid
      \/ \E m \in wire : m \notin wire' /\ m.sid = ck
           /\ \A x \in wire' : x \notin wire => x.slot # "refresh"
  BY <1>1 DEF TabStep, Brings
<1>3. /\ sessions' = sessions
      /\ \A u \in Tabs : u # t => cookie'[u] = cookie[u] /\ lost'[u] = lost[u]
      /\ lost[t] => lost'[t]
      /\ \A x \in wire : x \notin wire' => x.tab = t
  BY DEF TabStep
<1>4. \A x \in wire' : x \notin wire =>
        /\ x.tab = t /\ x.sid = NoSid
        /\ x.cookie = NoSid \/ (x.cookie = cookie[t] /\ x.slot = "refresh" /\ ~UnderWay(t, "refresh"))
  BY DEF TabStep, Sends, WellFormed
<1>5. \A x, y \in wire : x.sid # NoSid =>
        /\ ~Rotated(x.sid) /\ y.cookie # x.sid
        /\ \A u \in Tabs : cookie[u] # x.sid
        /\ y.sid = x.sid => y = x
  BY DEF Holders, AnswersBringNew, Rotated
<1>6. OneHolder'
  <2>1. \A u, v \in Tabs : cookie'[u] = cookie'[v] /\ cookie'[u] # NoSid => u = v
    BY <1>1, <1>2, <1>3, <1>5 DEF Holders, OneHolder
  <2>2. ASSUME NEW u \in Tabs, NEW x \in wire', cookie'[u] = x.cookie, cookie'[u] # NoSid
        PROVE  u = x.tab
    <3>1. CASE x \in wire
      BY <1>1, <1>2, <1>3, <1>5, <2>2, <3>1 DEF Holders, OneHolder
    <3>2. CASE x \notin wire
      <4>1. x.tab = t /\ x.cookie = cookie[t]
        BY <1>4, <2>2, <3>2
      <4>2. u # t => cookie[u] = cookie[t] /\ cookie[u] # NoSid
        BY <1>3, <2>2, <4>1
      <4> QED BY <4>1, <4>2 DEF Holders, OneHolder
    <3> QED BY <3>1, <3>2
  <2>3. ASSUME NEW x \in wire', NEW y \in wire', x.cookie = y.cookie, x.cookie # NoSid
        PROVE  x.tab = y.tab
    BY <1>4, <2>3 DEF Holders, OneHolder
  <2> QED BY <2>1, <2>2, <2>3 DEF OneHolder
<1>7. AnswersBringNew'
  <2>1. ASSUME NEW x \in wire', x.sid # NoSid
        PROVE  /\ sessions'[x.sid] # "rotated"
               /\ \A u \in Tabs : cookie'[u] # x.sid
               /\ \A y \in wire' : y.cookie # x.sid /\ (y.sid = x.sid => y = x)
    <3>1. x \in wire
      BY <1>4, <2>1
    <3>2. sessions'[x.sid] # "rotated"
      BY <1>3, <2>1, <3>1 DEF Holders, AnswersBringNew
    <3>3. \A u \in Tabs : cookie'[u] # x.sid
      BY <1>1, <1>2, <1>3, <1>5, <2>1, <3>1
    <3>4. \A y \in wire' : y.cookie # x.sid /\ (y.sid = x.sid => y = x)
      BY <1>4, <1>5, <2>1, <3>1
    <3> QED BY <3>2, <3>3, <3>4
  <2> QED BY <2>1 DEF AnswersBringNew
<1>8. \A s : Rotated(s)' <=> Rotated(s)
  BY <1>3 DEF Rotated
<1>9. RotatedCookies'
  <2>1. ASSUME NEW u \in Tabs, Rotated(cookie'[u]), ~lost'[u]
        PROVE  \E x \in wire' : x.tab = u /\ x.slot = "refresh" /\ x.at = "ok"
    <3>1. cookie'[u] = cookie[u] /\ ~lost[u] /\ cookie[u] # NoSid
      BY <1>1, <1>2, <1>3, <1>5, <2>1, ApiAssumption DEF Rotated
    <3>2. PICK x \in wire : x.tab = u /\ x.slot = "refresh" /\ x.at = "ok"
      BY <2>1, <3>1 DEF Holders, RotatedCookies
    <3>3. CASE x \notin wire'
      <4>1. u = t /\ (lost'[t] \/ cookie'[t] = x.sid)
        BY <3>2, <3>3 DEF TabStep
      <4> QED BY <1>5, <2>1, <3>1, <4>1
    <3> QED BY <3>2, <3>3
  <2> QED BY <1>8, <2>1 DEF RotatedCookies, Rotated
<1>10. RotatedRequests'
  <2>1. ASSUME NEW x \in wire', x.slot = "refresh", x.at = "sent", Rotated(x.cookie)
        PROVE  lost'[x.tab]
    <3>1. CASE x \in wire
      <4>1. lost[x.tab] /\ x.tab \in Tabs
        BY <2>1, <3>1 DEF Holders, RotatedRequests, TypeInv, Messages
      <4> QED BY <1>3, <4>1
    <3>2. CASE x \notin wire
      <4>1. x.tab = t /\ x.cookie = cookie[t] /\ ~UnderWay(t, "refresh")
        BY <1>4, <2>1, <3>2, ApiAssumption DEF Rotated
      <4>2. lost[t]
        BY <2>1, <4>1 DEF Holders, RotatedCookies, UnderWay
      <4> QED BY <1>3, <4>1, <4>2
    <3> QED BY <3>1, <3>2
  <2> QED BY <1>8, <2>1 DEF RotatedRequests, Rotated
<1> QED BY <1>6, <1>7, <1>9, <1>10 DEF Holders

LEMMA TabKeepsToken ==
  ASSUME TypeInv, TypeInv', TokenGoesWithCookie, NEW t \in Tabs, TabStep(t)
  PROVE  TokenGoesWithCookie'
<1>1. ASSUME NEW u \in Tabs, u # t, token'[u] # NoToken
      PROVE  cookie'[u] = token'[u].sid
  BY <1>1 DEF TabStep, TokenGoesWithCookie
<1>2. ASSUME token'[t] # NoToken
      PROVE  cookie'[t] = token'[t].sid
  <2>1. CASE \E m \in wire : Brings(t, m)
    BY <2>1 DEF Brings, Fresh
  <2>2. CASE /\ cookie'[t] = cookie[t]
             /\ token[t] # NoToken /\ token'[t].sid = token[t].sid
    BY <2>2 DEF TokenGoesWithCookie
  <2> QED BY <1>2, <2>1, <2>2 DEF TabStep
<1> QED BY <1>1, <1>2 DEF TokenGoesWithCookie

-----------------------------------------------------------------------------
(* The requests of one tab                                                 *)

\* Requests, as far as the tab t goes.
OwnRequests(t) ==
  /\ \A m, n \in wire : m.tab = t /\ n.tab = t /\ m.slot = n.slot => m = n
  /\ \A m \in wire : m.tab = t /\ m.slot \in Jobs => job[t][m.slot] \in {"call", "recall"}
  /\ \A m \in wire : m.tab = t /\ m.slot = "refresh" => Waiters(t) # {}
  /\ \A j \in Jobs : job[t][j] \in {"call", "recall"} => UnderWay(t, j)
  /\ Waiters(t) # {} => UnderWay(t, "refresh")
  /\ job[t]["login"] \in {"idle", "call"}
  /\ page[t] = "waiting" => job[t]["restore"] # "idle"
  /\ \A m \in wire : m.tab = t /\ m.slot \in {"restore", "logout"}
                       /\ job[t][m.slot] = "recall" => ~m.aged

LEMMA RequestsByTab ==
  ASSUME TypeInv, Requests, NEW t \in Tabs
  PROVE  OwnRequests(t)
  BY DEF Requests, OwnRequests, OnePerSlot, CallsAreAwaited, RefreshesAreAwaited,
     CallsAreUnderWay, RefreshesAreUnderWay, JobsFit, RecallsAreFresh

LEMMA RequestsOfTabs ==
  ASSUME TypeInv', (\A m \in wire : WellFormed(m))', \A t \in Tabs : OwnRequests(t)'
  PROVE  Requests'
<1>1. \A m \in wire' : m.tab \in Tabs /\ OwnRequests(m.tab)'
  BY DEF TypeInv, Messages
<1>2. OnePerSlot'
  BY <1>1 DEF OwnRequests, OnePerSlot
<1>3. CallsAreAwaited'
  BY <1>1 DEF OwnRequests, CallsAreAwaited
<1>4. RefreshesAreAwaited'
  BY <1>1 DEF OwnRequests, RefreshesAreAwaited
<1>5. RecallsAreFresh'
  BY <1>1 DEF OwnRequests, RecallsAreFresh
<1>6. CallsAreUnderWay' /\ RefreshesAreUnderWay' /\ JobsFit'
  BY DEF OwnRequests, CallsAreUnderWay, RefreshesAreUnderWay, JobsFit
<1> QED BY <1>2, <1>3, <1>4, <1>5, <1>6 DEF Requests

\* The steps of a tab keep the invariant if they keep the requests of the tab.
LEMMA TabKeepsInv ==
  ASSUME Inv, TypeInv', NEW t \in Tabs, TabStep(t), OwnRequests(t)'
  PROVE  Inv'
<1>1. ASSUME NEW u \in Tabs, u # t
      PROVE  OwnRequests(u)'
  <2>1. /\ job'[u] = job[u] /\ page'[u] = page[u] /\ Waiters(u)' = Waiters(u)
        /\ \A x : x \in wire /\ x.tab = u <=> x \in wire' /\ x.tab = u
    BY <1>1 DEF TabStep, Waiters, Sends
  <2>2. \A slot : UnderWay(u, slot)' <=> UnderWay(u, slot)
    BY <2>1 DEF UnderWay
  <2>3. OwnRequests(u)
    BY RequestsByTab DEF Inv
  <2> QED BY <2>1, <2>2, <2>3 DEF OwnRequests
<1>2. (\A m \in wire : WellFormed(m))'
  BY DEF Inv, Requests, TabStep, Sends, WellFormed
<1>3. Requests'
  BY <1>1, <1>2, RequestsOfTabs
<1> QED BY <1>3, TabKeepsKnowledge, TabKeepsHolders, TabKeepsToken DEF Inv

-----------------------------------------------------------------------------
(* The requests a tab makes                                                *)

LEMMA CallIsSent ==
  ASSUME NEW t \in Tabs, NEW j \in {"restore", "logout"}, NEW tk \in Tokens, Known(tk.sid)
  PROVE  /\ Sends(t, Call(t, j, tk))
         /\ Call(t, j, tk).slot = j /\ Call(t, j, tk).aged = tk.aged
         /\ Call(t, j, tk).tab = t
  BY DEF Call, Request, Path, Sends, Messages, WellFormed, SlotPath, Slots, Stages, Tokens

LEMMA RefreshIsSent ==
  ASSUME TypeInv, NEW t \in Tabs, ~UnderWay(t, "refresh")
  PROVE  /\ Sends(t, RefreshCall(t, cookie[t]))
         /\ RefreshCall(t, cookie[t]).slot = "refresh"
         /\ RefreshCall(t, cookie[t]).tab = t
  BY DEF TypeInv, RefreshCall, Request, Sends, Messages, WellFormed, SlotPath, Slots, Stages,
     NoToken, Known

LEMMA LoginIsSent ==
  ASSUME NEW t \in Tabs
  PROVE  /\ Sends(t, LoginCall(t))
         /\ LoginCall(t).slot = "login" /\ LoginCall(t).tab = t
  BY DEF LoginCall, Request, Sends, Messages, WellFormed, SlotPath, Slots, Stages, NoToken, Known

\* After RefreshNeeded, one refresh is under way.
LEMMA RefreshesOnce ==
  ASSUME TypeInv, NEW t \in Tabs
  PROVE  /\ \A x \in RefreshNeeded(t) :
              Sends(t, x) /\ x.slot = "refresh" /\ x.tab = t /\ ~UnderWay(t, "refresh")
         /\ \A x, y \in RefreshNeeded(t) : x = y
         /\ ~UnderWay(t, "refresh") => \E x \in RefreshNeeded(t) : x.slot = "refresh"
<1>1. RefreshNeeded(t) = IF UnderWay(t, "refresh") THEN {} ELSE {RefreshCall(t, cookie[t])}
  BY DEF RefreshNeeded, UnderWay
<1> QED BY <1>1, RefreshIsSent

\* A call of restore or logout starts with a refresh or with its request.
LEMMA FirstSends ==
  ASSUME TypeInv, NamesAreKnown, NEW t \in Tabs, NEW j \in {"restore", "logout"}
  PROVE  LET S == FirstSent(t, j, token[t]) IN
         /\ \A x \in S : Sends(t, x) /\ x.tab = t
         /\ \A x, y \in S : x = y
         /\ token[t] = NoToken =>
              /\ \A x \in S : x.slot = "refresh" /\ ~UnderWay(t, "refresh")
              /\ ~UnderWay(t, "refresh") => \E x \in S : x.slot = "refresh"
         /\ token[t] # NoToken =>
              (\A x \in S : x.slot = j) /\ (\E x \in S : x.slot = j)
<1>1. token[t] \in Tokens /\ Known(token[t].sid)
  BY DEF TypeInv, NamesAreKnown
<1>2. CASE token[t] = NoToken
  BY <1>2, RefreshesOnce DEF FirstSent
<1>3. CASE token[t] # NoToken
  BY <1>1, <1>3, CallIsSent DEF FirstSent
<1> QED BY <1>2, <1>3

\* Starting a call keeps the invariant.
LEMMA StartKeepsInv ==
  ASSUME Inv, NEW t \in Tabs, NEW j \in {"restore", "logout"}, job[t][j] = "idle",
         Set(job, t, JobAt(t, j, FirstStep(token[t]))),
         wire' = wire \cup FirstSent(t, j, token[t]),
         page' \in [Tabs -> Pages],
         \A u \in Tabs : u # t => page'[u] = page[u],
         page'[t] = "waiting" => page[t] = "waiting" \/ j = "restore",
         UNCHANGED <<sessions, cookie, token, lost>>
  PROVE  Inv'
<1> DEFINE S == FirstSent(t, j, token[t])
           step == FirstStep(token[t])
<1>1. /\ \A x \in S : Sends(t, x) /\ x.tab = t
      /\ \A x, y \in S : x = y
      /\ token[t] = NoToken =>
           /\ \A x \in S : x.slot = "refresh" /\ ~UnderWay(t, "refresh")
           /\ ~UnderWay(t, "refresh") => \E x \in S : x.slot = "refresh"
      /\ token[t] # NoToken =>
           (\A x \in S : x.slot = j) /\ (\E x \in S : x.slot = j)
  <2>1. TypeInv /\ NamesAreKnown
    BY DEF Inv, Knowledge
  <2> QED BY <2>1, FirstSends, SMTT(30)
<1>2. step = IF token[t] = NoToken THEN "refresh" ELSE "call"
  BY DEF FirstStep
<1>3. wire' = wire \cup S /\ job' = [job EXCEPT ![t] = [job[t] EXCEPT ![j] = step]]
  BY DEF Set, JobAt
<1> HIDE DEF S, step
<1>4. TypeInv'
  BY <1>1, <1>2, <1>3 DEF Inv, TypeInv, Sends, Steps, Jobs
<1>5. TabStep(t)
  BY <1>1, <1>3 DEF Inv, TypeInv, TabStep
<1>6. job'[t] = [job[t] EXCEPT ![j] = step] /\ job[t] \in [Jobs -> Steps] /\ j \in Jobs
  BY <1>3 DEF Inv, TypeInv, Jobs
<1>7. OwnRequests(t)
  BY RequestsByTab DEF Inv
<1>8. Waiters(t)' = IF step = "refresh" THEN Waiters(t) \cup {j} ELSE Waiters(t)
  BY <1>2, <1>6 DEF Waiters
<1>9. /\ \A slot : UnderWay(t, slot) => UnderWay(t, slot)'
      /\ step = "call" => UnderWay(t, j)'
      /\ step = "refresh" => UnderWay(t, "refresh")'
  BY <1>1, <1>2, <1>3 DEF UnderWay
<1>10. \A x \in wire : x.tab = t => x.slot # j
  BY <1>6, <1>7 DEF OwnRequests
<1>11. (\A m, n \in wire : m.tab = t /\ n.tab = t /\ m.slot = n.slot => m = n)'
  BY <1>1, <1>3, <1>7, <1>10 DEF OwnRequests, UnderWay
<1>12. (\A m \in wire : m.tab = t /\ m.slot \in Jobs => job[t][m.slot] \in {"call", "recall"})'
  BY <1>1, <1>2, <1>3, <1>6, <1>7, <1>10 DEF OwnRequests, Jobs
<1>13. (\A m \in wire : m.tab = t /\ m.slot = "refresh" => Waiters(t) # {})'
  BY <1>1, <1>2, <1>3, <1>7, <1>8 DEF OwnRequests
<1>14. (\A x \in Jobs : job[t][x] \in {"call", "recall"} => UnderWay(t, x))'
  BY <1>2, <1>6, <1>7, <1>9 DEF OwnRequests
<1>15. (Waiters(t) # {} => UnderWay(t, "refresh"))'
  BY <1>2, <1>7, <1>8, <1>9 DEF OwnRequests
<1>16. (job[t]["login"] \in {"idle", "call"} /\ (page[t] = "waiting" => job[t]["restore"] # "idle"))'
  BY <1>2, <1>6, <1>7 DEF OwnRequests, Jobs
<1>17. (\A m \in wire : m.tab = t /\ m.slot \in {"restore", "logout"}
                          /\ job[t][m.slot] = "recall" => ~m.aged)'
  BY <1>1, <1>2, <1>3, <1>6, <1>7 DEF OwnRequests, Jobs
<1>18. OwnRequests(t)'
  BY <1>11, <1>12, <1>13, <1>14, <1>15, <1>16, <1>17 DEF OwnRequests
<1> QED BY <1>4, <1>5, <1>18, TabKeepsInv

-----------------------------------------------------------------------------
(* The steps of a tab keep the invariant                                   *)

LEMMA OpenLobbyKeepsInv ==
  ASSUME Inv, NEW t \in Tabs, OpenLobby(t)
  PROVE  Inv'
<1>1. /\ page[t] = "out"
      /\ page' = [page EXCEPT ![t] = "waiting"]
      /\ UNCHANGED <<sessions, cookie, token, lost>>
      /\ page' \in [Tabs -> Pages]
      /\ \A u \in Tabs : u # t => page'[u] = page[u]
  BY DEF OpenLobby, Set, Inv, TypeInv, Pages
<1>2. CASE job[t]["restore"] = "idle"
  <2>1. /\ Set(job, t, JobAt(t, "restore", FirstStep(token[t])))
        /\ wire' = wire \cup FirstSent(t, "restore", token[t])
    BY <1>2 DEF OpenLobby
  <2> QED BY <1>1, <1>2, <2>1, StartKeepsInv
<1>3. CASE job[t]["restore"] # "idle"
  <2>1. job' = job /\ wire' = wire
    BY <1>3 DEF OpenLobby
  <2>2. TypeInv' /\ TabStep(t)
    BY <1>1, <2>1 DEF Inv, TypeInv, TabStep
  <2>3. OwnRequests(t)
    BY RequestsByTab DEF Inv
  <2>4. OwnRequests(t)'
    BY <1>1, <1>3, <2>1, <2>3 DEF OwnRequests, Waiters, UnderWay
  <2> QED BY <2>2, <2>4, TabKeepsInv
<1> QED BY <1>2, <1>3

LEMMA ExitKeepsInv ==
  ASSUME Inv, NEW t \in Tabs, Exit(t)
  PROVE  Inv'
  BY StartKeepsInv DEF Exit, Inv, TypeInv

LEMMA LeaveLobbyKeepsInv ==
  ASSUME Inv, NEW t \in Tabs, LeaveLobby(t)
  PROVE  Inv'
<1>1. /\ wire' = wire /\ job' = job /\ cookie' = cookie /\ token' = token
      /\ sessions' = sessions /\ lost' = lost /\ page' = [page EXCEPT ![t] = "out"]
  BY DEF LeaveLobby, Set
<1>2. TypeInv' /\ TabStep(t)
  BY <1>1 DEF Inv, TypeInv, TabStep, Pages
<1>3. OwnRequests(t)
  BY RequestsByTab DEF Inv
<1>4. page'[t] = "out"
  BY <1>1 DEF Inv, TypeInv
<1>5. OwnRequests(t)'
  BY <1>1, <1>3, <1>4 DEF OwnRequests, Waiters, UnderWay
<1> QED BY <1>2, <1>5, TabKeepsInv

LEMMA TokenAgesKeepsInv ==
  ASSUME Inv, NEW t \in Tabs, TokenAges(t)
  PROVE  Inv'
<1>1. /\ wire' = wire /\ job' = job /\ cookie' = cookie /\ page' = page
      /\ sessions' = sessions /\ lost' = lost
      /\ token[t] # NoToken /\ token' = [token EXCEPT ![t] = [token[t] EXCEPT !.aged = TRUE]]
  BY DEF TokenAges
<1>2. /\ [token[t] EXCEPT !.aged = TRUE] \in Tokens
      /\ [token[t] EXCEPT !.aged = TRUE].sid = token[t].sid
  BY DEF Inv, TypeInv, Tokens
<1>3. TypeInv' /\ TabStep(t)
  BY <1>1, <1>2 DEF Inv, TypeInv, TabStep
<1>4. OwnRequests(t)
  BY RequestsByTab DEF Inv
<1>5. OwnRequests(t)'
  BY <1>1, <1>4 DEF OwnRequests, Waiters, UnderWay
<1> QED BY <1>3, <1>5, TabKeepsInv

LEMMA SubmitLoginKeepsInv ==
  ASSUME Inv, NEW t \in Tabs, SubmitLogin(t)
  PROVE  Inv'
<1> DEFINE new == LoginCall(t)
<1>1. /\ wire' = wire \cup {new} /\ job' = [job EXCEPT ![t] = [job[t] EXCEPT !["login"] = "call"]]
      /\ cookie' = cookie /\ page' = page /\ token' = token
      /\ sessions' = sessions /\ lost' = lost
      /\ job[t]["login"] = "idle"
  BY DEF SubmitLogin, Set, JobAt
<1>2. Sends(t, new) /\ new.slot = "login" /\ new.tab = t
  BY LoginIsSent
<1> HIDE DEF new
<1>3. TypeInv' /\ TabStep(t)
  BY <1>1, <1>2 DEF Inv, TypeInv, TabStep, Sends, Steps
<1>4. OwnRequests(t)
  BY RequestsByTab DEF Inv
<1>5. job'[t] = [job[t] EXCEPT !["login"] = "call"] /\ job[t] \in [Jobs -> Steps]
  BY <1>1 DEF Inv, TypeInv
<1>6. Waiters(t)' = Waiters(t)
  BY <1>1, <1>5 DEF Waiters, Jobs
<1>7. /\ \A slot : UnderWay(t, slot) => UnderWay(t, slot)'
      /\ UnderWay(t, "login")'
  BY <1>1, <1>2 DEF UnderWay
<1>8. OwnRequests(t)'
  BY <1>1, <1>2, <1>4, <1>5, <1>6, <1>7 DEF OwnRequests, Jobs
<1> QED BY <1>3, <1>8, TabKeepsInv

LEMMA ReloadKeepsInv ==
  ASSUME Inv, NEW t \in Tabs, Reload(t)
  PROVE  Inv'
<1> DEFINE mine == {m \in wire : m.tab = t}
<1>1. /\ wire' = wire \ mine
      /\ page' = [page EXCEPT ![t] = "out"]
      /\ token' = [token EXCEPT ![t] = NoToken]
      /\ job' = [job EXCEPT ![t] = [j \in Jobs |-> "idle"]]
      /\ lost' = [lost EXCEPT ![t] = lost[t] \/ \E m \in mine : m.slot = "refresh"]
      /\ sessions' = sessions /\ cookie' = cookie
  BY DEF Reload, Set, LosesRefresh
<1>2. \A x : x \in wire' <=> x \in wire /\ x.tab # t
  BY <1>1
<1>3. NoToken \in Tokens
  BY DEF NoToken, Tokens
<1>4. (lost[t] \/ \E m \in mine : m.slot = "refresh") \in BOOLEAN
  BY DEF Inv, TypeInv
<1>5. TypeInv'
  BY <1>1, <1>3, <1>4 DEF Inv, TypeInv, Pages, Steps
<1>6. lost'[t] <=> lost[t] \/ \E m \in mine : m.slot = "refresh"
  BY <1>1 DEF Inv, TypeInv
<1>7. TabStep(t)
  BY <1>1, <1>2, <1>6 DEF Inv, TypeInv, TabStep
<1>8. job'[t] = [j \in Jobs |-> "idle"] /\ page'[t] = "out"
  BY <1>1 DEF Inv, TypeInv
<1>9. OwnRequests(t)'
  BY <1>2, <1>8 DEF OwnRequests, Waiters, Jobs
<1> QED BY <1>5, <1>7, <1>9, TabKeepsInv

-----------------------------------------------------------------------------
(* Answers and losses                                                      *)

\* The jobs that the end of m may end.
JobsOf(m) == IF m.slot = "refresh" THEN Waiters(m.tab) ELSE {m.slot}

\* When an answer, or its loss, ends the jobs that await it, the rest of the
\* tab's requests is as it was.
LEMMA EndKeepsInv ==
  ASSUME Inv, NEW m \in wire, NEW t, t = m.tab,
         NEW ck \in {cookie[t], NoSid}, NEW tk, NEW pg \in Pages, NEW l \in BOOLEAN,
         tk = NoToken \/ (tk = token[t] /\ ck = cookie[t]),
         pg = "waiting" => page[t] = "waiting" /\ "restore" \notin JobsOf(m),
         lost[t] => l,
         m.slot = "refresh" /\ m.at = "ok" => l,
         wire' = wire \ {m},
         sessions' = sessions,
         cookie' = [cookie EXCEPT ![t] = ck],
         token' = [token EXCEPT ![t] = tk],
         page' = [page EXCEPT ![t] = pg],
         lost' = [lost EXCEPT ![t] = l],
         job' = [job EXCEPT ![t] = [j \in Jobs |-> IF j \in JobsOf(m) THEN "idle" ELSE job[t][j]]]
  PROVE  Inv'
<1>1. m \in Messages /\ t \in Tabs /\ NoToken \in Tokens
  BY DEF Inv, TypeInv, Messages, NoToken, Tokens
<1>2. OwnRequests(t)
  BY <1>1, RequestsByTab DEF Inv
<1>3. ck \in Sids \cup {NoSid} /\ tk \in Tokens
  BY <1>1 DEF Inv, TypeInv
<1>4. job[t] \in [Jobs -> Steps]
  BY <1>1 DEF Inv, TypeInv
<1> DEFINE jb == [j \in Jobs |-> IF j \in JobsOf(m) THEN "idle" ELSE job[t][j]]
<1>5. jb \in [Jobs -> Steps]
  BY <1>4 DEF Steps
<1>6. TypeInv'
  BY <1>1, <1>3, <1>5 DEF Inv, TypeInv
<1>7. /\ job'[t] = jb /\ page'[t] = pg /\ lost'[t] = l /\ cookie'[t] = ck /\ token'[t] = tk
  BY <1>1 DEF Inv, TypeInv
<1>8. TabStep(t)
  <2>1. \A u \in Tabs \ {t} :
          /\ cookie'[u] = cookie[u] /\ token'[u] = token[u] /\ page'[u] = page[u]
          /\ job'[u] = job[u] /\ lost'[u] = lost[u]
    BY DEF Inv, TypeInv
  <2>2. \/ /\ cookie'[t] = cookie[t]
           /\ token'[t] = NoToken \/ (token[t] # NoToken /\ token'[t].sid = token[t].sid)
        \/ cookie'[t] = NoSid /\ token'[t] = NoToken
    BY <1>7
  <2>3. /\ \A x \in wire : x \notin wire' => x.tab = t
        /\ \A x \in wire : x \notin wire' /\ x.slot = "refresh" /\ x.at = "ok" => lost'[t]
        /\ \A x \in wire' : x \in wire
        /\ lost[t] => lost'[t]
    BY <1>7
  <2> QED BY <2>1, <2>2, <2>3 DEF TabStep
<1>9. Waiters(t)' = Waiters(t) \ JobsOf(m)
  BY <1>7 DEF Waiters
<1>10. \A x \in wire' : x.tab = t => x \in wire /\ x.slot # m.slot
  BY <1>2 DEF OwnRequests
<1>11. \A slot : UnderWay(t, slot) /\ slot # m.slot => UnderWay(t, slot)'
  BY DEF UnderWay
<1>12. \A j \in Jobs : job'[t][j] = IF j \in JobsOf(m) THEN "idle" ELSE job[t][j]
  BY <1>7
<1>13. /\ m.slot = "refresh" => JobsOf(m) = Waiters(t)
       /\ m.slot # "refresh" => JobsOf(m) = {m.slot}
  BY DEF JobsOf
<1>14. \A j \in Jobs : j \in Waiters(t) <=> job[t][j] \in {"refresh", "again"}
  BY DEF Waiters
<1>15. Waiters(t) \subseteq Jobs /\ "refresh" \notin Jobs
  BY DEF Waiters, Jobs
<1>16. (\A x, n \in wire : x.tab = t /\ n.tab = t /\ x.slot = n.slot => x = n)'
  BY <1>2 DEF OwnRequests
<1>17. (\A x \in wire : x.tab = t /\ x.slot \in Jobs => job[t][x.slot] \in {"call", "recall"})'
  BY <1>2, <1>10, <1>12, <1>13, <1>14 DEF OwnRequests
<1>18. (\A x \in wire : x.tab = t /\ x.slot = "refresh" => Waiters(t) # {})'
  BY <1>1, <1>2, <1>9, <1>10, <1>13, <1>14, <1>15 DEF OwnRequests
<1>19. (\A j \in Jobs : job[t][j] \in {"call", "recall"} => UnderWay(t, j))'
  BY <1>2, <1>11, <1>12, <1>13, <1>15 DEF OwnRequests
<1>20. (Waiters(t) # {} => UnderWay(t, "refresh"))'
  BY <1>2, <1>9, <1>11, <1>13 DEF OwnRequests
<1>21. (job[t]["login"] \in {"idle", "call"} /\ (page[t] = "waiting" => job[t]["restore"] # "idle"))'
  BY <1>2, <1>7, <1>12 DEF OwnRequests, Jobs
<1>22. (\A x \in wire : x.tab = t /\ x.slot \in {"restore", "logout"}
                          /\ job[t][x.slot] = "recall" => ~x.aged)'
  BY <1>2, <1>10, <1>12 DEF OwnRequests, Jobs
<1>23. OwnRequests(t)'
  BY <1>16, <1>17, <1>18, <1>19, <1>20, <1>21, <1>22 DEF OwnRequests
<1> QED BY <1>1, <1>6, <1>8, <1>23, TabKeepsInv

LEMMA LoginFailedKeepsInv ==
  ASSUME Inv, NEW m \in wire, LoginFailed(m)
  PROVE  Inv'
<1> DEFINE t  == m.tab
           ck == cookie[t]
           tk == token[t]
           pg == page[t]
<1>1. t \in Tabs /\ m.slot = "login" /\ JobsOf(m) = {"login"}
  BY DEF Inv, TypeInv, Messages, LoginFailed, Comes, JobsOf
<1>2. /\ cookie' = [cookie EXCEPT ![t] = ck] /\ token' = [token EXCEPT ![t] = tk]
      /\ page' = [page EXCEPT ![t] = pg] /\ pg \in Pages
      /\ lost' = [lost EXCEPT ![t] = lost[t]] /\ lost[t] \in BOOLEAN
      /\ sessions' = sessions /\ wire' = wire \ {m}
  BY <1>1 DEF LoginFailed, Inv, TypeInv
<1>3. [job[t] EXCEPT !["login"] = "idle"]
        = [j \in Jobs |-> IF j \in JobsOf(m) THEN "idle" ELSE job[t][j]]
  BY <1>1 DEF Inv, TypeInv, Jobs
<1>4. job' = [job EXCEPT ![t] = [j \in Jobs |-> IF j \in JobsOf(m) THEN "idle" ELSE job[t][j]]]
  BY <1>3 DEF LoginFailed, Set, JobAt
<1>5. /\ ck \in {cookie[t], NoSid} /\ ck = cookie[t]
      /\ tk = NoToken \/ (tk = token[t] /\ ck = cookie[t])
      /\ pg = "waiting" => page[t] = "waiting" /\ "restore" \notin JobsOf(m)
  BY <1>1
<1> HIDE DEF t, ck, tk, pg
<1> QED BY <1>1, <1>2, <1>4, <1>5, EndKeepsInv DEF t

LEMMA RefreshFailedKeepsInv ==
  ASSUME Inv, NEW m \in wire, RefreshFailed(m)
  PROVE  Inv'
<1> DEFINE t == m.tab
<1>1. t \in Tabs /\ m.slot = "refresh" /\ m.at = "unauthorized" /\ JobsOf(m) = Waiters(t)
  BY DEF Inv, TypeInv, Messages, RefreshFailed, Comes, JobsOf
<1> DEFINE pg == PageAfter(t, Waiters(t))
<1>2. /\ cookie' = [cookie EXCEPT ![t] = cookie[t]]
      /\ token' = [token EXCEPT ![t] = NoToken]
      /\ page' = [page EXCEPT ![t] = pg]
      /\ lost' = [lost EXCEPT ![t] = lost[t]] /\ lost[t] \in BOOLEAN
      /\ sessions' = sessions /\ wire' = wire \ {m}
      /\ job' = [job EXCEPT ![t] = [j \in Jobs |-> IF j \in JobsOf(m) THEN "idle" ELSE job[t][j]]]
  BY <1>1 DEF RefreshFailed, End, Set, Inv, TypeInv
<1>3. pg \in Pages /\ (pg = "waiting" => page[t] = "waiting" /\ "restore" \notin JobsOf(m))
  BY <1>1 DEF PageAfter, Inv, TypeInv, Pages
<1> HIDE DEF t, pg
<1> QED BY <1>1, <1>2, <1>3, EndKeepsInv DEF t

LEMMA RestoredKeepsInv ==
  ASSUME Inv, NEW m \in wire, Restored(m)
  PROVE  Inv'
<1> DEFINE t == m.tab
<1>1. t \in Tabs /\ m.slot = "restore" /\ JobsOf(m) = {"restore"}
  BY DEF Inv, TypeInv, Messages, Restored, Comes, JobsOf
<1> DEFINE pg == IF page[t] = "waiting" THEN "lobby" ELSE page[t]
<1>2. /\ cookie' = [cookie EXCEPT ![t] = cookie[t]]
      /\ token' = [token EXCEPT ![t] = token[t]]
      /\ page' = [page EXCEPT ![t] = pg]
      /\ lost' = [lost EXCEPT ![t] = lost[t]] /\ lost[t] \in BOOLEAN
      /\ sessions' = sessions /\ wire' = wire \ {m}
  BY <1>1 DEF Restored, Set, Inv, TypeInv
<1>3. pg \in Pages /\ pg # "waiting"
  BY <1>1 DEF Inv, TypeInv, Pages
<1>4. [job[t] EXCEPT !["restore"] = "idle"]
        = [j \in Jobs |-> IF j \in JobsOf(m) THEN "idle" ELSE job[t][j]]
  BY <1>1 DEF Inv, TypeInv, Jobs
<1>5. job' = [job EXCEPT ![t] = [j \in Jobs |-> IF j \in JobsOf(m) THEN "idle" ELSE job[t][j]]]
  BY <1>4 DEF Restored, Set, JobAt
<1> HIDE DEF t, pg
<1> QED BY <1>1, <1>2, <1>3, <1>5, EndKeepsInv DEF t

LEMMA LoggedOutKeepsInv ==
  ASSUME Inv, NEW m \in wire, LoggedOut(m)
  PROVE  Inv'
<1> DEFINE t == m.tab
<1>1. t \in Tabs /\ m.slot = "logout" /\ JobsOf(m) = {"logout"}
  BY DEF Inv, TypeInv, Messages, LoggedOut, Comes, JobsOf
<1>2. /\ cookie' = [cookie EXCEPT ![t] = NoSid]
      /\ token' = [token EXCEPT ![t] = NoToken]
      /\ page' = [page EXCEPT ![t] = "out"]
      /\ lost' = [lost EXCEPT ![t] = lost[t]] /\ lost[t] \in BOOLEAN
      /\ sessions' = sessions /\ wire' = wire \ {m}
      /\ job' = [job EXCEPT ![t] = [j \in Jobs |-> IF j \in JobsOf(m) THEN "idle" ELSE job[t][j]]]
  BY <1>1 DEF LoggedOut, End, Set, PageAfter, Inv, TypeInv
<1>3. "out" \in Pages
  BY DEF Pages
<1> HIDE DEF t
<1> QED BY <1>1, <1>2, <1>3, EndKeepsInv DEF t

LEMMA CallFailedKeepsInv ==
  ASSUME Inv, NEW m \in wire, CallFailed(m)
  PROVE  Inv'
<1> DEFINE t == m.tab
           ck == cookie[t]
           tk == IF "logout" \in {m.slot} THEN NoToken ELSE token[t]
           pg == PageAfter(t, {m.slot})
<1>1. t \in Tabs /\ m.slot \in {"restore", "logout"} /\ m.at # "ok" /\ JobsOf(m) = {m.slot}
  BY DEF Inv, TypeInv, Messages, CallFailed, JobsOf
<1>2. /\ cookie' = [cookie EXCEPT ![t] = ck]
      /\ token' = [token EXCEPT ![t] = tk]
      /\ page' = [page EXCEPT ![t] = pg]
      /\ lost' = [lost EXCEPT ![t] = lost[t]] /\ lost[t] \in BOOLEAN
      /\ sessions' = sessions /\ wire' = wire \ {m}
      /\ job' = [job EXCEPT ![t] = [j \in Jobs |-> IF j \in {m.slot} THEN "idle" ELSE job[t][j]]]
  BY <1>1 DEF CallFailed, End, Set, Inv, TypeInv
<1>3. pg \in Pages /\ (pg = "waiting" => page[t] = "waiting" /\ "restore" \notin {m.slot})
  BY <1>1 DEF PageAfter, Inv, TypeInv, Pages
<1>4. /\ ck \in {cookie[t], NoSid} /\ ck = cookie[t]
      /\ tk = NoToken \/ (tk = token[t] /\ ck = cookie[t])
  OBVIOUS
<1> HIDE DEF t, ck, pg, tk
<1> QED BY <1>1, <1>2, <1>3, <1>4, EndKeepsInv DEF t

LEMMA LoseKeepsInv ==
  ASSUME Inv, NEW m \in wire, Lose(m)
  PROVE  Inv'
<1> DEFINE t == m.tab
           ck == cookie[t]
           tk == IF "logout" \in JobsOf(m) THEN NoToken ELSE token[t]
           pg == PageAfter(t, JobsOf(m))
           l  == lost[t] \/ m.slot = "refresh"
<1>1. t \in Tabs /\ FailedBy(m) = JobsOf(m)
  BY DEF Inv, TypeInv, Messages, JobsOf, FailedBy
<1>2. (lost[t] \/ \E x \in {m} : x.slot = "refresh") = l
  BY <1>1 DEF Inv, TypeInv
<1>3. /\ cookie' = [cookie EXCEPT ![t] = ck]
      /\ token' = [token EXCEPT ![t] = tk]
      /\ page' = [page EXCEPT ![t] = pg]
      /\ lost' = [lost EXCEPT ![t] = l]
      /\ sessions' = sessions /\ wire' = wire \ {m}
      /\ job' = [job EXCEPT ![t] = [j \in Jobs |-> IF j \in JobsOf(m) THEN "idle" ELSE job[t][j]]]
  BY <1>1, <1>2 DEF Lose, LosesRefresh, Set, Inv, TypeInv
<1>4. pg \in Pages /\ (pg = "waiting" => page[t] = "waiting" /\ "restore" \notin JobsOf(m))
  BY <1>1 DEF PageAfter, Inv, TypeInv, Pages
<1>5. /\ ck \in {cookie[t], NoSid}
      /\ tk = NoToken \/ (tk = token[t] /\ ck = cookie[t])
      /\ l \in BOOLEAN
      /\ lost[t] => l
      /\ m.slot = "refresh" => l
  BY <1>1 DEF Inv, TypeInv
<1> HIDE DEF t, ck, pg, tk, l
<1> QED BY <1>1, <1>3, <1>4, <1>5, EndKeepsInv DEF t

\* A login starts a restore unless the lobby is there or has one under way.
LEMMA LoginAnsweredKeepsInv ==
  ASSUME Inv, NEW m \in wire, LoginAnswered(m)
  PROVE  Inv'
<1> DEFINE t == m.tab
           starts == page[t] = "out" /\ job[t]["restore"] = "idle"
           tk == Fresh(m.sid)
           new == Call(t, "restore", tk)
           pg == IF page[t] = "out" THEN "waiting" ELSE page[t]
           jb == [job[t] EXCEPT !["login"] = "idle",
                                !["restore"] = IF starts THEN "call" ELSE @]
<1>1. t \in Tabs /\ m.slot = "login" /\ m.at = "ok" /\ m.sid \in Sids \cup {NoSid}
  BY DEF Inv, TypeInv, Messages, LoginAnswered, Comes
<1>2. tk \in Tokens /\ tk.sid = m.sid /\ Known(tk.sid)
  BY <1>1 DEF Fresh, Tokens, Inv, Knowledge, NamesAreKnown
<1>3. Sends(t, new) /\ new.slot = "restore" /\ new.tab = t /\ ~new.aged
  BY <1>1, <1>2, CallIsSent DEF Fresh
<1>4. job[t] \in [Jobs -> Steps] /\ page[t] \in Pages
  BY <1>1 DEF Inv, TypeInv
<1>5. /\ jb \in [Jobs -> Steps]
      /\ jb["login"] = "idle" /\ jb["logout"] = job[t]["logout"]
      /\ jb["restore"] = IF starts THEN "call" ELSE job[t]["restore"]
  BY <1>4 DEF Jobs, Steps
<1>6. /\ cookie' = [cookie EXCEPT ![t] = m.sid]
      /\ token' = [token EXCEPT ![t] = tk]
      /\ page' = [page EXCEPT ![t] = pg]
      /\ job' = [job EXCEPT ![t] = jb]
      /\ wire' = (wire \ {m}) \cup (IF starts THEN {new} ELSE {})
      /\ sessions' = sessions /\ lost' = lost
  BY DEF LoginAnswered, Set
<1>7. OwnRequests(t)
  BY <1>1, RequestsByTab DEF Inv
<1> HIDE DEF tk, new, jb
<1>8. pg \in Pages /\ (pg = "waiting" => starts \/ job[t]["restore"] # "idle")
  BY <1>4, <1>7 DEF Pages, OwnRequests
<1>9. TypeInv'
  BY <1>1, <1>2, <1>3, <1>5, <1>6, <1>8 DEF Inv, TypeInv, Sends
<1>10. /\ job'[t] = jb /\ page'[t] = pg /\ cookie'[t] = m.sid /\ token'[t] = tk
  BY <1>1, <1>6 DEF Inv, TypeInv
<1>11. \A x \in wire' : (x \in wire /\ x # m) \/ (starts /\ x = new)
  BY <1>6
<1>12. m \notin wire'
  BY <1>1, <1>3, <1>11
<1>13. Brings(t, m)
  BY <1>1, <1>3, <1>10, <1>11, <1>12 DEF Brings, tk
<1>14. TabStep(t)
  <2>1. \A u \in Tabs \ {t} :
          /\ cookie'[u] = cookie[u] /\ token'[u] = token[u] /\ page'[u] = page[u]
          /\ job'[u] = job[u] /\ lost'[u] = lost[u]
    BY <1>6 DEF Inv, TypeInv
  <2>2. /\ \A x \in wire : x \notin wire' => x = m
        /\ \A x \in wire' : x \notin wire => Sends(t, x)
    BY <1>3, <1>6, <1>11
  <2> QED BY <1>1, <1>6, <1>13, <2>1, <2>2 DEF TabStep
<1>15. Waiters(t)' = Waiters(t)
  BY <1>4, <1>5, <1>7, <1>10 DEF Waiters, Jobs, OwnRequests
<1>16. /\ \A slot : UnderWay(t, slot) /\ slot # "login" => UnderWay(t, slot)'
       /\ starts => UnderWay(t, "restore")'
  BY <1>1, <1>3, <1>6 DEF UnderWay
<1>17. starts => \A x \in wire : x.tab = t => x.slot # "restore"
  BY <1>7 DEF OwnRequests, Jobs
<1>18. \A x \in wire' : x.tab = t => x.slot # "login"
  BY <1>1, <1>3, <1>7, <1>11 DEF OwnRequests
<1> HIDE DEF starts, pg
<1>19. (\A x, n \in wire : x.tab = t /\ n.tab = t /\ x.slot = n.slot => x = n)'
  BY <1>3, <1>7, <1>11, <1>17 DEF OwnRequests
<1>20. (\A x \in wire : x.tab = t /\ x.slot \in Jobs => job[t][x.slot] \in {"call", "recall"})'
  BY <1>3, <1>5, <1>7, <1>10, <1>11, <1>18 DEF OwnRequests, Jobs
<1>21. (\A x \in wire : x.tab = t /\ x.slot = "refresh" => Waiters(t) # {})'
  BY <1>3, <1>7, <1>11, <1>15 DEF OwnRequests
<1>22. (\A j \in Jobs : job[t][j] \in {"call", "recall"} => UnderWay(t, j))'
  BY <1>5, <1>7, <1>10, <1>16 DEF OwnRequests, Jobs
<1>23. (Waiters(t) # {} => UnderWay(t, "refresh"))'
  BY <1>7, <1>15, <1>16 DEF OwnRequests
<1>24. (job[t]["login"] \in {"idle", "call"} /\ (page[t] = "waiting" => job[t]["restore"] # "idle"))'
  BY <1>5, <1>8, <1>10
<1>25. (\A x \in wire : x.tab = t /\ x.slot \in {"restore", "logout"}
                          /\ job[t][x.slot] = "recall" => ~x.aged)'
  BY <1>3, <1>5, <1>7, <1>10, <1>11 DEF OwnRequests
<1>26. OwnRequests(t)'
  BY <1>19, <1>20, <1>21, <1>22, <1>23, <1>24, <1>25 DEF OwnRequests
<1> HIDE DEF t
<1> QED BY <1>1, <1>9, <1>14, <1>26, TabKeepsInv

\* The first 401 of a call: it waits for a refresh.
LEMMA RetriedKeepsInv ==
  ASSUME Inv, NEW m \in wire, Retried(m)
  PROVE  Inv'
<1> DEFINE t == m.tab
           j == m.slot
           S == RefreshNeeded(t)
           jb == [job[t] EXCEPT ![j] = "again"]
<1>1. t \in Tabs /\ j \in {"restore", "logout"} /\ NoToken \in Tokens /\ j \in Jobs
  BY DEF Inv, TypeInv, Messages, Retried, NoToken, Tokens, Jobs
<1>2. /\ token' = [token EXCEPT ![t] = NoToken]
      /\ job' = [job EXCEPT ![t] = jb]
      /\ wire' = (wire \ {m}) \cup S
      /\ sessions' = sessions /\ cookie' = cookie /\ page' = page /\ lost' = lost
  BY DEF Retried, Set, JobAt
<1>3. /\ \A x \in S : Sends(t, x) /\ x.slot = "refresh" /\ x.tab = t /\ ~UnderWay(t, "refresh")
      /\ \A x, y \in S : x = y
      /\ ~UnderWay(t, "refresh") => \E x \in S : x.slot = "refresh"
  BY <1>1, RefreshesOnce DEF Inv
<1>4. job[t] \in [Jobs -> Steps]
  BY <1>1 DEF Inv, TypeInv
<1>5. /\ jb \in [Jobs -> Steps] /\ jb[j] = "again"
      /\ \A i \in Jobs : i # j => jb[i] = job[t][i]
  BY <1>1, <1>4 DEF Steps
<1>6. OwnRequests(t)
  BY <1>1, RequestsByTab DEF Inv
<1> HIDE DEF S, jb
<1>7. TypeInv'
  BY <1>1, <1>2, <1>3, <1>5 DEF Inv, TypeInv, Sends
<1>8. job'[t] = jb /\ token'[t] = NoToken
  BY <1>1, <1>2 DEF Inv, TypeInv
<1>9. TabStep(t)
  <2>1. \A u \in Tabs \ {t} :
          /\ cookie'[u] = cookie[u] /\ token'[u] = token[u] /\ page'[u] = page[u]
          /\ job'[u] = job[u] /\ lost'[u] = lost[u]
    BY <1>2 DEF Inv, TypeInv
  <2>2. /\ \A x \in wire : x \notin wire' => x = m
        /\ \A x \in wire' : x \notin wire => Sends(t, x)
        /\ m.slot # "refresh"
    BY <1>1, <1>2, <1>3
  <2> QED BY <1>2, <1>8, <2>1, <2>2 DEF TabStep
<1>10. Waiters(t)' = Waiters(t) \cup {j}
  BY <1>1, <1>5, <1>8 DEF Waiters
<1>11. \A x \in wire' : (x \in wire /\ x # m) \/ x \in S
  BY <1>2
<1>12. /\ \A slot : UnderWay(t, slot) /\ slot # j => UnderWay(t, slot)'
       /\ UnderWay(t, "refresh")'
  <2>1. \A slot : UnderWay(t, slot) /\ slot # j => UnderWay(t, slot)'
    BY <1>2 DEF UnderWay
  <2>2. ~UnderWay(t, "refresh") => UnderWay(t, "refresh")'
    BY <1>2, <1>3 DEF UnderWay
  <2> QED BY <1>1, <2>1, <2>2
<1>13. \A x \in wire' : x.tab = t => x.slot # j
  BY <1>1, <1>3, <1>6, <1>11 DEF OwnRequests
<1>14. (\A x, n \in wire : x.tab = t /\ n.tab = t /\ x.slot = n.slot => x = n)'
  BY <1>3, <1>6, <1>11 DEF OwnRequests, UnderWay
<1>15. (\A x \in wire : x.tab = t /\ x.slot \in Jobs => job[t][x.slot] \in {"call", "recall"})'
  BY <1>3, <1>5, <1>6, <1>8, <1>11, <1>13 DEF OwnRequests, Jobs
<1>16. (\A x \in wire : x.tab = t /\ x.slot = "refresh" => Waiters(t) # {})'
  BY <1>10
<1>17. (\A i \in Jobs : job[t][i] \in {"call", "recall"} => UnderWay(t, i))'
  BY <1>5, <1>6, <1>8, <1>12 DEF OwnRequests
<1>18. (job[t]["login"] \in {"idle", "call"} /\ (page[t] = "waiting" => job[t]["restore"] # "idle"))'
  BY <1>1, <1>2, <1>5, <1>6, <1>8 DEF OwnRequests, Jobs
<1>19. (\A x \in wire : x.tab = t /\ x.slot \in {"restore", "logout"}
                          /\ job[t][x.slot] = "recall" => ~x.aged)'
  BY <1>3, <1>5, <1>6, <1>8, <1>11, <1>13 DEF OwnRequests, Jobs
<1>20. OwnRequests(t)'
  BY <1>12, <1>14, <1>15, <1>16, <1>17, <1>18, <1>19 DEF OwnRequests
<1> HIDE DEF t
<1> QED BY <1>1, <1>7, <1>9, <1>20, TabKeepsInv

\* The jobs that waited for the refresh make their calls with what it brought.
LEMMA RefreshAnsweredKeepsInv ==
  ASSUME Inv, NEW m \in wire, RefreshAnswered(m)
  PROVE  Inv'
<1> DEFINE t == m.tab
           tk == Fresh(m.sid)
           W == Waiters(t)
           S == {Call(t, j, tk) : j \in W}
           jb == [j \in Jobs |-> CASE job[t][j] = "refresh" -> "call"
                                   [] job[t][j] = "again"   -> "recall"
                                   [] OTHER                 -> job[t][j]]
<1>1. t \in Tabs /\ m.slot = "refresh" /\ m.at = "ok" /\ m.sid \in Sids \cup {NoSid}
  BY DEF Inv, TypeInv, Messages, RefreshAnswered, Comes
<1>2. tk \in Tokens /\ tk.sid = m.sid /\ Known(tk.sid) /\ ~tk.aged
  BY <1>1 DEF Fresh, Tokens, Inv, Knowledge, NamesAreKnown
<1>3. job[t] \in [Jobs -> Steps]
  BY <1>1 DEF Inv, TypeInv
<1>4. OwnRequests(t)
  BY <1>1, RequestsByTab DEF Inv
<1>5. W = {j \in Jobs : job[t][j] \in {"refresh", "again"}} /\ W \subseteq {"restore", "logout"}
  BY <1>4 DEF Waiters, Jobs, OwnRequests
<1>6. /\ \A x \in S : \E j \in W : x = Call(t, j, tk)
      /\ \A j \in W : \E x \in S : x = Call(t, j, tk)
  OBVIOUS
<1>7. /\ cookie' = [cookie EXCEPT ![t] = m.sid]
      /\ token' = [token EXCEPT ![t] = tk]
      /\ job' = [job EXCEPT ![t] = jb]
      /\ wire' = (wire \ {m}) \cup S
      /\ sessions' = sessions /\ page' = page /\ lost' = lost
  BY DEF RefreshAnswered, Set
<1>8. /\ \A j \in Jobs : job[t][j] = "refresh" => jb[j] = "call"
      /\ \A j \in Jobs : job[t][j] = "again" => jb[j] = "recall"
      /\ \A j \in Jobs : j \notin W => jb[j] = job[t][j]
      /\ \A j \in Jobs : jb[j] \notin {"refresh", "again"}
      /\ jb \in [Jobs -> Steps]
  BY <1>3, <1>5 DEF Steps
<1> HIDE DEF tk, S, jb
<1>9. \A j \in W : /\ Sends(t, Call(t, j, tk)) /\ Call(t, j, tk).slot = j
                   /\ Call(t, j, tk).tab = t /\ ~Call(t, j, tk).aged
  BY <1>1, <1>2, <1>5, CallIsSent
<1>10. /\ \A x \in S : Sends(t, x) /\ x.tab = t /\ x.slot \in W /\ ~x.aged
       /\ \A x, y \in S : x.slot = y.slot => x = y
       /\ \A j \in W : \E x \in S : x.slot = j
  BY <1>6, <1>9
<1> HIDE DEF W
<1>11. /\ \A j \in W : j \in Jobs /\ job[t][j] \in {"refresh", "again"} /\ j # "refresh" /\ j # "login"
       /\ \A j \in Jobs : j \notin W => job[t][j] \notin {"refresh", "again"}
  BY <1>5
<1>12. \A x \in wire' : (x \in wire /\ x # m) \/ x \in S
  BY <1>7
<1>13. TypeInv'
  BY <1>1, <1>2, <1>7, <1>8, <1>10 DEF Inv, TypeInv, Sends
<1>14. job'[t] = jb /\ cookie'[t] = m.sid /\ token'[t] = tk
  BY <1>1, <1>7 DEF Inv, TypeInv
<1>15. \A x \in wire' : x.tab = t => x.slot # "refresh"
  BY <1>1, <1>4, <1>10, <1>11, <1>12 DEF OwnRequests
<1>16. Brings(t, m)
  BY <1>1, <1>10, <1>12, <1>14, <1>15 DEF Brings, tk
<1>17. TabStep(t)
  <2>1. \A u \in Tabs \ {t} :
          /\ cookie'[u] = cookie[u] /\ token'[u] = token[u] /\ page'[u] = page[u]
          /\ job'[u] = job[u] /\ lost'[u] = lost[u]
    BY <1>7 DEF Inv, TypeInv
  <2>2. /\ \A x \in wire : x \notin wire' => x = m
        /\ \A x \in wire' : x \notin wire => Sends(t, x)
    BY <1>7, <1>10, <1>12
  <2> QED BY <1>1, <1>7, <1>14, <1>16, <2>1, <2>2 DEF TabStep
<1>18. Waiters(t)' = {}
  BY <1>8, <1>14 DEF Waiters
<1>19. \A x \in wire : x.tab = t => x.slot \notin W
  BY <1>4, <1>11 DEF OwnRequests
<1>20. /\ \A slot : UnderWay(t, slot) /\ slot # "refresh" => UnderWay(t, slot)'
       /\ \A j \in W : UnderWay(t, j)'
  BY <1>1, <1>7, <1>10 DEF UnderWay
<1>21. (\A x, n \in wire : x.tab = t /\ n.tab = t /\ x.slot = n.slot => x = n)'
  BY <1>4, <1>10, <1>12, <1>19 DEF OwnRequests
<1>22. (\A x \in wire : x.tab = t /\ x.slot \in Jobs => job[t][x.slot] \in {"call", "recall"})'
  BY <1>4, <1>8, <1>10, <1>11, <1>12, <1>14, <1>19 DEF OwnRequests
<1>23. (\A j \in Jobs : job[t][j] \in {"call", "recall"} => UnderWay(t, j))'
  BY <1>4, <1>8, <1>14, <1>20 DEF OwnRequests, Jobs
<1>24. (job[t]["login"] \in {"idle", "call"} /\ (page[t] = "waiting" => job[t]["restore"] # "idle"))'
  BY <1>3, <1>4, <1>7, <1>8, <1>11, <1>14 DEF OwnRequests, Jobs
<1>25. (\A x \in wire : x.tab = t /\ x.slot \in {"restore", "logout"}
                          /\ job[t][x.slot] = "recall" => ~x.aged)'
  BY <1>4, <1>8, <1>10, <1>12, <1>14, <1>19 DEF OwnRequests, Jobs
<1>26. OwnRequests(t)'
  BY <1>15, <1>18, <1>21, <1>22, <1>23, <1>24, <1>25 DEF OwnRequests
<1> HIDE DEF t
<1> QED BY <1>1, <1>13, <1>17, <1>26, TabKeepsInv

-----------------------------------------------------------------------------
(* The theorems                                                            *)

LEMMA InvInit == Init => Inv
  BY DEF Init, Inv, TypeInv, SessionStates, NoToken, Tokens, Pages, Jobs, Steps,
     Requests, OnePerSlot, CallsAreAwaited, RefreshesAreAwaited, CallsAreUnderWay,
     RefreshesAreUnderWay, JobsFit, RecallsAreFresh, Waiters,
     Knowledge, NamesAreKnown, Known, RejectionsAreTrue,
     Holders, OneHolder, AnswersBringNew, RotatedCookies, RotatedRequests, Rotated,
     TokenGoesWithCookie

LEMMA InvStutters ==
  ASSUME Inv, UNCHANGED vars
  PROVE  Inv'
<1>1. /\ sessions' = sessions /\ wire' = wire /\ cookie' = cookie /\ token' = token
      /\ page' = page /\ job' = job /\ lost' = lost
  BY DEF vars, clientVars
<1> QED BY <1>1 DEF Inv, TypeInv,
     Requests, OnePerSlot, CallsAreAwaited, RefreshesAreAwaited, CallsAreUnderWay,
     RefreshesAreUnderWay, JobsFit, RecallsAreFresh, Waiters, UnderWay,
     Knowledge, NamesAreKnown, Known, RejectionsAreTrue, Live,
     Holders, OneHolder, AnswersBringNew, RotatedCookies, RotatedRequests, Rotated,
     TokenGoesWithCookie

LEMMA InvNext == Inv /\ [Next]_vars => Inv'
<1> SUFFICES ASSUME Inv, [Next]_vars
             PROVE  Inv'
  OBVIOUS
<1>1. ASSUME NEW t \in Tabs, User(t) \/ TokenAges(t) \/ Reload(t)
      PROVE  Inv'
  BY <1>1, OpenLobbyKeepsInv, LeaveLobbyKeepsInv, SubmitLoginKeepsInv, ExitKeepsInv,
     TokenAgesKeepsInv, ReloadKeepsInv DEF User
<1>2. ASSUME NEW m \in wire, Answered(m)
      PROVE  Inv'
  BY <1>2, LoginAnsweredKeepsInv, LoginFailedKeepsInv, RefreshAnsweredKeepsInv,
     RefreshFailedKeepsInv, RestoredKeepsInv, LoggedOutKeepsInv, RetriedKeepsInv,
     CallFailedKeepsInv DEF Answered
<1>3. ASSUME NEW m \in wire, Lose(m)
      PROVE  Inv'
  BY <1>3, LoseKeepsInv
<1>4. CASE Server /\ UNCHANGED clientVars
  BY <1>4, ServerKeepsInv
<1>5. CASE UNCHANGED vars
  BY <1>5, InvStutters
<1> QED BY <1>1, <1>2, <1>3, <1>4, <1>5 DEF Next

THEOREM InvHolds == Spec => []Inv
  BY InvInit, InvNext, PTL DEF Spec

\* A tab awaits exactly the requests it has under way: whatever overtakes, is
\* lost or fails, no restore, login or logout is left without its answer, and
\* a lobby without a session has a restore under way (session.ts).
THEOREM WebTypeCorrect == Spec => []WebTypeOK
<1>1. Inv => WebTypeOK
  <2> SUFFICES ASSUME Inv
               PROVE  WebTypeOK
    OBVIOUS
  <2>1. ASSUME NEW t \in Tabs, NEW slot \in Jobs \cup {"refresh"}
        PROVE  Cardinality({m \in wire : m.tab = t /\ m.slot = slot})
                 = IF UnderWay(t, slot) THEN 1 ELSE 0
    <3>1. CASE UnderWay(t, slot)
      <4>1. PICK m \in wire : m.tab = t /\ m.slot = slot
        BY <3>1 DEF UnderWay
      <4>2. {x \in wire : x.tab = t /\ x.slot = slot} = {m}
        BY <4>1 DEF Inv, Requests, OnePerSlot
      <4> QED BY <3>1, <4>2, FS_Singleton
    <3>2. CASE ~UnderWay(t, slot)
      <4>1. {x \in wire : x.tab = t /\ x.slot = slot} = {}
        BY <3>2 DEF UnderWay
      <4> QED BY <3>2, <4>1, FS_EmptySet
    <3> QED BY <3>1, <3>2
  <2>2. ASSUME NEW t \in Tabs
        PROVE  /\ \A j \in Jobs : UnderWay(t, j) <=> job[t][j] \in {"call", "recall"}
               /\ UnderWay(t, "refresh") <=> Waiters(t) # {}
               /\ page[t] = "waiting" => job[t]["restore"] # "idle"
    BY DEF Inv, Requests, CallsAreAwaited, RefreshesAreAwaited, CallsAreUnderWay,
       RefreshesAreUnderWay, JobsFit, UnderWay
  <2>3. ASSUME NEW t \in Tabs
        PROVE  LET sent(slot) == {m \in wire : m.tab = t /\ m.slot = slot} IN
               /\ \A j \in Jobs : Cardinality(sent(j)) =
                    IF job[t][j] \in {"call", "recall"} THEN 1 ELSE 0
               /\ Cardinality(sent("refresh")) = IF Waiters(t) = {} THEN 0 ELSE 1
               /\ page[t] = "waiting" => job[t]["restore"] # "idle"
    BY <2>1, <2>2
  <2> QED BY <2>3 DEF Inv, TypeInv, WebTypeOK
<1> QED BY <1>1, InvHolds, PTL

\* The access token a tab holds is of the session its cookie refreshes, for
\* every order in which logins, refreshes and logouts answer.
THEOREM TokenCorrect == Spec => []TokenGoesWithCookie
<1>1. Inv => TokenGoesWithCookie
  BY DEF Inv
<1> QED BY <1>1, InvHolds, PTL

\* A tab presents a token it has rotated itself, and so revokes its own chain,
\* only if the answer that rotated it was lost.
THEOREM ReplaysCorrect == Spec => ReplaysComeFromLoss
<1>1. Inv /\ [Next]_vars =>
        [\A m \in wire : ReuseDetected(m) /\ sessions[m.cookie] = "rotated" => lost[m.tab]]_vars
  <2> SUFFICES ASSUME Inv, NEW m \in wire, ReuseDetected(m), sessions[m.cookie] = "rotated"
               PROVE  lost[m.tab]
    OBVIOUS
  <2>1. m \in Messages /\ WellFormed(m) /\ m.at = "sent" /\ m.path = "refresh"
        /\ Rotated(m.cookie)
    BY DEF Inv, TypeInv, Requests, ReuseDetected, Arrived, Rotated
  <2>2. m.slot = "refresh"
    BY <2>1, SlotsOfPaths
  <2> QED BY <2>1, <2>2 DEF Inv, Holders, RotatedRequests
<1> QED BY <1>1, InvHolds, PTL DEF Spec, ReplaysComeFromLoss

\* A 401 sends a waiting lobby back to the login form only if the session its
\* cookie names has ended, unless the answer is about another session.
THEOREM SentAwayCorrect == Spec => SentAwaySignedOut
<1>1. Inv /\ [Next]_vars =>
        [\A m \in wire :
           /\ SentAway(m.tab) /\ Answered(m) /\ m.at = "unauthorized"
           /\ Credential(m) = cookie[m.tab]
           => ~Live(cookie[m.tab])]_vars
  <2> SUFFICES ASSUME Inv, NEW m \in wire, SentAway(m.tab), Answered(m),
                      m.at = "unauthorized", Credential(m) = cookie[m.tab]
               PROVE  ~Live(cookie[m.tab])
    OBVIOUS
  <2>1. m \in Messages /\ WellFormed(m) /\ m.tab \in Tabs
    BY DEF Inv, TypeInv, Requests, Messages
  <2>2. CASE RefreshFailed(m)
    <3>1. m.slot = "refresh" /\ Credential(m) = m.cookie
      BY <2>1, <2>2, SlotsOfPaths DEF RefreshFailed, Comes, Credential
    <3> QED BY <3>1 DEF Inv, Knowledge, RejectionsAreTrue
  <2>3. CASE CallFailed(m)
    <3>1. m.slot \in {"restore", "logout"} /\ job[m.tab][m.slot] = "recall"
      BY <2>3 DEF CallFailed
    <3>2. Credential(m) = m.bearer /\ ~m.aged
      BY <2>1, <3>1, SlotsOfPaths DEF Credential, Inv, Requests, RecallsAreFresh
    <3> QED BY <3>1, <3>2 DEF Inv, Knowledge, RejectionsAreTrue
  <2>4. CASE LoginFailed(m) \/ Retried(m)
    BY <2>4 DEF LoginFailed, Retried, SentAway
  <2>5. CASE LoginAnswered(m) \/ RefreshAnswered(m) \/ Restored(m) \/ LoggedOut(m)
    BY <2>5 DEF LoginAnswered, RefreshAnswered, Restored, LoggedOut, Comes
  <2> QED BY <2>2, <2>3, <2>4, <2>5 DEF Answered
<1> QED BY <1>1, InvHolds, PTL DEF Spec, SentAwaySignedOut

=============================================================================
