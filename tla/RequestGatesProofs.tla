------------------------- MODULE RequestGatesProofs -------------------------
(***************************************************************************)
(* Proofs about RequestGates, for any addresses, usernames, limits and     *)
(* calls: types, and that no window lets more than its limit pass.         *)
(***************************************************************************)
EXTENDS RequestGates, TLAPS

\* A login between its first and its last gate has an address and a name.
LoginsHaveKeys ==
  \A c \in Logins :
    pc[c] \in {"ip", "expireIp", "name", "expireName"} => ip[c] \in Ips /\ name[c] \in Names

\* The login that opened the window of k, and has not said when it ends.
Opens(c, k) == \/ pc[c] = "expireIp" /\ ip[c] = k
               \/ pc[c] = "expireName" /\ name[c] = k

\* What passed was counted; only a key that exists expires, and a window whose
\* end is not yet said has at most one opener, counted and not passed.
WindowOK(k) ==
  /\ passed[k] <= counter[k].count /\ passed[k] <= Max[k]
  /\ \A c \in Logins : Opens(c, k) =>
       /\ passed[k] + 1 <= counter[k].count /\ passed[k] + 1 <= Max[k]
       /\ ~counter[k].expires
  /\ \A c, d \in Logins : Opens(c, k) /\ Opens(d, k) => c = d
  /\ counter[k].expires => counter[k].count > 0

Typed ==
  /\ GatesTypeOK
  /\ counter \in [Limits -> [count: Nat, expires: BOOLEAN]]

IInv ==
  /\ Typed
  /\ LoginsHaveKeys
  /\ \A k \in Limits : WindowOK(k)

-----------------------------------------------------------------------------
LEMMA InitInvariant == Init => IInv
  BY GatesAssumption
  DEF Init, IInv, Typed, GatesTypeOK, LoginsHaveKeys, WindowOK, Opens, NoCounter,
      NoStatus, Phases, Statuses, Limits, Calls

\* A call that ends keeps its types.
LEMMA EndTyped ==
  ASSUME Typed, NEW c \in Calls, End(c)
  PROVE  /\ pc' = [pc EXCEPT ![c] = "idle"]
         /\ pc' \in [Calls -> Phases]
         /\ ip' \in [Logins -> Ips \cup {NoKey}]
         /\ name' \in [Logins -> Names \cup {NoKey}]
         /\ seen' \in [Calls -> Statuses \cup {"none"}]
         /\ \A l \in Logins : l # c => ip'[l] = ip[l] /\ name'[l] = name[l]
  BY DEF Typed, GatesTypeOK, End, Phases

LEMMA IncrementedTyped ==
  ASSUME Typed, NEW k \in Limits
  PROVE  /\ Incremented(k) \in [count: 0 .. Max[k] + 1, expires: BOOLEAN]
         /\ Incremented(k).expires = counter[k].expires
         /\ Incremented(k).count = IF counter[k].count > Max[k] THEN counter[k].count
                                   ELSE counter[k].count + 1
         /\ counter[k].count \in Nat /\ Max[k] \in Nat \ {0} /\ passed[k] \in Nat
         /\ counter[k].count <= Max[k] + 1
<1>1. /\ counter[k] \in [count: 0 .. Max[k] + 1, expires: BOOLEAN]
      /\ Max[k] \in Nat \ {0} /\ passed[k] \in Nat
  BY GatesAssumption DEF Typed, GatesTypeOK
<1> QED
  BY <1>1 DEF Incremented

\* A counter that gets a counter's value leaves all of them counters.
LEMMA CountersTyped ==
  ASSUME Typed, NEW k \in Limits, NEW v \in [count: 0 .. Max[k] + 1, expires: BOOLEAN],
         counter' = [counter EXCEPT ![k] = v]
  PROVE  /\ counter' \in [Limits -> [count: Nat, expires: BOOLEAN]]
         /\ \A j \in Limits : counter'[j] \in [count: 0 .. Max[j] + 1, expires: BOOLEAN]
<1>1. Max[k] \in Nat
  BY GatesAssumption
<1>2. v \in [count: Nat, expires: BOOLEAN]
  BY <1>1
<1>3. counter \in [Limits -> [count: Nat, expires: BOOLEAN]]
  BY DEF Typed
<1>4. \A j \in Limits : counter'[j] = IF j = k THEN v ELSE counter[j]
  BY <1>3
<1> QED
  BY <1>2, <1>3, <1>4 DEF Typed, GatesTypeOK

\* INCR and EXPIRE, whether or not they are answered, leave counters.
LEMMA CommandsTyped ==
  ASSUME Typed, NEW k \in Limits,
         counter' \in {counter, Expiring(k), [counter EXCEPT ![k] = Incremented(k)]}
  PROVE  /\ counter' \in [Limits -> [count: Nat, expires: BOOLEAN]]
         /\ \A j \in Limits : counter'[j] \in [count: 0 .. Max[j] + 1, expires: BOOLEAN]
<1> DEFINE v == [counter[k] EXCEPT !.expires = counter[k].count > 0]
<1>1. counter[k] \in [count: 0 .. Max[k] + 1, expires: BOOLEAN]
  BY DEF Typed, GatesTypeOK
<1>2. (counter[k].count > 0) \in BOOLEAN
  BY <1>1
<1>3. v \in [count: 0 .. Max[k] + 1, expires: BOOLEAN]
  BY <1>1, <1>2
<1>4. Expiring(k) = [counter EXCEPT ![k] = v]
  BY DEF Expiring
<1>5. CASE counter' = counter
  BY <1>5 DEF Typed, GatesTypeOK
<1>6. CASE counter' = Expiring(k)
  BY <1>3, <1>4, <1>6, CountersTyped
<1>7. CASE counter' = [counter EXCEPT ![k] = Incremented(k)]
  BY <1>7, IncrementedTyped, CountersTyped
<1> QED
  BY <1>5, <1>6, <1>7

-----------------------------------------------------------------------------
LEMMA TypedStep ==
  ASSUME IInv, [Next]_vars
  PROVE  Typed'
<1>1. CASE UNCHANGED vars
  BY <1>1 DEF IInv, Typed, GatesTypeOK, vars, redis
<1>2. ASSUME NEW c \in Logins, LoginSubmit(c) PROVE Typed'
  BY <1>2 DEF IInv, Typed, GatesTypeOK, LoginSubmit, Move, redis, Calls, Phases
<1>3. ASSUME NEW c \in Guarded, GuardedSubmit(c) PROVE Typed'
  BY <1>3 DEF IInv, Typed, GatesTypeOK, GuardedSubmit, Move, redis, Calls, Phases
<1>4. ASSUME NEW c \in Logins, Increment(c) PROVE Typed'
  <2>1. PICK g \in Gates(c) :
          /\ pc[c] = g.at
          /\ counter' = [counter EXCEPT ![g.key] = Incremented(g.key)]
          /\ \/ End(c) /\ UNCHANGED passed
             \/ /\ pc' = [pc EXCEPT ![c] = IF Incremented(g.key).count = 1 THEN g.expire ELSE g.next]
                /\ passed' = [passed EXCEPT ![g.key] =
                                IF Incremented(g.key).count = 1 THEN @ ELSE @ + 1]
                /\ UNCHANGED <<ip, name, seen>>
          /\ UNCHANGED <<cached, userStatus>>
    BY <1>4 DEF Increment
  <2>2. /\ g.key \in Limits /\ c \in Calls
        /\ g.expire \in Phases /\ g.next \in Phases
    BY <2>1 DEF Gates, IInv, LoginsHaveKeys, Limits, Calls, Phases
  <2>3. /\ counter' \in [Limits -> [count: Nat, expires: BOOLEAN]]
        /\ \A k \in Limits : counter'[k] \in [count: 0 .. Max[k] + 1, expires: BOOLEAN]
    BY <2>1, <2>2, CommandsTyped DEF IInv
  <2>4. CASE End(c) /\ UNCHANGED passed
    BY <2>1, <2>2, <2>3, <2>4, EndTyped DEF IInv, Typed, GatesTypeOK
  <2>5. CASE ~(End(c) /\ UNCHANGED passed)
    BY <2>1, <2>2, <2>3, <2>5 DEF IInv, Typed, GatesTypeOK
  <2> QED
    BY <2>4, <2>5
<1>5. ASSUME NEW c \in Logins, SetExpiry(c) PROVE Typed'
  <2>1. PICK g \in Gates(c) :
          /\ Move(c, g.expire, g.next)
          /\ counter' = Expiring(g.key)
          /\ passed' = [passed EXCEPT ![g.key] = @ + 1]
          /\ UNCHANGED <<cached, userStatus, ip, name, seen>>
    BY <1>5 DEF SetExpiry
  <2>2. g.key \in Limits /\ c \in Calls /\ g.next \in Phases
    BY <2>1 DEF Gates, Move, IInv, LoginsHaveKeys, Limits, Calls, Phases
  <2>3. /\ counter' \in [Limits -> [count: Nat, expires: BOOLEAN]]
        /\ \A k \in Limits : counter'[k] \in [count: 0 .. Max[k] + 1, expires: BOOLEAN]
    BY <2>1, <2>2, CommandsTyped DEF IInv
  <2> QED
    BY <2>1, <2>2, <2>3 DEF IInv, Typed, GatesTypeOK, Move
<1>6. ASSUME NEW c \in Logins, FailOpen(c) PROVE Typed'
  <2>1. PICK g \in Gates(c) :
          /\ pc[c] \in {g.at, g.expire} /\ pc' = [pc EXCEPT ![c] = g.next]
          /\ counter' \in {counter, Expiring(g.key),
                          [counter EXCEPT ![g.key] = Incremented(g.key)]}
          /\ UNCHANGED <<passed, cached, userStatus, ip, name, seen>>
    BY <1>6 DEF FailOpen, Move
  <2>2. g.key \in Limits /\ c \in Calls /\ g.next \in Phases
    BY <2>1 DEF Gates, IInv, LoginsHaveKeys, Limits, Calls, Phases
  <2>3. /\ counter' \in [Limits -> [count: Nat, expires: BOOLEAN]]
        /\ \A k \in Limits : counter'[k] \in [count: 0 .. Max[k] + 1, expires: BOOLEAN]
    BY <2>1, <2>2, CommandsTyped DEF IInv
  <2> QED
    BY <2>1, <2>2, <2>3 DEF IInv, Typed, GatesTypeOK
<1>7. ASSUME NEW c \in Logins, ReadAccount(c) PROVE Typed'
  BY <1>7 DEF IInv, Typed, GatesTypeOK, ReadAccount, Move, redis, Calls, Phases
<1>8. ASSUME NEW c \in Guarded, CheckSession(c) PROVE Typed'
  BY <1>8, EndTyped DEF IInv, Typed, GatesTypeOK, CheckSession, Move, redis, Calls, Phases
<1>9. ASSUME NEW c \in Guarded, CacheHit(c) PROVE Typed'
  BY <1>9 DEF IInv, Typed, GatesTypeOK, CacheHit, Move, redis, Calls, Phases
<1>10. ASSUME NEW c \in Guarded, ReadStatus(c) PROVE Typed'
  BY <1>10 DEF IInv, Typed, GatesTypeOK, ReadStatus, Move, redis, Calls, Phases
<1>11. ASSUME NEW c \in Guarded, StoreStatus(c) PROVE Typed'
  <2>1. Entry(seen[c]) \in [status: Statuses \cup {"none"}, expires: BOOLEAN]
    BY DEF IInv, Typed, GatesTypeOK, Entry, Calls
  <2>2. cached' \in [status: Statuses \cup {"none"}, expires: BOOLEAN]
    BY <1>11, <2>1 DEF IInv, Typed, GatesTypeOK, StoreStatus
  <2> QED
    BY <1>11, <2>2 DEF IInv, Typed, GatesTypeOK, StoreStatus, Move, Phases
<1>12. ASSUME NEW c \in Calls, Leave(c) \/ Die(c) PROVE Typed'
  BY <1>12, EndTyped DEF IInv, Typed, GatesTypeOK, Leave, Die, redis
<1>13. ASSUME NEW k \in Limits, WindowEnds(k) PROVE Typed'
  <2>1. NoCounter \in [count: 0 .. Max[k] + 1, expires: BOOLEAN]
    BY GatesAssumption DEF NoCounter
  <2>2. /\ counter' \in [Limits -> [count: Nat, expires: BOOLEAN]]
        /\ \A j \in Limits : counter'[j] \in [count: 0 .. Max[j] + 1, expires: BOOLEAN]
    BY <1>13, <2>1, CountersTyped DEF IInv, WindowEnds
  <2> QED
    BY <1>13, <2>2 DEF IInv, Typed, GatesTypeOK, WindowEnds
<1>14. CASE StatusExpires
  BY <1>14 DEF IInv, Typed, GatesTypeOK, StatusExpires, NoStatus
<1>15. ASSUME NEW s \in Statuses, ChangeStatus(s) PROVE Typed'
  BY <1>15 DEF IInv, Typed, GatesTypeOK, ChangeStatus, redis
<1> QED
  BY <1>1, <1>2, <1>3, <1>4, <1>5, <1>6, <1>7, <1>8, <1>9, <1>10, <1>11, <1>12, <1>13,
     <1>14, <1>15 DEF Next, Progress

\* A login's address and username are chosen with its first step.
LEMMA KeysStep ==
  ASSUME IInv, [Next]_vars
  PROVE  LoginsHaveKeys'
<1> USE DEF LoginsHaveKeys
<1>0. LoginsHaveKeys /\ Typed /\ Logins \subseteq Calls
  BY DEF IInv, Calls
<1>1. CASE UNCHANGED vars
  BY <1>0, <1>1 DEF vars
<1>2. ASSUME NEW c \in Logins, LoginSubmit(c) PROVE LoginsHaveKeys'
  BY <1>0, <1>2 DEF LoginSubmit, Move, Typed, GatesTypeOK
<1>3. ASSUME NEW c \in Calls, Increment(c) \/ SetExpiry(c) \/ FailOpen(c), c \in Logins
      PROVE  LoginsHaveKeys'
  <2>1. CASE End(c)
    BY <1>0, <2>1, EndTyped DEF Typed, GatesTypeOK
  <2>2. CASE ~End(c)
    BY <1>0, <1>3, <2>2 DEF Increment, SetExpiry, FailOpen, Gates, Move, Typed, GatesTypeOK
  <2> QED
    BY <2>1, <2>2
<1>4. ASSUME NEW c \in Calls,
             \/ ReadAccount(c) \/ CacheHit(c) \/ ReadStatus(c) \/ StoreStatus(c)
             \/ GuardedSubmit(c)
      PROVE  LoginsHaveKeys'
  BY <1>0, <1>4 DEF ReadAccount, CacheHit, ReadStatus, StoreStatus, GuardedSubmit, Move,
                    Typed, GatesTypeOK
<1>5. ASSUME NEW c \in Calls, CheckSession(c) \/ Leave(c) \/ Die(c)
      PROVE  LoginsHaveKeys'
  <2>1. CASE End(c)
    BY <1>0, <2>1, EndTyped DEF Typed, GatesTypeOK
  <2>2. CASE ~End(c)
    BY <1>0, <1>5, <2>2 DEF CheckSession, Leave, Die, Move, Typed, GatesTypeOK
  <2> QED
    BY <2>1, <2>2
<1>6. CASE \/ \E k \in Limits : WindowEnds(k)
           \/ StatusExpires
           \/ \E s \in Statuses : ChangeStatus(s)
  BY <1>0, <1>6 DEF WindowEnds, StatusExpires, ChangeStatus
<1> QED
  BY <1>1, <1>2, <1>3, <1>4, <1>5, <1>6 DEF Next, Progress, Calls

\* Steps that neither count, pass nor open keep every window in order.
LEMMA WindowKept ==
  ASSUME IInv, NEW k \in Limits, UNCHANGED <<counter, passed>>,
         \A l \in Logins : Opens(l, k)' => Opens(l, k)
  PROVE  WindowOK(k)'
  BY DEF IInv, WindowOK, Opens

\* So does a call that ends.
LEMMA WindowAfterEnd ==
  ASSUME IInv, NEW k \in Limits, NEW c \in Calls, End(c), UNCHANGED <<counter, passed>>
  PROVE  WindowOK(k)'
<1>1. \A l \in Logins : Opens(l, k)' => Opens(l, k)
  BY EndTyped DEF IInv, Typed, GatesTypeOK, Opens, Calls
<1> QED
  BY <1>1, WindowKept

\* The gates of a login are of different keys.
LEMMA GateKeys ==
  ASSUME IInv, NEW c \in Logins, NEW g \in Gates(c), pc[c] \in {g.at, g.expire}
  PROVE  /\ g.key \in Limits /\ c \in Calls
         /\ pc[c] = g.expire => Opens(c, g.key)
         /\ \A k \in Limits : Opens(c, k) => pc[c] = g.expire /\ k = g.key
         /\ g.next \in {"name", "account"}
         /\ g.expire = IF g.next = "name" THEN "expireIp" ELSE "expireName"
         /\ g.key = IF g.next = "name" THEN ip[c] ELSE name[c]
  BY GatesAssumption DEF Gates, Opens, IInv, LoginsHaveKeys, Limits, Calls

\* INCR: a login that goes on to EXPIRE found the window closed, and one that
\* passes was counted within the limit.
LEMMA IncrementKeepsWindows ==
  ASSUME IInv, NEW c \in Logins, Increment(c), NEW k \in Limits
  PROVE  WindowOK(k)'
<1>1. PICK g \in Gates(c) :
        /\ pc[c] = g.at
        /\ counter' = [counter EXCEPT ![g.key] = Incremented(g.key)]
        /\ \/ End(c) /\ UNCHANGED passed
           \/ /\ ~Exceeded(g.key, Incremented(g.key).count)
              /\ pc' = [pc EXCEPT ![c] = IF Incremented(g.key).count = 1 THEN g.expire ELSE g.next]
              /\ passed' = [passed EXCEPT ![g.key] =
                              IF Incremented(g.key).count = 1 THEN @ ELSE @ + 1]
              /\ UNCHANGED <<ip, name, seen>>
  BY DEF Increment
<1>2. /\ g.key \in Limits /\ c \in Calls /\ Typed
      /\ \A j \in Limits : ~Opens(c, j)
  BY <1>1, GateKeys DEF IInv, Gates
<1>3. /\ counter'[k] = IF k = g.key THEN Incremented(k) ELSE counter[k]
      /\ WindowOK(k)
      /\ Incremented(k).expires = counter[k].expires
      /\ Incremented(k).count = IF counter[k].count > Max[k] THEN counter[k].count
                                ELSE counter[k].count + 1
      /\ counter[k].count \in Nat /\ Max[k] \in Nat \ {0} /\ passed[k] \in Nat
  BY <1>1, <1>2, IncrementedTyped DEF IInv, Typed
<1>4. CASE End(c) /\ UNCHANGED passed
  <2>1. \A l \in Logins : Opens(l, k)' => Opens(l, k)
    BY <1>2, <1>4, EndTyped DEF Typed, GatesTypeOK, Opens, Calls
  <2> QED
    BY <1>3, <1>4, <2>1 DEF WindowOK
<1>5. CASE ~(End(c) /\ UNCHANGED passed)
  <2>1. /\ ~(Incremented(g.key).count > Max[g.key])
        /\ UNCHANGED <<ip, name>>
        /\ \A l \in Logins : l # c => pc'[l] = pc[l]
        /\ pc'[c] = IF Incremented(g.key).count = 1 THEN g.expire ELSE g.next
        /\ passed'[k] = IF k = g.key /\ Incremented(k).count # 1 THEN passed[k] + 1
                        ELSE passed[k]
    BY <1>1, <1>2, <1>5 DEF Exceeded, Typed, GatesTypeOK, Calls
  <2>2. \A l \in Logins : Opens(l, k)' =>
           Opens(l, k) \/ (l = c /\ k = g.key /\ Incremented(k).count = 1)
    BY <1>1, <1>2, <2>1, GateKeys DEF Opens
  <2>3. CASE k # g.key
    BY <1>3, <2>1, <2>2, <2>3 DEF WindowOK
  <2>4. CASE k = g.key /\ Incremented(k).count = 1
    <3>1. counter[k].count = 0 /\ passed[k] = 0
      BY <1>3, <2>1, <2>4 DEF WindowOK
    <3>2. \A l \in Logins : ~Opens(l, k)
      BY <1>3, <3>1 DEF WindowOK
    <3>3. ~counter[k].expires
      BY <1>3, <3>1 DEF WindowOK
    <3> QED
      BY <1>3, <2>1, <2>2, <2>4, <3>1, <3>2, <3>3 DEF WindowOK
  <2>5. CASE k = g.key /\ Incremented(k).count # 1
    BY <1>3, <2>1, <2>2, <2>5 DEF WindowOK
  <2> QED
    BY <2>3, <2>4, <2>5
<1> QED
  BY <1>4, <1>5

\* EXPIRE: the opener passes, counted before, and the window may end.
LEMMA SetExpiryKeepsWindows ==
  ASSUME IInv, NEW c \in Logins, SetExpiry(c), NEW k \in Limits
  PROVE  WindowOK(k)'
<1>1. PICK g \in Gates(c) :
        /\ Move(c, g.expire, g.next)
        /\ counter' = Expiring(g.key)
        /\ passed' = [passed EXCEPT ![g.key] = @ + 1]
        /\ UNCHANGED <<ip, name>>
  BY DEF SetExpiry
<1>2. /\ g.key \in Limits /\ c \in Calls /\ Typed /\ WindowOK(k) /\ Opens(c, g.key)
      /\ \A j \in Limits : Opens(c, j) => j = g.key
      /\ counter[k].count \in Nat /\ Max[k] \in Nat \ {0} /\ passed[k] \in Nat
  BY <1>1, GateKeys, IncrementedTyped DEF Move, IInv
<1>3. /\ counter'[k].count = counter[k].count
      /\ counter'[k].expires = IF k = g.key THEN counter[k].count > 0 ELSE counter[k].expires
      /\ passed'[k] = IF k = g.key THEN passed[k] + 1 ELSE passed[k]
  BY <1>1, <1>2 DEF Expiring, Typed, GatesTypeOK
<1>4. \A l \in Logins : Opens(l, k)' => Opens(l, k) /\ l # c
  BY <1>1, <1>2, GateKeys DEF Opens, Move, Typed, GatesTypeOK, Calls
<1>5. CASE k = g.key
  BY <1>2, <1>3, <1>4, <1>5 DEF WindowOK
<1>6. CASE k # g.key
  BY <1>2, <1>3, <1>4, <1>6 DEF WindowOK
<1> QED
  BY <1>5, <1>6

\* A login that Redis does not answer passes uncounted, or counted only.
LEMMA FailOpenKeepsWindows ==
  ASSUME IInv, NEW c \in Logins, FailOpen(c), NEW k \in Limits
  PROVE  WindowOK(k)'
<1>1. PICK g \in Gates(c) :
        /\ pc[c] \in {g.at, g.expire} /\ pc' = [pc EXCEPT ![c] = g.next]
        /\ \/ counter' = [counter EXCEPT ![g.key] = Incremented(g.key)]
           \/ UNCHANGED counter
           \/ pc[c] = g.expire /\ counter' = Expiring(g.key)
        /\ UNCHANGED <<passed, ip, name>>
  BY DEF FailOpen, Move
<1>2. /\ g.key \in Limits /\ c \in Calls /\ Typed /\ WindowOK(k)
      /\ Incremented(k).expires = counter[k].expires
      /\ Incremented(k).count = IF counter[k].count > Max[k] THEN counter[k].count
                                ELSE counter[k].count + 1
      /\ counter[k].count \in Nat /\ Max[k] \in Nat \ {0} /\ passed[k] \in Nat
  BY <1>1, GateKeys, IncrementedTyped DEF IInv
<1>3. \A l \in Logins : Opens(l, k)' => Opens(l, k) /\ l # c
  BY <1>1, <1>2, GateKeys DEF Opens, Gates, Typed, GatesTypeOK, Calls
<1>4. CASE counter'[k] \in {counter[k], Incremented(k)}
  BY <1>1, <1>2, <1>3, <1>4 DEF WindowOK
<1>5. CASE counter'[k] \notin {counter[k], Incremented(k)}
  <2>1. pc[c] = g.expire /\ k = g.key /\ Opens(c, k)
    BY <1>1, <1>2, <1>5, GateKeys DEF Expiring, Typed
  <2>2. counter'[k].count = counter[k].count /\ counter'[k].expires = (counter[k].count > 0)
    BY <1>1, <1>2, <1>5 DEF Expiring, Typed
  <2>3. \A l \in Logins : ~Opens(l, k)'
    BY <1>2, <1>3, <2>1 DEF WindowOK
  <2> QED
    BY <1>1, <1>2, <2>2, <2>3 DEF WindowOK
<1> QED
  BY <1>4, <1>5

\* Whatever else happens, no login comes to open a window.
LEMMA WindowsStep ==
  ASSUME IInv, [Next]_vars, NEW k \in Limits
  PROVE  WindowOK(k)'
<1>0. Typed /\ WindowOK(k) /\ Logins \subseteq Calls /\ counter[k].count \in Nat
  BY IncrementedTyped DEF IInv, Calls
<1>1. CASE UNCHANGED vars
  BY <1>1, WindowKept DEF vars, redis, Opens
<1>2. ASSUME NEW c \in Logins, LoginSubmit(c) PROVE WindowOK(k)'
  <2>1. \A l \in Logins : Opens(l, k)' => Opens(l, k)
    BY <1>0, <1>2 DEF LoginSubmit, Move, Opens, Typed, GatesTypeOK
  <2> QED
    BY <1>2, <2>1, WindowKept DEF LoginSubmit, redis
<1>3. ASSUME NEW c \in Logins, Increment(c) \/ SetExpiry(c) \/ FailOpen(c)
      PROVE  WindowOK(k)'
  BY <1>3, IncrementKeepsWindows, SetExpiryKeepsWindows, FailOpenKeepsWindows
<1>4. ASSUME NEW c \in Calls,
             \/ ReadAccount(c) \/ CacheHit(c) \/ ReadStatus(c) \/ StoreStatus(c)
             \/ GuardedSubmit(c)
      PROVE  WindowOK(k)'
  <2>1. \A l \in Logins : Opens(l, k)' => Opens(l, k)
    BY <1>0, <1>4 DEF ReadAccount, CacheHit, ReadStatus, StoreStatus, GuardedSubmit, Move,
                      Opens, Typed, GatesTypeOK
  <2> QED
    BY <1>4, <2>1, WindowKept
    DEF ReadAccount, CacheHit, ReadStatus, StoreStatus, GuardedSubmit, redis
<1>5. ASSUME NEW c \in Calls, CheckSession(c) \/ Leave(c) \/ Die(c)
      PROVE  WindowOK(k)'
  <2>1. CASE End(c)
    BY <1>5, <2>1, WindowAfterEnd DEF CheckSession, Leave, Die, redis
  <2>2. CASE ~End(c)
    <3>1. \A l \in Logins : Opens(l, k)' => Opens(l, k)
      BY <1>0, <1>5, <2>2 DEF CheckSession, Leave, Die, Move, Opens, Typed, GatesTypeOK
    <3> QED
      BY <1>5, <2>2, <3>1, WindowKept DEF CheckSession, Leave, Die, redis
  <2> QED
    BY <2>1, <2>2
<1>6. ASSUME NEW j \in Limits, WindowEnds(j) PROVE WindowOK(k)'
  <2>1. \A l \in Logins : Opens(l, j) => FALSE
    BY <1>6 DEF WindowEnds, IInv, WindowOK
  <2>2. CASE k = j
    <3>1. counter'[k] = NoCounter /\ passed'[k] = 0
      BY <1>0, <1>6, <2>2 DEF WindowEnds, Typed, GatesTypeOK
    <3>2. \A l \in Logins : ~Opens(l, k)'
      BY <1>6, <2>1, <2>2 DEF WindowEnds, Opens
    <3>3. Max[k] \in Nat
      BY GatesAssumption
    <3> QED
      BY <3>1, <3>2, <3>3 DEF WindowOK, NoCounter
  <2>3. CASE k # j
    BY <1>0, <1>6, <2>3 DEF WindowEnds, WindowOK, Opens, Typed, GatesTypeOK
  <2> QED
    BY <2>2, <2>3
<1>7. CASE StatusExpires \/ \E s \in Statuses : ChangeStatus(s)
  BY <1>7, WindowKept DEF StatusExpires, ChangeStatus, redis, Opens
<1> QED
  BY <1>1, <1>2, <1>3, <1>4, <1>5, <1>6, <1>7 DEF Next, Progress, Calls

-----------------------------------------------------------------------------
\* The inductive invariant: types, logins with their keys, windows in order.
THEOREM GatesInvariance == Spec => []IInv
<1>1. IInv /\ [Next]_vars => IInv'
  BY TypedStep, KeysStep, WindowsStep DEF IInv
<1> QED
  BY InitInvariant, <1>1, PTL DEF Spec

\* The types of counters, cached status and calls, for any limits and calls.
THEOREM GatesTypeCorrect == Spec => []GatesTypeOK
<1>1. IInv => GatesTypeOK
  BY DEF IInv, Typed
<1> QED
  BY <1>1, GatesInvariance, PTL

\* However many logins race, whatever Redis loses and whoever dies in between,
\* no window of an address or a username lets more than its limit pass.
THEOREM LimitsAreKeptAlways == Spec => []LimitsAreKept
<1>1. IInv => LimitsAreKept
  BY DEF IInv, WindowOK, LimitsAreKept
<1> QED
  BY <1>1, GatesInvariance, PTL
=============================================================================
