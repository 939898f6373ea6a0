# TLA+ model of jito-india-game

A specification of the parts of this repository that must stay correct while
several actors interleave: the points ledger, the bets and adjustments that write
it and the audit that reads it; the engine that moves the rounds bets are placed in;
sessions, passwords, rate limits and the status cache; the browser tab that holds a
session; and the pages a player sees, with the game table that runs in one of them. TLC
checks small instances, liveness included; TLAPS proves the safety properties for every
value of the constants. File references are to the repository.

## 1. Inventory

| Component | State it keeps | Operations | Interacts through |
|---|---|---|---|
| Points ledger (`services/api/src/points/points-ledger.service.ts`) | `points_accounts` (balance, version), append-only `points_transactions` | `applyMutation`; inside a caller's transaction `lockAndValidateAccount`, `commitMutation` | row lock on the account; unique `idempotency_key` |
| Bets (`bets/bets.service.ts`) | `bets`, `bet_items` | `placeBet` (validation and merging, pre-check, transaction, replay after P2002) | row lock on the round, then the ledger |
| Admin adjustments (`admin/points/admin-points.service.ts`) | `admin_logs` | `adjust` | the ledger, in the same transaction |
| Reconciliation (`points/reconciliation.service.ts`) | none | `verifyAccount`, `verifyAll` | unlocked reads of accounts and ledger |
| Round engine (`services/game-engine/src/rounds`, `redis`) | `game_rounds`, the Redis key `lock:game-engine:{env}`, `isLeader`, `tickInFlight` | `tick`, `ensureLeader`, `reconcile`, `tryCreateRound`, `openRound`, `lockIfDeadlinePassed` | conditional UPDATEs on the rows bets lock; a lease in Redis |
| Sessions (`auth/auth.service.ts`, `users/users.service.ts`, `admin/auth`) | `sessions`, `users.password_hash` | login, refresh with rotation and reuse detection, logout, logout-all, change password | row lock on the session; access tokens carry its id |
| Rate limits and lockout (`auth.service.ts`) | Redis counters, `failed_login_count`, `locked_until` | `checkRateLimit`, `handleFailedLogin` | Redis, `users` |
| Status guards (`auth/guards`) | 60 s status cache in Redis | `canActivate` | `sessions`, `users` |
| Web client session (`apps/web/src/services`, `components/auth`, `components/lobby`) | access token, refresh and restore in flight, the browser's cookie | login, restore, authenticated requests with one retry, logout | HTTP and the refresh cookie |
| Web pages and dialogs (`components/splash`, `auth`, `lobby`, `game/GameTCStage.tsx`, `GameInfoModal.tsx`) | the page shown, form and dialog states, report and past rounds, the router's navigation under way | navigate, splash timer, submit and answer of login, sign-up and password, restore, exit, report | the router; promises that outlive the component that awaits them |
| Web game table (`apps/web/src/components/game`, `packages/game-core`) | phase, seconds, bets, balance, wheel, reveal, timers | betting handlers, draw and settlement, preview keys | none yet: results and balance are the page's own |
| Pure helpers (`packages/shared`) | none | centipoints, validation | calls |
| Results, settlement (`services/game-engine/src/result`, `settlement`) | none: interfaces without implementation | | |

What makes each component hard, and correct:

* *Ledger*: concurrent debits of one account, a failure at any statement, a lost race
  for a unique key. Every account's rows form an unbroken chain that ends in its
  balance, one row per key, all or nothing.
* *Bets*: the engine locks the round while a bet is under way; retries after lost
  answers; keys reused for something else; sums beyond the safe range. Every bet has
  exactly its debit, none enters a closed round, every answer is true of the tables.
* *Adjustments*: keys are unique in the whole system, not per admin. A change and its
  log exist together, and an answer never claims another's change.
* *Reconciliation*: what is committed between two reads looks like a mismatch. Nothing
  else may.
* *Engine*: leases expire under slow leaders, reads go stale, processes die between
  statements, Redis and the database fail. The rounds of a game take legal transitions
  only, one live round at a time, numbered without gaps; due rounds eventually move.
* *Sessions*: rotation racing rotation, revocation or login. One token yields at most
  one valid successor and revocation leaves nothing behind.
* *Gates*: lost replies between INCR and EXPIRE, status cached after it changed. No
  window lets more than its limit pass; what a status becomes takes hold.
* *Web session*: answers overtake each other, are lost, or come after logout. Token and
  cookie are of one session; no rotated token is presented again; every restore ends.
* *Pages*: an answer comes after its page was left, a dialog closed and opened again, or
  a later request made. What a page shows of a call is true, a page that was left moves
  nobody, and every wait ends.
* *Game table*: timers, renders and clicks in any order. Stakes, play total and balance
  agree, a draw pays once what it marks, and the table always reopens.

`PROJECT.json` lists every component with its status and every hazard with its line.

## 2. Modules

    PointsLedger ──┬── BetPlacement ──┐
                   └── AdminPoints ───┴── PointsApi ──┬── PlacedItems (+ BetItems) ── MCPointsApi ──┐
                                          │           └── Reconciliation ──────────── MCReconciliation
                                          └ refines AtomicPoints
    RoundEngine ── MCRoundEngine              AuthSessions ── MCAuthSessions
        └ refines RoundLifecycle
                                              RequestGates ── MCRequestGates
    SessionApi ── WebSession ── MCWebSession
                                              Sums: BetItems, Reconciliation
    Wheel ── GameTable ── TableBets ── GameControls ── WheelContainer ── GameScreen ── MCGameTable

    AuthForms ── PasswordDialog ──┐
    InfoDialog ───────────────────┼── WebPages ── MCWebPages
    RoundHistory ─────────────────┘

Proofs are in modules of their own, over the modules they prove about:
`PointsApiProofs` (Reconciliation and PlacedItems), `RoundEngineProofs`,
`AuthSessionsProofs`, `RequestGatesProofs`, `WebSessionProofs`, `GameScreenProofs`,
`WebPagesProofs`, and `SumTheorems` with the facts about sums that two of them use.

**PointsLedger** models the two tables and the statements of the ledger service.
A call `c` is one API request. `pc[c]` is where it is, `params[c]` the mutation it is
to make, `token[c]` the `LockedAccountMutation`. One action is one statement; nothing
written is visible before COMMIT, so an uncommitted row is never a state of the tables
but follows from `pc`, `params` and `token`, and rollback is the loss of those.
`LockAccount` is `SELECT ... FOR UPDATE` (enabled only while the row is free).
`CommitMutation` is the insert against the global unique key, which waits while
another open transaction has inserted the same key (`KeyPending`), and fails with
P2002 if it has been committed (`CommitMutationRaced`). `CommitTransaction` is COMMIT,
after which the answer may still be lost. `Fail` is a crash, a lost connection or a
transaction timeout anywhere.

**BetPlacement** adds `placeBet` in the order of the code: look the key up without a
lock, BEGIN (`now()` becomes `txStart`), lock and check the round, lock the account,
insert bet and items, write the debit, COMMIT; after P2002 a second look-up. The
engine appears as its two conditional UPDATEs, which wait for the row. Only
`OpenRound` and `LockIfDeadlinePassed` exist in code; `BETTING_ACTIVE` is accepted by
the check but nothing writes it. **BetItems** is what the DTO and the service do with
an item list before any of that: well-formedness, merging of equal selections, ranges
and the safe sums. **PlacedItems** says that the bets of PointsApi are made of such lists. **AdminPoints** adds
`adjust`. **PointsApi** runs all of them on one database. **AtomicPoints** says what a
client may rely on: bets, adjustments and mutations as single steps, without locks and
program counters. **Reconciliation** adds the audit: one statement reads the balances,
a later one per account adds up its ledger. **Sums** is the sum of a function over a finite set.

**RoundEngine** models any number of engine processes. `phase[e]` is the await a tick
is suspended at; between phases any other actor may act, so what `target` and
`deadline` carry may be stale. `lease` is the value of the Redis key; `Ghost` stands
for a holder id whose process is dead. **RoundLifecycle** is the life cycle without
engines, leases and faults.

**AuthSessions** models the `sessions` table and the credentials in `users` under
login, refresh, logout, logout-all and change password, again one statement per
action. A session, and its refresh token, is named after the call that created it, so
`request[c].session` is both the token of a refresh and the `sid` of an access token.
A hash is a password and whether it was made under older argon2 parameters; a lockout
is never, running or over. `TakeSnapshot`, `RevokeRow` and the `Commit...` actions are
PostgreSQL's UPDATE under READ COMMITTED: it sees what was committed when it starts,
waits for rows others have locked, and leaves alone a row that no longer matches when
its turn comes. What a rotation writes is invisible until COMMIT, so its insert and
update are one action, `CommitRotation`. `seen[c]` is the `failedLoginCount` a login
read before `argon2.verify`.

**RequestGates** models what a request keeps in Redis before its handler runs:
`checkRateLimit` for the address and the username of a login, command by command
(`Increment` is INCR, `SetExpiry` is EXPIRE), and UserStatusGuard with its cached
status. `FailOpen` is Redis not answering, whether or not it has executed the command.
`passed[k]` is a history variable: the calls the counter of `k` let pass in its window.

**SessionApi** is the API as a browser sees it: login, refresh, me and logout as single
steps on the session rows of one player (the statements inside them are AuthSessions'
subject) plus revocation from elsewhere. **WebSession** puts `session.ts` before it:
`wire` holds requests and answers under way, `token` is `accessToken`, `cookie` the
browser's, and `job[t]` says where restore, logout and login of tab `t` are in
`authedRequest`. One step is one turn of the JavaScript thread: the arrival of an
answer with everything its promises go on to do, or an event of the user. Requests
and answers may be lost at any point and the page reloaded at any time.

**Wheel** is `packages/game-core/src/wheel.ts` in whole degrees over a fixed scale.
**GameTable** is the state of `GameTCView`, its phase effects and timers;
**TableBets** its betting handlers; **GameControls** the buttons and cells of the boards,
the tabs, the chip tray and the action bar, each with the condition that disables it and
the handler it calls; **WheelContainer** the rings on the screen; **GameScreen** what
boards, wheel window, action bar and score panel make of the state, the next-state
relation and the properties.
React is modelled by what it guarantees: a click or key is rendered before the next
event; what a timer writes is rendered later by `Render`, until when handlers see the
lock of the last render (`locked`) and the effects of the last rendered phase
(`effects`, `poll`, `resultTimer`) are alive. A phase that does not change runs no
effect. `unaccounted` is a history variable: the part of the play total that no bet
stands for.

A ring's `transform` has two writers, and WheelContainer keeps what it is (`rings`) apart
from what it should be. React writes the resting angle of the rendered digit when that
digit has changed (`Rewritten`), so the render of `setDrawTarget` puts every ring on the
digit drawn; the animation writes the angle of the instant, with the digits and the clock
its effect closed over (`animation`). An effect that starts before the draw has its result
runs on the clock of the draw before (`Started(FALSE)`), until `drawStartTs` changes.
`RenderWheel` is the render of what timers wrote, `Rerender` one for any other reason,
`Frame` an animation frame; frames come when they like, or not at all.

**AuthForms** is what the forms answer, with the calendar arithmetic of the age check.
**PasswordDialog** and **InfoDialog** are the two dialogs as components that stay mounted
while closed: `pass.waiting` and `info.asked` are the calls under way, oldest first. Both
mock services wait a fixed time, so answers come in the order of the calls.
**RoundHistory** is the list of past rounds that scoreboard and history tab share. Both key
their rows by the game's id, which the rounds of one table share; `LeftOver` is which rows
React loses track of, and `strayColumns` and `strayRows` whether such rows are still on the
screen.
**WebPages** joins them with splash, login, sign-up and lobby. `route` is the page on the
screen and `going` the one the router has been asked for: a later request takes its
place, and `Arrive` mounts it, with fresh state, in the same document. `late`, `restore`
and `exit` (the logouts of this lobby and of lobbies left since, counted: the exit button
takes every click) are the promises that outlive the page that started them; a document loaded
anew (`Open`, and the splash screen's `location.replace`) forgets them.

Data is abstracted as follows: ids are named after the call that inserts the row (they
are random UUIDs); texts, times of day, display codes and layout are left out; a
stored status message is one of six. Amounts and balances are integers: the columns
are BIGINT and what a single bet may carry is bounded in BetItems by `MaxSafe`, which
stands for `Number.MAX_SAFE_INTEGER`.

## 3. Runs

| Run | Instance | What it shows |
|---|---|---|
| `bets` | 2 bets, 1 competing debit, 2 players, 2 keys, 1 round, `MaxSafe` 2 | safety of bets and ledger, merged items, that every call ends, and that the service implements `AtomicPoints` |
| `adjust` | 2 adjustments, 1 standalone mutation, 2 players, 2 admins, 2 keys, 1 audit | the same for keys shared in the whole system, adjustments and their logs; a mismatch is a race |
| `rounds` | 2 engines, 1 game, 2 rounds, clock 0..1, 1 fault, one host one unit behind | one live round, numbers in order, implements `RoundLifecycle`; rounds are created, opened and locked in spite of a fault |
| `sessions` | 1 login and 3 calls of any kind, 1 player, 2 passwords, threshold 2, 1 expiry | one successor per token, one live session per login, revocations take effect |
| `reuse` | 1 login, 3 refreshes | *violated*: a session survives the reuse of a token of its chain |
| `rehash` | 2 logins, 1 password change | *violated*: a re-hash brings the old password back |
| `lockout` | 2 logins, threshold 2 | *violated*: that many failures and no lockout |
| `gates` | 2 logins, 1 guarded call, limits 1 (address) and 2 (username) | no window passes more than its limit; a changed status takes hold |
| `limits` | 1 login, the same limits | *violated*: a limited key admits again |
| `web` | 1 tab, 3 sessions over its life | token and cookie agree, no replay without a loss, no signed-in lobby sent away, restores end |
| `game` | 2 numbers per ring, 1 chip, 2 clicked cells, 2 results, 2 times of a poll | stakes, payment, lock, reveal, the rings through renders and frames, and that betting reopens |
| `pages` | 5 pages, 1 login left behind, 2 logouts, 2 password submissions, 2 reports, 2 rounds, 16 sign-up forms | what a page shows is true, the report is that of its dates, pages that were left move nobody, every wait ends |

Why these bounds are enough for the questions asked.

* *Points.* The conflicts are between two calls: for an account, for a key, for a
  round, and between a call and the engine. The instances have two of each kind plus a
  third call of another kind, and requests chosen so that each conflict occurs: the
  same key with the same and with other items (of the same total), the same key from
  another player and another admin, two bets the balance affords only singly, a round
  of the wrong game, a debit competing with the bets, lists whose amounts are safe one
  by one and not together, a selection out of its range. The clock reaches the
  deadline. One audit meets every state of the writers between its two reads.
* *Engine.* A stale read is overtaken by at most the next round, hence two rounds; one
  fault at a time exposes each recovery path. The second engine's host is behind, so
  a round it creates is due at once. The listed run has one game; the proofs have any
  number of engines, games, rounds and faults.
* *AuthSessions.* Three calls after the first login suffice for two rotations of a
  chain and a revocation, or for two racing rotations and a retry. A call is made once,
  so the retry of a lost answer is another call with the same token.
* *Gates.* Two logins race on both counters, and calls that end make room for others,
  so any number follow each other. INCR is told apart up to one past the limit.
* *Web.* One tab runs restore, logout and login at once; three sessions allow a login
  and two rotations, or a second login, with the old session's answers under way.
* *Game.* Two numbers per ring give 2, 4 and 8 cells; one tab change moves the triple
  board's hundred. Lines and random picks reach the cells the clicks do not. Polls come
  between the second ring's stop and the last one's, and at the end of the draw; a frame of
  the animation is of the time the poll saw last (its digits and clock are what can be
  wrong, not the instant). `Wheel` is checked
  at its real size: every ring, every pair of digits, every twentieth of the spin.

* *Pages.* Two answers under way are enough for one to come late, to a dialog that was
  closed and opened or to a date picked since; a third changes nothing. The calendar
  has three dates and the empty field. The sign-up forms are one for each verdict, and
  on either side of the eighteenth birthday; `AgeIsCounted` covers the calendar around
  month ends and 29 February.

Bounds in guards are `MaxClock`, `MaxRounds` (rounds end only while another may
follow), `MaxFaults`, `MaxExpired` (sessions that expire), `MaxAudits`, `Sids` (room
in the session table), `MaxWorth`, `Clicked`, `Draws`, `PollTimes`, `RANDOM_COUNTS`
of the game table (a player with more than `MaxWorth` stops betting), and `MaxLate`,
`MaxExits`, `MaxSubmits`, `MaxReports`, `MaxRounds` and `Signups` of the pages. `WebSession`
has one login and one logout per tab at a time, where the code would start a second of
either for a form mounted again or a second click. There, `Undisturbed` lets
the information dialog and the rounds move only on a table opened by its address, with
no password dialog used and no call under way, and a player who reloads a page for ever
is left out. The instances of
the points service and of `AuthSessions` stop when all calls are done, those of the
gates and of the tab when nobody calls any more; deadlock is not checked there. The
engine, the game table and the pages never stop and deadlock is checked.

Some properties name their exemptions. `StakesAreTheBets` and `MarkedCellsWereWon` leave
the win preview aside, whose figures are made up, and count what REPEAT overwrites in
`unaccounted` (see 5): they say that nothing else drifts, not that REPEAT does not.
`NothingLeftRevealed` leaves out rounds that won. `RingsAreOfTheirDraw` promises nothing
from the start of a draw to its first frame, and lets a previewed result rest under the
pointer. `ScreensTellTheTruth` lets rows stay after a preview, and does not speak of the
messages in the password dialog. `RoundsKeepComing` leaves aside a preview opened in the instant
between the reopening and its render. `PagesKeepTheirPlayer` allows the two moves listed
in 5, and `PagesSettle` says nothing of a lobby's wait while a login of a form left behind
is under way.

### Fairness

`PointsApi!FairSpec`: weak fairness of each call's own progress: Node.js goes on with
a request it has received, PostgreSQL grants a row lock once it is free. Strong
fairness is not needed because each account lock is held by one of finitely many calls,
each of which ends. No fairness for clients, time, faults or the engine.

`RoundEngine!FairSpec`: weak fairness of each engine's steps (`setInterval` keeps
firing, a tick goes on, a stopped process is restarted by its supervisor), of the
expiry of a lease nobody renews (`PX`), and of the recovery of Redis. Faults are
bounded by `MaxFaults`; time need not pass: what is promised is about rounds that are
due. A lease that is being renewed may expire at any time (a slow leader) but
need not.

`RequestGates!FairSpec`: a call that came in is served or dies, and Redis expires a
key that has an expiry. `WebSession!FairSpec`: a request of a restore or a refresh is
served, answered or fails in the end; nothing is assumed of the user. `GameScreen!Spec`:
React renders and timers fire; nothing is assumed of the player, nor of animation frames. `WebPages!Spec`: timers
fire, the router arrives, and logins, restores and password changes are answered; nothing
of the player, who may leave any page at any time.

`AuthSessions` assumes no fairness: every property of it is about what steps do.

## 4. Proofs

Every safety property that a passing run checks (invariant, action property or
refinement) is also a theorem, for every value of the constants that satisfies the named assumptions of the
modules. TLC finds each inductive invariant true on the instance of its run, too (but
for `ChainsInv`, which quantifies over functions of any kind).

| Module | Theorems that state a run's property |
|---|---|
| `PointsApiProofs` | `TypeCorrect`, `ChainCorrect`, `RoundSerialises`, `KeysCorrect`, `DebitsCorrect`, `AdjustmentsCorrect`, `RacesCorrect`, `BetAnswersCorrect`, `AdjustAnswersCorrect`, `AtomicRefinement`, `ItemsCorrect`, `OnlyRacesAreReported` |
| `RoundEngineProofs` | `OneLiveCorrect`, `NumbersCorrect`, `Refinement` |
| `AuthSessionsProofs` | `SessionsTypeCorrect`, `RotationIsExclusive`, `OneLiveSession`, `RevocationsAreComplete` |
| `RequestGatesProofs` | `LimitsAreKeptAlways` |
| `WebSessionProofs` | `TokenCorrect`, `ReplaysCorrect`, `SentAwayCorrect` |
| `GameScreenProofs` | `StakesCorrect`, `MarksCorrect`, `RevealCorrect`, `RingsCorrect`, `SpinsCorrect`, `ConservationCorrect`, `LockCorrect` |
| `WebPagesProofs` | `TruthCorrect`, `ReportCorrect`, `PlayerKept` |

**Points: tables.** `LedgerIsChain` is not inductive: COMMIT appends `token[c]`, read
several steps earlier, so the invariant `IInv` adds that a call between its account
lock and COMMIT holds the account and that its token is what the balance gives now
(`TokensAreCurrent`), that a call's `params` are the mutation its request stands for
and never change (`CallsCarryRequests`), and for bets that round and state are held
from the check to the end (`RoundHeldOpen`). The proof groups the ~35 actions into a
few shapes of change to the ledger variables (`LedgerShapes`) and shows each invariant
kept by each shape.

**Points: records and answers.** `RecordsInv` says of every ledger row, bet and log
which call it is of, and of every bet and log that its row exists: they are committed
together. One row per key rests on `PendingKeysAreFree` (what is inserted and not
committed has a key nobody else has, which is what the unique index's wait achieves).
The bets' own index is checked against committed bets; that no other open transaction has
inserted the same key of that player is proved from the account lock (`InsertedBetsAreNew`). `RacesHaveWinners` is why a call
that met P2002 finds a row when it looks again. `AnswersInv` needs in addition only that
calls answer last, and that tables grow. `AtomicRefinement` maps a COMMIT to the one
abstract step of its kind, an engine step to a round step, and everything else to a
stutter; the step's guard (balance, fresh key, open round) is what the invariants say of
a call at COMMIT.

**Points: sums.** `LedgerSumsToBalance` adds up the chain: what reconciliation computes
is the balance in every state, so a mismatch needs a commit between its two reads
(`OnlyRacesAreReported`). `MergingKeepsTheStake` is about `mergeItems` alone: for lists of any
length the merged amounts and the list's add up to the same; `ItemsCorrect` has from it and
the validation that no sum leaves the safe range. `SumTheorems` proves the facts on
sums that these and the game table need (the sum of a union, of a changed function, of
a reindexed one). Sums are folds, defined by recursion over subsets; that such a
function exists and is unique is proved by taking a least counterexample under the
strict subset order, which is well-founded (`SubsetInduction`), so that no induction
theorem with an operator parameter is needed.

**Engine.** The strengthening is `DraftsInOrder`: an engine about to insert round
n of a game knows that rounds 1 .. n - 1 exist, which stays true because rounds are
never deleted; the unique indexes do the rest.

**Sessions.** From `LockToken` to COMMIT a rotation holds the row lock and the token
stays live (`RotatesLive`); what calls carry fits where they are (`RequestsFit`); every
token, `sid` and snapshot row is a session that exists, created by a call that has ended
(`SessionsAreReal`); a call answers only at its end (`AnswersEnd`). The table changes in
five ways only (`SessionShapes`), and a row moves only forward (`SessionsForward`).
Which login a session descends from is a function defined by recursion along the
refreshes. `ChainsInv` carries that this function exists and is the only one, and that at
most one session of each origin is live: a rotation extends the function by one argument
and moves the live end; a login starts a chain.

**Gates.** That `passed[k]` stays within the limit is not inductive: a login that opened
a window passes only after its EXPIRE, by when others may have counted and passed.
`WindowOK` adds that what passed was counted, that a window whose end is not yet set has
at most one opener, which is counted and not passed, and that only a key that exists
expires, so that a window cannot be reset under its opener.

**Web session.** `Requests` says which promises await which message on the wire (at
most one per slot, one refresh for all who share it); `Knowledge` that what is carried
names sessions that exist and that a 401 under way is still deserved when it arrives;
`Holders` that a session is held by one tab, in its cookie or in one request, that an
answer brings a session nobody else has, and that a rotated cookie is about to be
replaced unless the answer was lost. From these, a step of the API (sessions only age)
and one turn of a tab are shown to keep token and cookie together.

**Game table.** `LockInv` bounds by one second how far a table rendered open lags behind
the countdown, which is why a click in that second still counts and none reaches the
draw; `PollInv` ties the running poll to its phase and result; `RestInv` and `PaidInv` say
which digits the wheel rests on and what a result has paid. `WheelInv` is about the screen:
outside draws nothing animates and the rings rest on the digits rendered (`RestingInv`);
an animation on the polled draw's clock has closed over the digits before the draw and its
result, and the digits rendered are that result, so that no later render touches a ring
(`TurningInv`); and what is on the screen after a frame is that frame (`FrameInv`). All handlers of boards and action bar are
one shape of step (`BetStep`: points move between balance and stake, and the stake stays
that of the bets) or leave bets and points alone (`MinorStep`); the sums over lines,
random picks and whole boards come from `SumTheorems`. `SpinsCorrect` needs no invariant:
it computes the angles of every ring and pair of digits and bounds each twentieth of
the curve.

**Pages.** `NavInv` is what the router, the forms and the lobby know of each other:
where `going` may point, and whose answer is under way. `PasswordTruth` and `LastAskedIsPicked` (the
newest request under way is for the dates picked) are what makes late answers harmless.
`HistoryInv` numbers the rounds settled at this table from the newest row down, and says that
rows share a key only if it is this table's id, which then heads the list (`KeysInv`): a
round pushed in front keeps all of those in place, and only another history can lose one. The age
check is proved over its whole calendar by cases on months and leap years.

Only model-checked: liveness (`EveryCallEnds`, `DueRoundsMove`, `StatusTakesHold`,
`RestoresEnd`, `RoundsKeepComing`, `PagesSettle`): fairness and ENABLED are beyond the
prover. The violated properties of the four findings are refuted by TLC.

## 5. Findings

1. `reuse`: docs/AUTH_V2.md:135 says the reuse of a token revokes the entire chain; a
   rotation in flight adds a session that the revoking UPDATE does not see.
2. `rehash`: docs/AUTH_V2.md:114 calls the re-hash at login transparent; written from a
   row read earlier, it undoes a concurrent change of the password.
3. `lockout`: docs/AUTH_V2.md:176 promises a lockout after 10 failures; failures that
   overlap store the same count.
4. `limits`: docs/AUTH_V2.md:168 gives limits per window; a counter whose EXPIRE was
   lost has no window and, once over its limit, refuses for ever.

Noted while modelling, without a run of their own:

* docs/GAME_ENGINE_V2.md:291 says transitions continue while Redis is down;
  `ensureLeader` answers false (round-scheduler.service.ts:133) and every tick ends
  before it reconciles anything. `DueRoundsMove` therefore needs Redis to come back.
* `now()` is the start of the bet's transaction (bets.service.ts:351), so the
  comparison with `betting_deadline` is not made "at the locked read"
  (docs/POINTS_SYSTEM.md:193).
* docs/GAME_ENGINE_V2.md:292 says all timestamps come from the database;
  `tryCreateRound` takes opening and deadline from the host (rounds.service.ts:119).
* A refresh from a device whose session was revoked long ago counts as reuse and
  revokes the player's new sessions (auth.service.ts:307): any revoked token, not only
  a rotated one.
* A lobby mounted after a login joins a restore begun before it (session.ts:104); if
  that one ends without a session, the player who just signed in is sent to the login
  form.
* The limit of 10 refreshes a minute (docs/AUTH_V2.md section 7) has no code; the key
  it would use is defined and never read.
* After a round that won, `winAmount` is kept (GameTCView.tsx:283) and `isWin` with it
  (652): the table open for bets still shows all digits of the last draw, which the
  comment at 196-198 means to prevent.
* REPEAT over staked cells charges the whole previous stake and overwrites those cells
  (GameTCView.tsx:632-637): their stake is charged and bets on nothing.
* Total Play of the double board misses row 0 (DoubleBoard.tsx:45, 53: `double:05` is
  not the key of cell 5).
* A login whose form was left, and an exit of a lobby that was left, still navigate when
  they answer (LoginForm.tsx:43, LobbyStage.tsx:44), off a running table too. Such a login
  can also take the place of a lobby's redirect to the login form; the lobby then stays
  black.
* The wheel jumps when a draw begins: the render of `setDrawTarget` writes the resting
  angle of each drawn digit (the inline `transform` of WheelContainer.tsx:213, 233, 253),
  and only the first animation frame puts the rings back to where the draw starts. For
  that instant the result is on the screen. `Rewritten` has it.
* A login that succeeds on /register, where AuthStage passes no `onSuccess`, stays there.
* The age check takes dates that do not exist (31 February is 3 March), up to 2030.
* `register` and `changePassword` of the web client call no API, although the API has the
  latter (users.service.ts:88). The answer of a password dialog that was closed is shown
  in the dialog opened next.
* The report's dates are meant to be local (GameInfoModal.tsx:53) and are UTC
  (`toISOString`); the splash screen's progress is not bounded by the time elapsed
  (SplashScreen.tsx:64), only never behind it.
* S NO counts on from the newest row, 1, while the rows a table starts with are numbered
  the other way: numbers repeat (GameTCView.tsx:241).
* Rounds of one table share their game id, which is the React key of their rows in the
  history tab (GameInfoModal.tsx:329) and of the scoreboard's columns
  (ScoreboardPanel.tsx:108). When B replaces the history after two rounds or more (W after
  three), React loses track of rows that share the id, and they stay on the screen beside
  the six of the new history.
* The game page greets PINTU with a fixed opening balance, not the session's.
* W pressed between the reopening and its render leaves the table in RESULT, without a
  timeout, until B is pressed.

## 6. Not modelled, and the plan

* Results and settlement have no implementation. The games read API is one query.
* `register` (one transaction, unique indexes decide races), the admin twins of login
  and logout, AdminStatusGuard, `updateProfile`, paged history reads.
* In the web client: audio, the win video, hover delays, window controls, layout and
  styling, which are most of the lines of the components. Landing and download page are
  static. Two tabs that share a cookie, a session that expires under a tab (to it like
  one revoked), and a request handled after its tab gave up (like one handled before, or
  a revocation elsewhere).
* In WebSession the cookie (an answer's headers) and the token (its body) arrive in one
  step; `apiRequest` awaits the body apart (client.ts:84-94), so between the two
  `TokenGoesWithCookie` does not hold of a tab. What else happens in that gap is not
  explored.
* Answers told apart by nothing any property looks at: the several refusals of
  a locked round (bets.service.ts:356-368) are one answer, an adjustment of an unknown player (404, nothing
  written) is left out, and a failed login's answer is not lost after its UPDATE (the client
  learns nothing from it, and the next login is a call of its own).
* Centipoint parsing and formatting: string conversions with unit tests.
* The admin, desktop and mobile shells and the UI kit keep no state of interest.

Every safety property that a passing run checks is proved. What could be stated and
proved next are the weaker promises that survive the findings: which sessions of a chain
can outlive the reuse of one of its tokens (those of refreshes in flight at that moment,
finding 1), and by how much the failures of overlapping logins can exceed the threshold
(finding 3).
