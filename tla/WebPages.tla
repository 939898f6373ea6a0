------------------------------ MODULE WebPages -------------------------------
(***************************************************************************)
(* The pages of apps/web and the ways from one to another: splash, login    *)
(* and sign-up (AuthStage), the lobby, and the game page with its two       *)
(* dialogs.  What the calls do to the session is WebSession's subject; here *)
(* they answer one way or the other, and a page may have been left since.   *)
(*                                                                         *)
(* `route' is the page on the screen.  The router fetches the page it is    *)
(* asked for (`going') and then mounts it; another request, or the          *)
(* browser's Back, takes the place of one under way.  A page that is loaded *)
(* anew (Open) forgets every call; one that the router mounts does not.     *)
(***************************************************************************)
EXTENDS InfoDialog, PasswordDialog, RoundHistory

CONSTANTS
    CATEGORIES, DrawGames, \* LobbyMainPanel: the categories, the one with games
    Full,                  \* SplashScreen: ticks of its progress bar
    Jumps,                 \* how far ahead of the time a tick may take it
    MaxLate,               \* bound: logins under way on forms no longer there
    MaxExits,              \* bound: logouts awaited at once
    Signups, TodaysDate    \* sign-up forms sent, and the day they are sent

ASSUME PagesAssumption ==
       /\ DrawGames \in CATEGORIES
       /\ Full \in Nat \ {0} /\ Jumps \subseteq Nat /\ MaxLate \in Nat
       /\ MaxExits \in Nat \ {0}

Routes == {"splash", "login", "register", "lobby", "table"}
Nowhere == "nowhere"

VARIABLES
    route, going,
    visited,    \* pages in the history of this document
    splash,     \* SplashScreen: ticks since its start, progress
    auth,       \* AuthStage: screen; LoginForm: status, message; RegisterForm: signup
    lobby,      \* LobbyStage: "waiting" for its session or "shown"
    category,   \* LobbyMainPanel: activeTab
    late,       \* logins of /login whose form is no longer there
    restore,    \* restoreInFlight: who awaits it, this lobby and earlier ones
    exit        \* logouts handleExit awaits: of this lobby, of lobbies left since

view  == <<info, rounds>>
page  == <<splash, auth, lobby, category, pass, view>>
calls == <<late, restore, exit>>
vars  == <<route, going, visited, page, calls>>

Form(screen) == [screen |-> screen, status |-> "IDLE", message |-> "", signup |-> ""]
NoRestore == [mine |-> FALSE, stale |-> FALSE]
NoExit    == [here |-> 0, left |-> 0]

\* A page is mounted with the state it starts from.
Fresh(r) ==
    /\ route' = r
    /\ splash' = [ticks |-> 0, progress |-> 0]
    /\ auth' = Form(IF r = "register" THEN "register" ELSE "login")
    /\ lobby' = "waiting" /\ category' = DrawGames
    /\ pass' = PassClosed /\ info' = InfoMounted /\ HistoryMounted

\* The lobby joins the restore under way, or starts one.
Restoring(r, before) ==
    restore' = [mine |-> r = "lobby", stale |-> before.mine \/ before.stale]

Submitting == auth.status = "SUBMITTING"

\* A form that goes away leaves its call behind; only /login's would still
\* do something with the answer.
LeavesForm == IF Submitting /\ route = "login" THEN late + 1 ELSE late

\* The router mounts another page of the same document.
Mount(r) ==
    /\ Fresh(r)
    /\ visited' = visited \union {r}
    /\ late' = LeavesForm /\ late' <= MaxLate
    /\ Restoring(r, restore)
    /\ exit' = [here |-> 0, left |-> exit.here + exit.left]

\* The browser loads a page: nothing of the document before is left.
Load(r) ==
    /\ Fresh(r) /\ going' = Nowhere /\ visited' = {r}
    /\ late' = 0 /\ Restoring(r, NoRestore) /\ exit' = NoExit

Init == /\ route = "splash" /\ going = Nowhere /\ visited = {"splash"}
        /\ splash = [ticks |-> 0, progress |-> 0]
        /\ auth = Form("login") /\ lobby = "waiting" /\ category = DrawGames
        /\ pass = PassClosed /\ info = InfoMounted
        /\ history = MOCK_HISTORY /\ strayColumns = FALSE
        /\ strayRows = FALSE /\ previewed = FALSE
        /\ late = 0 /\ restore = NoRestore /\ exit = NoExit

-----------------------------------------------------------------------------
(* Navigation.                                                              *)

Arrive ==
    /\ going # Nowhere
    /\ going' = Nowhere
    /\ IF going = route THEN UNCHANGED <<route, visited, page, calls>> ELSE Mount(going)

\* Back and Forward, within what this document has shown.
Traverse(r) == r \in visited \ {route} /\ going' = Nowhere /\ Mount(r)

\* An address is typed.  (A page reloaded is one left and opened again; left
\* out is a player who reloads a page for ever.)
Open(r) == r # route /\ Load(r)

-----------------------------------------------------------------------------
(* Splash: progress is never behind the time.                               *)

Larger(a, b) == IF a >= b THEN a ELSE b
Least(a, b)  == IF a <= b THEN a ELSE b

SplashTick ==
    /\ route = "splash" /\ splash.progress < Full
    /\ \E jump \in Jumps :
          LET ticks == Least(Full, splash.ticks + 1)
          IN  splash' = [ticks |-> ticks,
                         progress |-> Least(Full, Larger(splash.progress + jump, ticks))]
    /\ UNCHANGED <<route, going, visited, auth, lobby, category, pass, view, calls>>

\* 300 ms after it is full: location.replace.
SplashComplete == route = "splash" /\ splash.progress = Full /\ Load("login")

-----------------------------------------------------------------------------
(* Login and sign-up.                                                       *)

OnForm(screen) == route \in {"login", "register"} /\ auth.screen = screen

AuthOnly == UNCHANGED <<route, going, visited, splash, lobby, category, pass, view>>

\* The link is not greyed while a login is under way.
OpenRegister ==
    /\ OnForm("login")
    /\ auth' = Form("register") /\ late' = LeavesForm /\ late' <= MaxLate
    /\ AuthOnly /\ UNCHANGED <<restore, exit>>

CloseRegister == OnForm("register") /\ auth' = Form("login") /\ AuthOnly /\ UNCHANGED calls

\* Typing takes an error's text away; the fields are greyed while submitting.
LoginTyped ==
    /\ OnForm("login") /\ auth.status = "ERROR" /\ auth.message # ""
    /\ auth' = [auth EXCEPT !.message = ""] /\ AuthOnly /\ UNCHANGED calls

SubmitLogin(given) ==
    /\ OnForm("login") /\ ~Submitting
    /\ auth' = IF given THEN [auth EXCEPT !.status = "SUBMITTING", !.message = ""]
               ELSE [auth EXCEPT !.status = "ERROR", !.message = "enter both"]
    /\ AuthOnly /\ UNCHANGED calls

\* onSuccess of /login goes to the lobby; /register passes none.
LoginAnswered(status) ==
    /\ OnForm("login") /\ Submitting
    /\ IF status = 200
       THEN /\ auth' = [auth EXCEPT !.status = "SUCCESS"]
            /\ going' = IF route = "login" THEN "lobby" ELSE going
       ELSE /\ auth' = [auth EXCEPT !.status = "ERROR",
                                    !.message = describeLoginFailure(status)]
            /\ UNCHANGED going
    /\ UNCHANGED <<route, visited, splash, lobby, category, pass, view, calls>>

\* A login whose form is gone still goes to the lobby when it succeeds.
LateLoginAnswered(status) ==
    /\ late > 0 /\ late' = late - 1
    /\ going' = IF status = 200 THEN "lobby" ELSE going
    /\ UNCHANGED <<route, visited, page, restore, exit>>

\* registerUser answers in the same turn of the thread.
SubmitSignup(form) ==
    /\ OnForm("register")
    /\ auth' = [auth EXCEPT !.signup = SignupMessage(TodaysDate, form)]
    /\ AuthOnly /\ UNCHANGED calls

SignupTyped ==
    /\ OnForm("register") /\ auth.signup # ""
    /\ auth' = [auth EXCEPT !.signup = ""] /\ AuthOnly /\ UNCHANGED calls

-----------------------------------------------------------------------------
(* Lobby.                                                                   *)

InLobby == route = "lobby" /\ lobby = "shown"
LobbyOnly == UNCHANGED <<route, visited, splash, auth, view, late>>

RestoreEndsUnguarded(found) ==   \* mutant: a lobby that was left acts on the answer
    /\ restore # NoRestore /\ restore' = NoRestore
    /\ IF found THEN /\ lobby' = IF restore.mine THEN "shown" ELSE lobby
                     /\ UNCHANGED going
       ELSE going' = "login" /\ UNCHANGED lobby
    /\ LobbyOnly /\ UNCHANGED <<category, pass, exit>>

RestoreEndsQuietly(found) ==   \* mutant: a lobby without a session stays
    /\ restore # NoRestore /\ restore' = NoRestore
    /\ lobby' = IF found /\ restore.mine THEN "shown" ELSE lobby
    /\ LobbyOnly /\ UNCHANGED <<going, category, pass, exit>>

\* With a session the lobby is shown, without one (or if the restore failed)
\* the login page is next; a lobby that has been left does nothing.
RestoreEnds(found) ==
    /\ restore # NoRestore /\ restore' = NoRestore
    /\ lobby' = IF found /\ restore.mine THEN "shown" ELSE lobby
    /\ going' = IF ~found /\ restore.mine THEN "login" ELSE going
    /\ LobbyOnly /\ UNCHANGED <<category, pass, exit>>

SelectCategory(c) ==
    /\ InLobby /\ category' = c
    /\ LobbyOnly /\ UNCHANGED <<going, lobby, pass, restore, exit>>

\* The cards of Triple Chance and Triple Chance Pro; Spin2Win opens nothing.
PlayGame ==
    /\ InLobby /\ category = DrawGames /\ ~pass.open
    /\ going' = "table"
    /\ LobbyOnly /\ UNCHANGED <<lobby, category, pass, restore, exit>>

ExitLobby ==
    /\ InLobby /\ ~pass.open /\ exit.here + exit.left < MaxExits
    /\ exit' = [exit EXCEPT !.here = @ + 1]
    /\ LobbyOnly /\ UNCHANGED <<going, lobby, category, pass, restore>>

\* Whatever the logout's fate, and wherever the player is by then.
LoggedOut ==
    /\ \E whose \in {"here", "left"} :
          exit[whose] > 0 /\ exit' = [exit EXCEPT ![whose] = @ - 1]
    /\ going' = "splash"     \* router.push('/'), which redirects there
    /\ LobbyOnly /\ UNCHANGED <<lobby, category, pass, restore>>

-----------------------------------------------------------------------------
(* Game page, and the dialog it shares with the lobby.                      *)

\* The cross of its tab and the exit button: both handleReturnToLobby.
OnTable == route = "table" /\ ~pass.open /\ ~info.open

CloseGameTab ==
    /\ OnTable /\ going' = "lobby"
    /\ UNCHANGED <<route, visited, page, calls>>

ReturnToLobby ==
    /\ OnTable /\ going' = "lobby"
    /\ UNCHANGED <<route, visited, page, calls>>

LobbyKeyButton ==
    /\ InLobby /\ PassOpened
    /\ LobbyOnly /\ UNCHANGED <<going, lobby, category, restore, exit>>

\* Bound: on the table, before its information dialog has been used.
TableKeyButton ==
    /\ route = "table" /\ info = InfoMounted /\ PassOpened
    /\ LobbyOnly /\ UNCHANGED <<going, lobby, category, restore, exit>>

PasswordEvents ==
    /\ PasswordStep
    /\ LobbyOnly /\ UNCHANGED <<going, lobby, category, restore, exit>>

\* Bound: the report is looked at on a table opened by its address, with no
\* password dialog used and nothing else under way.
Undisturbed == visited = {"table"} /\ going = Nowhere /\ pass = PassClosed

InfoButton ==
    /\ Undisturbed /\ InfoOpened /\ HistoryTabIs(ShowsHistory')
    /\ UNCHANGED <<route, going, visited, splash, auth, lobby, category, pass, calls>>

InfoEvents ==
    /\ Undisturbed /\ InfoStep /\ HistoryTabIs(ShowsHistory')
    /\ UNCHANGED <<route, going, visited, splash, auth, lobby, category, pass, calls>>

\* The table plays on, with the dialog open or not.
RoundEvents ==
    /\ Undisturbed /\ HistoryStep(ShowsHistory)
    /\ UNCHANGED <<route, going, visited, splash, auth, lobby, category, pass, info, calls>>

-----------------------------------------------------------------------------
Login == \/ OpenRegister \/ LoginTyped \/ \E given \in BOOLEAN : SubmitLogin(given)
         \/ \E s \in Statuses : LoginAnswered(s) \/ LateLoginAnswered(s)
Signup == CloseRegister \/ SignupTyped \/ \E form \in Signups : SubmitSignup(form)
Lobby == \/ \E found \in BOOLEAN : RestoreEnds(found)
         \/ \E c \in CATEGORIES : SelectCategory(c)
         \/ PlayGame \/ ExitLobby \/ LoggedOut
Table == CloseGameTab \/ ReturnToLobby \/ InfoButton \/ InfoEvents \/ RoundEvents

Next == \/ Arrive \/ \E r \in Routes : Traverse(r) \/ Open(r)
        \/ SplashTick \/ SplashComplete
        \/ Login \/ Signup \/ Lobby \/ LobbyKeyButton \/ TableKeyButton \/ PasswordEvents \/ Table

\* Timers fire, calls are answered and the router gets to the page asked for;
\* nothing is assumed of the player.
Spec == /\ Init /\ [][Next]_vars
        /\ WF_vars(SplashTick) /\ WF_vars(SplashComplete) /\ WF_vars(Arrive)
        /\ WF_vars(\E s \in Statuses : LoginAnswered(s))
        /\ WF_vars(\E found \in BOOLEAN : RestoreEnds(found))
        /\ WF_vars(PassAnswered /\ PasswordEvents)
-----------------------------------------------------------------------------
\* The verdict of the sign-up form is that of the calendar: eighteen years
\* after the day of birth, itself or the day that follows where the calendar
\* has no such day, has come.  (Days around month ends, leap days included.)
Order(date) == date.year * 400 + date.month * 32 + date.day
SomeDays == {b \in [year: {2007, 2008, 2026}, month: {1, 2, 3, 6, 12}, day: 1..31] : TRUE}
AgeIsCounted ==
    \A today \in {d \in SomeDays : d.year = 2026 /\ d.day <= DaysIn(2026, d.month)},
      b \in {d \in SomeDays : d.year # 2026} :
       LET birth == JsDate(b.year, b.month, b.day)
       IN  validateAge(today, b)
              <=> Order(JsDate(birth.year + 18, birth.month, birth.day)) <= Order(today)

\* What a page shows is true: a form whose login succeeded on /login is being
\* left, a password dialog that submits has a submission of its own under way,
\* the scoreboard and the history tab show the last six rounds and no other,
\* but after a preview, and the sign-up form counts the age as the calendar
\* does.
ScreensTellTheTruth ==
    /\ route = "login" /\ auth.status = "SUCCESS" => going # Nowhere
    /\ PasswordTruth /\ HistoryTruth
    /\ AgeIsCounted

\* A page is left by its own doing.  Nobody is sent to the login form but
\* from a lobby that waits for its session, whatever restores of earlier
\* lobbies answer; to the lobby, but by the form on the screen or from the
\* table; to the splash screen, but by that lobby's exit.  The known gap: a
\* login whose form is gone, and an exit of a lobby since left, still move
\* the player, off the table too.
PagesKeepTheirPlayer ==
    [][going' \notin {going, Nowhere} =>
          CASE going' = "login"  -> route = "lobby" /\ lobby = "waiting"
            [] going' = "lobby"  -> late > 0 \/ route = "table"
                                    \/ (route = "login" /\ Submitting)
            [] going' = "splash" -> exit.left > 0 \/ InLobby
            [] going' = "table"  -> InLobby]_vars

\* Nothing waits for ever: the splash screen ends, a submitted login or
\* password change is answered, and a lobby is shown or left.  (Where a login
\* left behind answers while a lobby is sent to the login form, its push to
\* the lobby takes the place of that, and the lobby stays black.)
PagesSettle ==
    /\ route = "splash" ~> route # "splash"
    /\ Submitting ~> ~Submitting
    /\ pass.status = "SUBMITTING" ~> pass.status # "SUBMITTING"
    /\ restore.mine /\ late = 0 ~> route # "lobby" \/ lobby = "shown"
=============================================================================
