--------------------------- MODULE WebPagesProofs ----------------------------
(***************************************************************************)
(* Proofs about the pages of the web client: what a page shows of a call   *)
(* is true of the call, the report on the screen is that of the dates      *)
(* chosen, and a page is left by its own doing.                            *)
(*                                                                         *)
(* The information dialog, the password dialog and the round history are   *)
(* moved by the pages in a few ways only (their own steps, being opened,   *)
(* being mounted anew); each has an invariant of its own, proved for those *)
(* moves.  The pages' invariant is about the router and the forms.         *)
(***************************************************************************)
EXTENDS WebPages, SequenceTheorems, TLAPS

InfoMoves == InfoOpened \/ InfoStep \/ info' = InfoMounted \/ info' = info
PassMoves == PassOpened \/ PasswordStep \/ pass' = PassClosed \/ pass' = pass
HistoryMoves ==
  \/ \E shown : HistoryStep(shown) \/ HistoryTabIs(shown)
  \/ HistoryMounted \/ UNCHANGED rounds

LEMMA EveryStepMoves ==
  ASSUME [Next]_vars
  PROVE  InfoMoves /\ PassMoves /\ HistoryMoves
<1>1. ASSUME NEW r, Fresh(r)
      PROVE  InfoMoves /\ PassMoves /\ HistoryMoves
  BY <1>1 DEF Fresh, InfoMoves, PassMoves, HistoryMoves
<1>2. CASE Arrive
  BY <1>1, <1>2 DEF Arrive, Mount, page, view, InfoMoves, PassMoves, HistoryMoves
<1>3. CASE \E r \in Routes : Traverse(r) \/ Open(r)
  BY <1>1, <1>3 DEF Traverse, Open, Mount, Load
<1>4. CASE SplashTick \/ SplashComplete
  BY <1>1, <1>4 DEF SplashTick, SplashComplete, Load, view, InfoMoves, PassMoves, HistoryMoves
<1>5. CASE Login
  BY <1>5 DEF Login, OpenRegister, LoginTyped, SubmitLogin, LoginAnswered, LateLoginAnswered,
              AuthOnly, page, view, InfoMoves, PassMoves, HistoryMoves
<1>6. CASE Signup
  BY <1>6 DEF Signup, CloseRegister, SignupTyped, SubmitSignup, AuthOnly, view,
              InfoMoves, PassMoves, HistoryMoves
<1>7. CASE Lobby
  BY <1>7 DEF Lobby, RestoreEnds, SelectCategory, PlayGame, ExitLobby, LoggedOut, LobbyOnly, view,
              InfoMoves, PassMoves, HistoryMoves
<1>8. CASE LobbyKeyButton \/ TableKeyButton \/ PasswordEvents
  BY <1>8 DEF LobbyKeyButton, TableKeyButton, PasswordEvents, LobbyOnly, view,
              InfoMoves, PassMoves, HistoryMoves
<1>9. CASE Table
  BY <1>9 DEF Table, CloseGameTab, ReturnToLobby, InfoButton, InfoEvents, RoundEvents, page, view,
              InfoMoves, PassMoves, HistoryMoves
<1>10. CASE UNCHANGED vars
  BY <1>10 DEF vars, page, view, InfoMoves, PassMoves, HistoryMoves
<1> QED BY <1>2, <1>3, <1>4, <1>5, <1>6, <1>7, <1>8, <1>9, <1>10 DEF Next

-----------------------------------------------------------------------------
(* The information dialog                                                  *)

InfoTypeOK ==
  info \in [open: BOOLEAN, activeTab: {"history", "report"},
            fromDate: Dates, toDate: Dates,
            reportRows: Seq(Dates), asked: Seq(Dates \X Dates)]

\* The report last asked for, or on the screen if none is under way, is that
\* of the dates chosen.
LastAskedIsPicked ==
  ShowsReport =>
    IF info.asked = <<>> THEN info.reportRows = fetchDailyReport(Picked(info))
    ELSE info.asked[Len(info.asked)] = Picked(info)

InfoInv == InfoTypeOK /\ LastAskedIsPicked

LEMMA DatesHaveToday == Today \in Dates /\ Dates \subseteq Int
  BY InfoAssumption DEF Dates

LEMMA InfoMountedFits ==
  /\ InfoMounted \in [open: BOOLEAN, activeTab: {"history", "report"},
                      fromDate: Dates, toDate: Dates,
                      reportRows: Seq(Dates), asked: Seq(Dates \X Dates)]
  /\ ~InfoMounted.open
  BY DatesHaveToday DEF InfoMounted

LEMMA LastAppended ==
  ASSUME NEW S, NEW s \in Seq(S), NEW e \in S
  PROVE  Append(s, e) # <<>> /\ Append(s, e)[Len(Append(s, e))] = e
  OBVIOUS

\* What a render does to a dialog whose state has changed.
LEMMA RenderedKeeps ==
  ASSUME InfoInv,
         NEW i \in [open: BOOLEAN, activeTab: {"history", "report"},
                    fromDate: Dates, toDate: Dates,
                    reportRows: Seq(Dates), asked: Seq(Dates \X Dates)],
         i.asked = info.asked, i.reportRows = info.reportRows,
         InfoChanges(i)
  PROVE  InfoInv'
<1> DEFINE shows == i.open /\ i.activeTab = "report"
           changed == ~ShowsReport \/ Picked(i) # Picked(info)
<1>1. info' = IF shows /\ changed THEN [i EXCEPT !.asked = Append(@, Picked(i))] ELSE i
  BY DEF InfoChanges, Rendered, ShowsReport
<1>2. Picked(i) \in Dates \X Dates /\ i.asked \in Seq(Dates \X Dates)
  BY DEF Picked
<1>3. CASE shows /\ changed
  <2>1. info' = [i EXCEPT !.asked = Append(i.asked, Picked(i))]
    BY <1>1, <1>3
  <2>2. Append(i.asked, Picked(i)) \in Seq(Dates \X Dates)
    BY <1>2
  <2>3. InfoTypeOK'
    BY <2>1, <2>2 DEF InfoTypeOK
  <2>4. info'.asked = Append(i.asked, Picked(i)) /\ Picked(info)' = Picked(i)
    BY <2>1 DEF Picked
  <2>5. info'.asked # <<>> /\ info'.asked[Len(info'.asked)] = Picked(i)
    <3> DEFINE asked == Append(i.asked, Picked(i))
    <3>1. asked # <<>> /\ asked[Len(asked)] = Picked(i)
      <4> DEFINE Ranges == Dates \X Dates
      <4>1. i.asked \in Seq(Ranges) /\ Picked(i) \in Ranges
        BY <1>2
      <4> HIDE DEF Ranges
      <4> QED BY <4>1, LastAppended
    <3> HIDE DEF asked
    <3>2. info'.asked = asked
      BY <2>4 DEF asked
    <3> QED BY <3>1, <3>2, Zenon
  <2> QED BY <2>3, <2>4, <2>5 DEF InfoInv, LastAskedIsPicked
<1>4. CASE ~(shows /\ changed)
  <2>1. info' = i
    BY <1>1, <1>4
  <2>2. InfoTypeOK'
    BY <2>1 DEF InfoTypeOK
  <2>3. CASE ~shows
    BY <2>1, <2>2, <2>3 DEF InfoInv, LastAskedIsPicked, ShowsReport
  <2>4. CASE ShowsReport /\ Picked(i) = Picked(info)
    <3>1. Picked(info)' = Picked(info) /\ info'.asked = info.asked /\ info'.reportRows = info.reportRows
      BY <2>1, <2>4 DEF Picked
    <3> QED BY <2>2, <2>4, <3>1 DEF InfoInv, LastAskedIsPicked
  <2> QED BY <1>4, <2>3, <2>4
<1> QED BY <1>3, <1>4

LEMMA FetchType ==
  ASSUME NEW range \in Dates \X Dates
  PROVE  fetchDailyReport(range) \in Seq(Dates)
  BY DEF fetchDailyReport

LEMMA ViewKeeps ==
  ASSUME InfoInv, View
  PROVE  InfoInv'
<1> DEFINE more == Append(info.asked, Picked(info))
<1>1. info' = [info EXCEPT !.asked = more]
  BY DEF View
<1>2. Picked(info) \in Dates \X Dates /\ info.asked \in Seq(Dates \X Dates)
  BY DEF InfoInv, InfoTypeOK, Picked
<1>3. more \in Seq(Dates \X Dates) /\ more # <<>> /\ more[Len(more)] = Picked(info)
  <2>1. more \in Seq(Dates \X Dates)
    BY <1>2
  <2>2. more # <<>> /\ more[Len(more)] = Picked(info)
    BY <1>2, LastAppended, Zenon
  <2> QED BY <2>1, <2>2
<1> HIDE DEF more
<1>4. InfoTypeOK'
  BY <1>1, <1>3 DEF InfoInv, InfoTypeOK
<1>5. info'.asked = more /\ Picked(info)' = Picked(info)
  BY <1>1 DEF InfoInv, InfoTypeOK, Picked
<1> QED BY <1>3, <1>4, <1>5 DEF InfoInv, LastAskedIsPicked

LEMMA ReportArrivesKeeps ==
  ASSUME InfoInv, ReportArrives
  PROVE  InfoInv'
<1> DEFINE rows == fetchDailyReport(Head(info.asked))
           rest == Tail(info.asked)
<1>1. info' = [info EXCEPT !.reportRows = rows, !.asked = rest] /\ info.asked # <<>>
  BY DEF ReportArrives
<1>2. info.asked \in Seq(Dates \X Dates)
  BY DEF InfoInv, InfoTypeOK
<1>3. Head(info.asked) \in Dates \X Dates /\ rest \in Seq(Dates \X Dates)
  BY <1>1, <1>2
<1>4. rows \in Seq(Dates)
  BY <1>3, FetchType
<1>5. rest = <<>> => Head(info.asked) = info.asked[Len(info.asked)]
  <2>1. Len(rest) = Len(info.asked) - 1 /\ Len(info.asked) \in Nat /\ Head(info.asked) = info.asked[1]
    BY <1>1, <1>2
  <2>2. rest = <<>> => Len(rest) = 0
    <3> HIDE DEF rest
    <3> QED BY EmptySeq
  <2> HIDE DEF rest
  <2>3. rest = <<>> => Len(info.asked) = 1
    BY <2>1, <2>2
  <2> QED BY <2>1, <2>3
<1>6. rest # <<>> => rest[Len(rest)] = info.asked[Len(info.asked)]
  BY <1>1, <1>2
<1>7. info'.asked = rest /\ info'.reportRows = rows /\ Picked(info)' = Picked(info)
      /\ ShowsReport' = ShowsReport
  <2> HIDE DEF rows, rest
  <2> QED BY <1>1 DEF InfoInv, InfoTypeOK, Picked, ShowsReport
<1>8. InfoTypeOK'
  <2> HIDE DEF rows, rest
  <2> QED BY <1>1, <1>3, <1>4 DEF InfoInv, InfoTypeOK
<1> HIDE DEF rest
<1>9. LastAskedIsPicked'
  BY <1>1, <1>5, <1>6, <1>7 DEF InfoInv, LastAskedIsPicked
<1> QED BY <1>8, <1>9 DEF InfoInv

LEMMA InfoKeeps ==
  ASSUME InfoInv, InfoMoves
  PROVE  InfoInv'
<1> DEFINE Info == [open: BOOLEAN, activeTab: {"history", "report"},
                    fromDate: Dates, toDate: Dates,
                    reportRows: Seq(Dates), asked: Seq(Dates \X Dates)]
<1>0. info \in Info
  BY DEF InfoInv, InfoTypeOK
<1>1. CASE info' = InfoMounted
  BY <1>1, InfoMountedFits DEF InfoInv, InfoTypeOK, LastAskedIsPicked, ShowsReport
<1>2. CASE info' = info
  BY <1>2 DEF InfoInv, InfoTypeOK, LastAskedIsPicked, ShowsReport, Picked
<1>3. ASSUME NEW open \in BOOLEAN, InfoChanges([info EXCEPT !.open = open])
      PROVE  InfoInv'
  <2> DEFINE i == [info EXCEPT !.open = open]
  <2>1. i \in Info /\ i.asked = info.asked /\ i.reportRows = info.reportRows
    BY <1>0
  <2> QED BY <1>3, <2>1, RenderedKeeps
<1>4. ASSUME NEW tab \in {"history", "report"}, InfoChanges([info EXCEPT !.activeTab = tab])
      PROVE  InfoInv'
  <2> DEFINE i == [info EXCEPT !.activeTab = tab]
  <2>1. i \in Info /\ i.asked = info.asked /\ i.reportRows = info.reportRows
    BY <1>0
  <2> QED BY <1>4, <2>1, RenderedKeeps
<1>5. ASSUME NEW d \in Dates, InfoChanges([info EXCEPT !.fromDate = d])
      PROVE  InfoInv'
  <2> DEFINE i == [info EXCEPT !.fromDate = d]
  <2>1. i \in Info /\ i.asked = info.asked /\ i.reportRows = info.reportRows
    BY <1>0
  <2> QED BY <1>5, <2>1, RenderedKeeps
<1>6. ASSUME NEW d \in Dates, InfoChanges([info EXCEPT !.toDate = d])
      PROVE  InfoInv'
  <2> DEFINE i == [info EXCEPT !.toDate = d]
  <2>1. i \in Info /\ i.asked = info.asked /\ i.reportRows = info.reportRows
    BY <1>0
  <2> QED BY <1>6, <2>1, RenderedKeeps
<1> QED BY <1>1, <1>2, <1>3, <1>4, <1>5, <1>6, ViewKeeps, ReportArrivesKeeps
        DEF InfoMoves, InfoOpened, InfoStep, InfoClosed, InfoEscape, InfoBackdrop, HistoryTab, ReportTab,
            PickFrom, PickTo

-----------------------------------------------------------------------------
(* The password dialog                                                     *)

PassTexts == {"", "enter current", "enter new", "at least 6 characters", "do not match", "not connected"}

PassState == [open: BOOLEAN, status: {"IDLE", "SUBMITTING", "ERROR"},
              message: PassTexts, waiting: Seq(BOOLEAN)]

PassTypeOK == pass \in PassState

LEMMA ProblemType ==
  ASSUME NEW input \in PasswordInputs
  PROVE  PasswordProblem(input) \in PassTexts
  BY DEF PasswordInputs, PasswordProblem, PassTexts

LEMMA PassKeeps ==
  ASSUME PassTypeOK, PasswordTruth, PassMoves
  PROVE  PassTypeOK' /\ PasswordTruth'
<1>1. CASE PassOpened
  <2> DEFINE waiting == [i \in DOMAIN pass.waiting |-> FALSE]
  <2>1. pass' = [pass EXCEPT !.open = TRUE, !.status = "IDLE", !.message = "", !.waiting = waiting]
    BY <1>1 DEF PassOpened
  <2>2. waiting \in Seq(BOOLEAN)
    <3>1. pass.waiting \in Seq(BOOLEAN)
      BY DEF PassTypeOK, PassState
    <3>2. Len(pass.waiting) \in Nat /\ DOMAIN pass.waiting = 1..Len(pass.waiting)
      BY <3>1, LenProperties
    <3>3. \A n \in Nat : [i \in 1..n |-> FALSE] \in Seq(BOOLEAN)
      OBVIOUS
    <3>4. [i \in 1..Len(pass.waiting) |-> FALSE] \in Seq(BOOLEAN)
      BY <3>2, <3>3
    <3> QED BY <3>2, <3>4
  <2> HIDE DEF waiting
  <2> QED BY <2>1, <2>2 DEF PassTypeOK, PassState, PassTexts, PasswordTruth
<1>2. CASE PassTyped
  BY <1>2 DEF PassTyped, PassTypeOK, PassState, PassTexts, PasswordTruth
<1>3. CASE PassAnswered
  <2> DEFINE rest == Tail(pass.waiting)
  <2>1. changePassword("good") \in PassTexts
    BY DEF changePassword, PasswordProblem, PassTexts
  <2>2. pass' = [pass EXCEPT !.status = "ERROR", !.message = changePassword("good"), !.waiting = rest]
    BY <1>3 DEF PassAnswered
  <2>3. rest \in Seq(BOOLEAN)
    BY <1>3 DEF PassAnswered, PassTypeOK, PassState
  <2> HIDE DEF rest
  <2> QED BY <2>1, <2>2, <2>3 DEF PassTypeOK, PassState, PassTexts, PasswordTruth
<1>4. ASSUME NEW input \in PasswordInputs, PassSubmitted(input)
      PROVE  PassTypeOK' /\ PasswordTruth'
  <2>1. CASE PasswordProblem(input) # ""
    <3> DEFINE problem == PasswordProblem(input)
    <3>1. pass' = [pass EXCEPT !.status = "ERROR", !.message = problem] /\ problem \in PassTexts
      BY <1>4, <2>1, ProblemType DEF PassSubmitted
    <3> HIDE DEF problem
    <3> QED BY <3>1 DEF PassTypeOK, PassState, PassTexts, PasswordTruth
  <2>2. CASE PasswordProblem(input) = ""
    <3> DEFINE more == Append(pass.waiting, TRUE)
    <3>1. pass' = [pass EXCEPT !.status = "SUBMITTING", !.message = "", !.waiting = more]
      BY <1>4, <2>2 DEF PassSubmitted
    <3>2. pass.waiting \in Seq(BOOLEAN)
      BY DEF PassTypeOK, PassState
    <3>3. more \in Seq(BOOLEAN) /\ Len(pass.waiting) + 1 \in DOMAIN more
          /\ more[Len(pass.waiting) + 1] = TRUE
      BY <3>2
    <3> HIDE DEF more
    <3>4. PassTypeOK'
      BY <3>1, <3>3 DEF PassTypeOK, PassState, PassTexts
    <3>5. pass'.waiting = more /\ pass'.message = ""
      BY <3>1 DEF PassTypeOK, PassState
    <3>6. \E i \in DOMAIN pass'.waiting : pass'.waiting[i]
      BY <3>3, <3>5
    <3> QED BY <3>4, <3>5, <3>6 DEF PasswordTruth
  <2> QED BY <2>1, <2>2
<1>5. CASE PassCancel \/ PassEscape \/ PassBackdrop
  BY <1>5 DEF PassCancel, PassEscape, PassBackdrop, PassTypeOK, PassState, PassTexts, PasswordTruth
<1>6. CASE pass' = PassClosed
  <2>1. <<>> \in Seq(BOOLEAN)
    BY EmptySeq
  <2> QED BY <1>6, <2>1 DEF PassClosed, PassTypeOK, PassState, PassTexts, PasswordTruth
<1>7. CASE pass' = pass
  BY <1>7 DEF PassTypeOK, PassState, PassTexts, PasswordTruth
<1> QED BY <1>1, <1>2, <1>3, <1>4, <1>5, <1>6, <1>7 DEF PassMoves, PasswordStep

-----------------------------------------------------------------------------
(* The rounds                                                              *)

Rows == [sno: Nat, gameId: Nat, triple: Nat]

\* Six rows, of which those settled on this table are numbered in one row.
RowsInv ==
  /\ history \in Seq(Rows)
  /\ Len(history) = 6
  /\ \A i \in 1..6 : i <= history[1].sno => history[i].sno = history[1].sno - (i - 1)

\* Only the table's own id is shared, and its rows come before all others.
KeysInv ==
  /\ \A i, j \in 1..6 : i < j /\ history[i].gameId = history[j].gameId => history[j].gameId = GameId
  /\ \A i, j \in 1..6 : i <= j /\ history[j].gameId = GameId => history[i].gameId = GameId

HistoryInv == RowsInv /\ KeysInv /\ (strayColumns \/ strayRows => previewed)

LEMMA FirstRows ==
  ASSUME RowsInv
  PROVE  /\ SubSeq(history, 1, 5) \in Seq(Rows)
         /\ Len(SubSeq(history, 1, 5)) = 5
         /\ \A i \in 1..5 : SubSeq(history, 1, 5)[i] = history[i]
<1>1. \A i \in 1..5 : history[i] \in Rows
  <2>1. history \in [1..6 -> Rows]
    BY LenProperties DEF RowsInv
  <2> QED BY <2>1
<1>2. /\ SubSeq(history, 1, 5) \in Seq(Rows)
      /\ Len(SubSeq(history, 1, 5)) = 5 - 1 + 1
      /\ \A i \in 1..(5 - 1 + 1) : SubSeq(history, 1, 5)[i] = history[1 + i - 1]
  <2> DEFINE R == Rows
             h == history
  <2>1. 1 \in Int /\ 5 \in Int /\ 1 <= 5 /\ \A i \in 1..5 : h[i] \in R
    BY <1>1
  <2> HIDE DEF R, h
  <2>2. /\ SubSeq(h, 1, 5) \in Seq(R)
        /\ Len(SubSeq(h, 1, 5)) = 5 - 1 + 1
        /\ \A i \in 1..(5 - 1 + 1) : SubSeq(h, 1, 5)[i] = h[1 + i - 1]
    BY <2>1, SubSeqProperties
  <2> QED BY <2>2 DEF R, h
<1> QED BY <1>2

LEMMA NewRows ==
  ASSUME NEW first \in Rows, NEW rest \in Seq(Rows), Len(rest) = 5
  PROVE  /\ <<first>> \o rest \in Seq(Rows)
         /\ Len(<<first>> \o rest) = 6
         /\ (<<first>> \o rest)[1] = first
         /\ \A i \in 2..6 : (<<first>> \o rest)[i] = rest[i - 1]
<1> DEFINE R == Rows
           one == <<first>>
<1>1. one \in Seq(R) /\ Len(one) = 1 /\ one[1] = first
  OBVIOUS
<1>2. rest \in Seq(R)
  OBVIOUS
<1> HIDE DEF R, one
<1>3. /\ one \o rest \in Seq(R) /\ Len(one \o rest) = Len(one) + Len(rest)
      /\ \A i \in 1..(Len(one) + Len(rest)) :
            (one \o rest)[i] = IF i <= Len(one) THEN one[i] ELSE rest[i - Len(one)]
  BY <1>1, <1>2, ConcatProperties
<1>4. /\ one \o rest \in Seq(R) /\ Len(one \o rest) = 6 /\ (one \o rest)[1] = first
      /\ \A i \in 2..6 : (one \o rest)[i] = rest[i - 1]
  <2>1. Len(one) = 1 /\ Len(one) + Len(rest) = 6
    BY <1>1
  <2>2. \A i \in 1..6 : (one \o rest)[i] = IF i <= 1 THEN one[i] ELSE rest[i - 1]
    BY <1>3, <2>1
  <2>3. one \o rest \in Seq(R) /\ Len(one \o rest) = 6
    BY <1>3, <2>1
  <2>4. (one \o rest)[1] = one[1]
    BY <2>2, 1 \in 1..6
  <2>5. ASSUME NEW i \in 2..6
        PROVE  (one \o rest)[i] = rest[i - 1]
    <3>1. i \in 1..6 /\ ~(i <= 1)
      OBVIOUS
    <3> QED BY <2>2, <3>1
  <2> QED BY <1>1, <2>3, <2>4, <2>5
<1> QED BY <1>4 DEF R, one

LEMMA MockRows ==
  /\ MOCK_HISTORY \in Seq(Rows)
  /\ Len(MOCK_HISTORY) = 6 /\ MOCK_HISTORY[1].sno = 1
  /\ \A i \in 1..6 : MOCK_HISTORY[i].gameId = 694 - i
  BY DEF MOCK_HISTORY, Row, Rows

LEMMA WinRows ==
  /\ WIN_HISTORY \in Seq(Rows)
  /\ Len(WIN_HISTORY) = 6 /\ WIN_HISTORY[1].sno = 1
  /\ \A i \in 1..6 : WIN_HISTORY[i].gameId = 695 - i
<1> DEFINE rest == SubSeq(MOCK_HISTORY, 1, 5)
           first == Row(1, 694, 131)
<1>1. rest \in Seq(Rows) /\ Len(rest) = 5 /\ \A i \in 1..5 : rest[i].gameId = 694 - i
  <2> DEFINE R == Rows
             mock == MOCK_HISTORY
  <2>1. 1 \in Int /\ 5 \in Int /\ 1 <= 5 /\ \A i \in 1..5 : mock[i] \in R
    BY DEF MOCK_HISTORY, Row, Rows
  <2>2. \A i \in 1..5 : mock[i].gameId = 694 - i
    BY MockRows
  <2> HIDE DEF R, mock
  <2>3. SubSeq(mock, 1, 5) \in Seq(R) /\ Len(SubSeq(mock, 1, 5)) = 5 - 1 + 1
        /\ \A i \in 1..(5 - 1 + 1) : SubSeq(mock, 1, 5)[i] = mock[1 + i - 1]
    BY <2>1, SubSeqProperties
  <2>4. \A i \in 1..5 : SubSeq(mock, 1, 5)[i].gameId = 694 - i
    BY <2>2, <2>3
  <2> QED BY <2>3, <2>4 DEF R, mock
<1>2. first \in Rows /\ first.sno = 1 /\ first.gameId = 694
  BY DEF Row, Rows
<1> HIDE DEF first, rest
<1>3. /\ <<first>> \o rest \in Seq(Rows)
      /\ Len(<<first>> \o rest) = 6 /\ (<<first>> \o rest)[1] = first
      /\ \A i \in 2..6 : (<<first>> \o rest)[i] = rest[i - 1]
  BY <1>1, <1>2, NewRows
<1>4. \A i \in 2..6 : (<<first>> \o rest)[i].gameId = 695 - i
  <2>1. \A i \in 2..6 : i - 1 \in 1..5 /\ 694 - (i - 1) = 695 - i
    OBVIOUS
  <2> QED BY <1>1, <1>3, <2>1
<1>5. \A i \in 1..6 : (<<first>> \o rest)[i].gameId = 695 - i
  <2>1. \A i \in 1..6 : i = 1 \/ i \in 2..6
    OBVIOUS
  <2> QED BY <1>2, <1>3, <1>4, <2>1
<1> QED BY <1>2, <1>3, <1>5 DEF WIN_HISTORY, first, rest

LEMMA FreshRows ==
  ASSUME history' = MOCK_HISTORY \/ history' = WIN_HISTORY
  PROVE  RowsInv' /\ KeysInv'
<1>1. history' \in Seq(Rows) /\ Len(history') = 6 /\ history'[1].sno = 1
  BY MockRows, WinRows
<1>2. \A i \in 1..6 : i <= 1 => i = 1
  OBVIOUS
<1>3. PICK top \in {694, 695} : \A i \in 1..6 : history'[i].gameId = top - i
  <2>1. CASE history' = MOCK_HISTORY
    <3>1. \A i \in 1..6 : history'[i].gameId = 694 - i
      BY <2>1, MockRows
    <3> QED BY <3>1
  <2>2. CASE history' = WIN_HISTORY
    <3>1. \A i \in 1..6 : history'[i].gameId = 695 - i
      BY <2>2, WinRows
    <3> QED BY <3>1
  <2> QED BY <2>1, <2>2
<1>4. \A i, j \in 1..6 : i < j => history'[i].gameId # history'[j].gameId
  BY <1>3
<1>5. \A j \in 1..6 : history'[j].gameId = GameId => j = 1
  <2>1. \A j \in 1..6 : j # 1 => top - j \in 688..693
    BY <1>3
  <2> QED BY <1>3, <2>1, HistoryAssumption
<1>6. \A i, j \in 1..6 : i <= j /\ j = 1 => i = 1
  OBVIOUS
<1> QED BY <1>1, <1>2, <1>4, <1>5, <1>6 DEF RowsInv, KeysInv

\* A round is put before the others; the last of six goes.
LEMMA RoundShifts ==
  ASSUME RowsInv, NEW triple \in Draws, NEW shown, RoundSettled(triple, shown)
  PROVE  /\ history' \in Seq(Rows) /\ Len(history') = 6
         /\ history[1].sno \in Nat
         /\ history'[1].sno = history[1].sno + 1 /\ history'[1].gameId = GameId
         /\ \A i \in 2..6 : history'[i] = history[i - 1]
<1> DEFINE first == Row(history[1].sno + 1, GameId, triple)
           rest  == SubSeq(history, 1, 5)
<1>1. history' = <<first>> \o rest
  BY DEF RoundSettled, HistoryBecomes
<1>2. history[1].sno \in Nat
  <2>1. history \in [1..6 -> Rows]
    BY LenProperties DEF RowsInv
  <2>2. history[1] \in Rows
    BY <2>1
  <2> QED BY <2>2 DEF Rows
<1>3. first \in Rows /\ first.sno = history[1].sno + 1 /\ first.gameId = GameId
  BY <1>2, HistoryAssumption DEF Row, Rows
<1>4. rest \in Seq(Rows) /\ Len(rest) = 5 /\ \A i \in 1..5 : rest[i] = history[i]
  BY FirstRows
<1> HIDE DEF first, rest
<1>5. /\ history' \in Seq(Rows) /\ Len(history') = 6
      /\ history'[1] = first /\ \A i \in 2..6 : history'[i] = rest[i - 1]
  BY <1>1, <1>3, <1>4, NewRows
<1>6. \A i \in 2..6 : history'[i] = history[i - 1]
  <2>1. \A i \in 2..6 : i - 1 \in 1..5
    OBVIOUS
  <2> QED BY <1>4, <1>5, <2>1
<1> QED BY <1>2, <1>3, <1>5, <1>6

LEMMA RoundKeepsRows ==
  ASSUME RowsInv, NEW triple \in Draws, NEW shown, RoundSettled(triple, shown)
  PROVE  RowsInv'
<1> DEFINE n == history[1].sno
<1>1. /\ history' \in Seq(Rows) /\ Len(history') = 6 /\ n \in Nat /\ history'[1].sno = n + 1
      /\ \A i \in 2..6 : history'[i] = history[i - 1]
  BY RoundShifts
<1>2. ASSUME NEW i \in 2..6, i <= n + 1
      PROVE  history'[i].sno = n + 1 - (i - 1)
  <2>1. i - 1 \in 1..5 /\ i - 1 \in 1..6 /\ i - 1 <= n
    BY <1>1, <1>2
  <2>2. history[i - 1].sno = n - (i - 1 - 1)
    BY <2>1 DEF RowsInv
  <2>3. history'[i].sno = n - (i - 1 - 1)
    BY <1>1, <2>2
  <2> HIDE DEF n
  <2> QED BY <1>1, <2>3
<1>3. \A i \in 1..6 : i = 1 \/ i \in 2..6
  OBVIOUS
<1> HIDE DEF n
<1>4. ASSUME NEW i \in 1..6, i <= n + 1
      PROVE  history'[i].sno = n + 1 - (i - 1)
  <2>1. CASE i = 1
    BY <1>1, <2>1
  <2>2. CASE i \in 2..6
    BY <1>2, <1>4, <2>2
  <2> QED BY <1>3, <2>1, <2>2
<1> QED BY <1>1, <1>4 DEF RowsInv

LEMMA RoundKeepsKeys ==
  ASSUME RowsInv, KeysInv, NEW triple \in Draws, NEW shown, RoundSettled(triple, shown)
  PROVE  KeysInv'
<1>1. history'[1].gameId = GameId /\ \A i \in 2..6 : history'[i].gameId = history[i - 1].gameId
  BY RoundShifts
<1>2. \A i \in 1..6 : i = 1 \/ (i \in 2..6 /\ i - 1 \in 1..6)
  OBVIOUS
<1>3. ASSUME NEW i \in 1..6, NEW j \in 1..6, i < j, history'[i].gameId = history'[j].gameId
      PROVE  history'[j].gameId = GameId
  <2>1. CASE i = 1
    BY <1>1, <1>3, <2>1
  <2>2. CASE i # 1
    <3>1. i \in 2..6 /\ j \in 2..6 /\ i - 1 \in 1..6 /\ j - 1 \in 1..6 /\ i - 1 < j - 1
      BY <1>3, <2>2
    <3>2. history[i - 1].gameId = history[j - 1].gameId
      BY <1>1, <1>3, <3>1
    <3>3. history[j - 1].gameId = GameId
      BY <3>1, <3>2 DEF KeysInv
    <3> QED BY <1>1, <3>1, <3>3
  <2> QED BY <2>1, <2>2
<1>4. ASSUME NEW i \in 1..6, NEW j \in 1..6, i <= j, history'[j].gameId = GameId
      PROVE  history'[i].gameId = GameId
  <2>1. CASE i = 1
    BY <1>1, <2>1
  <2>2. CASE i # 1
    <3>1. i \in 2..6 /\ j \in 2..6 /\ i - 1 \in 1..6 /\ j - 1 \in 1..6 /\ i - 1 <= j - 1
      BY <1>4, <2>2
    <3>2. history[j - 1].gameId = GameId
      BY <1>1, <1>4, <3>1
    <3>3. history[i - 1].gameId = GameId
      BY <3>1, <3>2 DEF KeysInv
    <3> QED BY <1>1, <3>1, <3>3
  <2> QED BY <2>1, <2>2
<1> QED BY <1>3, <1>4 DEF KeysInv

\* React finds the rows that share the table's id where they were.
LEMMA RoundLeavesNone ==
  ASSUME RowsInv, KeysInv, NEW triple \in Draws, NEW shown, RoundSettled(triple, shown)
  PROVE  LeftOver(history, history') = {}
<1>1. history'[1].gameId = GameId /\ \A i \in 2..6 : history'[i].gameId = history[i - 1].gameId
  BY RoundShifts
<1>2. SUFFICES ASSUME NEW i \in 1..6, NEW j \in i + 1..6, history[j].gameId = history[i].gameId
               PROVE  i \in KeptInPlace(history, history')
  BY DEF LeftOver
<1>3. j \in 1..6 /\ i < j
  OBVIOUS
<1>4. history[j].gameId = GameId
  BY <1>2, <1>3 DEF KeysInv
<1>5. \A k \in 1..i : k \in 1..6 /\ k <= j
  OBVIOUS
<1>6. ASSUME NEW k \in 1..i
      PROVE  history[k].gameId = history'[k].gameId
  <2>1. history[k].gameId = GameId
    BY <1>3, <1>4, <1>5 DEF KeysInv
  <2>2. CASE k = 1
    BY <1>1, <2>1, <2>2
  <2>3. CASE k # 1
    <3>1. k \in 2..6 /\ k - 1 \in 1..6 /\ k - 1 <= j
      BY <1>5, <2>3
    <3>2. history[k - 1].gameId = GameId
      BY <1>3, <1>4, <3>1 DEF KeysInv
    <3> QED BY <1>1, <2>1, <3>1, <3>2
  <2> QED BY <2>2, <2>3
<1> QED BY <1>6 DEF KeptInPlace

LEMMA HistoryKeeps ==
  ASSUME HistoryInv, HistoryMoves
  PROVE  HistoryInv'
<1>1. CASE HistoryMounted
  BY <1>1, FreshRows DEF HistoryMounted, HistoryInv
<1>2. ASSUME NEW shown, HistoryReplaced(shown)
      PROVE  HistoryInv'
  BY <1>2, FreshRows DEF HistoryReplaced, HistoryBecomes, HistoryInv
<1>3. ASSUME NEW shown, NEW triple \in Draws, RoundSettled(triple, shown)
      PROVE  HistoryInv'
  <2>1. RowsInv' /\ KeysInv'
    BY <1>3, RoundKeepsRows, RoundKeepsKeys DEF HistoryInv
  <2>2. LeftOver(history, history') = {}
    BY <1>3, RoundLeavesNone DEF HistoryInv
  <2>3. /\ strayColumns' = (strayColumns \/ LeftOver(history, history') # {})
        /\ strayRows' = (shown /\ (strayRows \/ LeftOver(history, history') # {}))
        /\ previewed' = previewed
    BY <1>3, Zenon DEF RoundSettled, HistoryBecomes, ScoreboardRendered, HistoryTableRendered
  <2>4. (strayColumns \/ strayRows => previewed)'
    BY <2>2, <2>3 DEF HistoryInv
  <2> QED BY <2>1, <2>4 DEF HistoryInv
<1>4. ASSUME NEW shown, HistoryTabIs(shown)
      PROVE  HistoryInv'
  BY <1>4 DEF HistoryTabIs, HistoryInv, RowsInv, KeysInv
<1>5. CASE UNCHANGED rounds
  BY <1>5 DEF rounds, HistoryInv, RowsInv, KeysInv
<1> QED BY <1>1, <1>2, <1>3, <1>4, <1>5 DEF HistoryMoves, HistoryStep

LEMMA HistoryTrue ==
  ASSUME HistoryInv
  PROVE  HistoryTruth
  BY DEF HistoryInv, RowsInv, HistoryTruth

-----------------------------------------------------------------------------
(* The age of the sign-up form                                             *)

LEMMA DaysOfSomeMonths ==
  /\ \A y \in {2007, 2025, 2026} : DaysIn(y, 2) = 28
  /\ DaysIn(2008, 2) = 29
  /\ \A y \in {2007, 2008, 2025, 2026} :
        /\ DaysIn(y, 6) = 30
        /\ \A m \in {1, 3, 7, 12} : DaysIn(y, m) = 31
<1>1. ~IsLeap(2007) /\ ~IsLeap(2025) /\ ~IsLeap(2026) /\ IsLeap(2008)
  BY DEF IsLeap
<1> QED BY <1>1 DEF DaysIn

LEMMA BirthIsADay ==
  ASSUME NEW y, NEW m, NEW d, y \in {2007, 2008}, m \in {1, 2, 3, 6, 12}, d \in 1..31
  PROVE  /\ JsDate(y, m, d).year = y
         /\ JsDate(y, m, d).month \in {1, 2, 3, 6, 7, 12}
         /\ JsDate(y, m, d).day \in 1..DaysIn(y, JsDate(y, m, d).month)
<1>1. CASE d <= DaysIn(y, m)
  BY <1>1, DaysOfSomeMonths DEF JsDate
<1>2. CASE ~(d <= DaysIn(y, m))
  <2>1. m \in {2, 6}
    BY <1>2, DaysOfSomeMonths
  <2> QED BY <1>2, <2>1, DaysOfSomeMonths DEF JsDate
<1> QED BY <1>1, <1>2

LEMMA EighteenYearsOn ==
  ASSUME NEW y \in {2007, 2008}, NEW m \in {1, 2, 3, 6, 7, 12}, NEW d \in 1..DaysIn(y, m)
  PROVE  JsDate(y + 18, m, d) =
           IF y = 2008 /\ m = 2 /\ d = 29 THEN [year |-> 2026, month |-> 3, day |-> 1]
           ELSE [year |-> y + 18, month |-> m, day |-> d]
<1>1. y + 18 \in {2025, 2026}
  OBVIOUS
<1>2. CASE y = 2008 /\ m = 2 /\ d = 29
  BY <1>2, DaysOfSomeMonths DEF JsDate
<1>3. CASE ~(y = 2008 /\ m = 2 /\ d = 29)
  <2>1. d <= DaysIn(y + 18, m)
    BY <1>1, <1>3, DaysOfSomeMonths
  <2> QED BY <1>3, <2>1 DEF JsDate
<1> QED BY <1>2, <1>3

LEMMA AgeCounted == AgeIsCounted
<1> SUFFICES ASSUME NEW today \in {d \in SomeDays : d.year = 2026 /\ d.day <= DaysIn(2026, d.month)},
                    NEW b \in {d \in SomeDays : d.year # 2026}
             PROVE  validateAge(today, b)
                      <=> Order(JsDate(JsDate(b.year, b.month, b.day).year + 18,
                                       JsDate(b.year, b.month, b.day).month,
                                       JsDate(b.year, b.month, b.day).day)) <= Order(today)
  BY DEF AgeIsCounted
<1> DEFINE birth == JsDate(b.year, b.month, b.day)
           y == birth.year
           m == birth.month
           d == birth.day
           adult == JsDate(y + 18, m, d)
<1>1. b.year \in {2007, 2008} /\ b.month \in {1, 2, 3, 6, 12} /\ b.day \in 1..31
  BY DEF SomeDays
<1>2. today.year = 2026 /\ today.month \in {1, 2, 3, 6, 12} /\ today.day \in 1..31
      /\ today.day <= DaysIn(2026, today.month)
  BY DEF SomeDays
<1>3. y \in {2007, 2008} /\ m \in {1, 2, 3, 6, 7, 12} /\ d \in 1..DaysIn(y, m)
  BY <1>1, BirthIsADay
<1>4. validateAge(today, b) <=>
        2026 - y - (IF today.month - m < 0 \/ (today.month - m = 0 /\ today.day < d) THEN 1 ELSE 0) >= 18
  BY <1>2 DEF validateAge
<1> HIDE DEF y, m, d
<1>5. adult = IF y = 2008 /\ m = 2 /\ d = 29 THEN [year |-> 2026, month |-> 3, day |-> 1]
              ELSE [year |-> y + 18, month |-> m, day |-> d]
  BY <1>3, EighteenYearsOn
<1>6. d \in 1..31 /\ (m = 2 /\ d = 29 => y = 2008)
  BY <1>3, DaysOfSomeMonths
<1>7. validateAge(today, b) <=> Order(adult) <= Order(today)
  <2>1. CASE y = 2008 /\ m = 2 /\ d = 29
    <3>1. Order(adult) = 2026 * 400 + 3 * 32 + 1
      BY <1>5, <2>1 DEF Order
    <3>2. today.month = 2 => today.day < 29
      BY <1>2, DaysOfSomeMonths
    <3> QED BY <1>2, <1>4, <2>1, <3>1, <3>2 DEF Order
  <2>2. CASE ~(y = 2008 /\ m = 2 /\ d = 29)
    <3>1. Order(adult) = (y + 18) * 400 + m * 32 + d
      BY <1>5, <2>2 DEF Order
    <3> QED BY <1>2, <1>3, <1>4, <1>6, <3>1 DEF Order
  <2> QED BY <2>1, <2>2
<1> QED BY <1>7 DEF y, m, d

-----------------------------------------------------------------------------
(* The router and the forms                                                *)

AuthTexts == {"", "enter both", "invalid", "too many attempts", "unreachable",
              "check your input", "unavailable"}
SignupTexts == {"", "enter username", "enter email", "enter date of birth", "under 18",
                "not available yet"}

AuthState == [screen: {"login", "register"}, status: {"IDLE", "SUBMITTING", "SUCCESS", "ERROR"},
              message: AuthTexts, signup: SignupTexts]

PagesTypeOK ==
  /\ route \in Routes /\ going \in Routes \union {Nowhere}
  /\ auth \in AuthState
  /\ lobby \in {"waiting", "shown"}
  /\ restore \in [mine: BOOLEAN, stale: BOOLEAN]
  /\ exit \in [here: Nat, left: Nat]
  /\ late \in Nat

\* Where the router goes: an error's text stands for an error; a login that
\* succeeded on /login is on its way; only a lobby sends to the login form; a
\* lobby that awaits its session waits, one whose exits are under way is shown.
NavInv ==
  /\ auth.message # "" => auth.status = "ERROR"
  /\ route = "login" /\ auth.status = "SUCCESS" => going # Nowhere
  /\ going = "login" => route = "lobby"
  /\ restore.mine => route = "lobby" /\ lobby = "waiting"
  /\ exit.here > 0 => InLobby

PagesInv == PagesTypeOK /\ NavInv

\* What each page rests on, together.
PInv == PagesInv /\ InfoInv /\ PassTypeOK /\ PasswordTruth /\ HistoryInv

LEMMA FormTypes ==
  /\ \A screen \in {"login", "register"} : Form(screen) \in AuthState /\ Form(screen).message = ""
                                           /\ Form(screen).status = "IDLE"
  /\ \A status \in Statuses : describeLoginFailure(status) \in AuthTexts
  /\ \A form \in Signups : SignupMessage(TodaysDate, form) \in SignupTexts
<1>1. \A screen \in {"login", "register"} : Form(screen) \in AuthState /\ Form(screen).message = ""
                                            /\ Form(screen).status = "IDLE"
  BY DEF Form, AuthState, AuthTexts, SignupTexts
<1>2. \A status \in Statuses : describeLoginFailure(status) \in AuthTexts
  BY DEF Statuses, describeLoginFailure, AuthTexts
<1>3. \A form \in Signups : registerUser(form) \in SignupTexts
  BY DEF registerUser, SignupTexts
<1>4. \A form \in Signups : SignupMessage(TodaysDate, form) \in SignupTexts
  BY <1>3 DEF SignupMessage, SignupTexts
<1> QED BY <1>1, <1>2, <1>4

\* A page that is mounted starts with nothing said, nothing under way of its
\* own but the lobby's restore, and an exit left behind.
LEMMA MountedPage ==
  ASSUME NEW r \in Routes, Fresh(r), going' \in Routes \union {Nowhere}, going' # "login",
         restore' \in [mine: BOOLEAN, stale: BOOLEAN], restore'.mine <=> r = "lobby",
         exit' \in [here: Nat, left: Nat], exit'.here = 0, late' \in Nat
  PROVE  PagesInv'
<1>1. route' = r /\ lobby' = "waiting"
  BY DEF Fresh
<1>2. auth' \in AuthState /\ auth'.message = "" /\ auth'.status = "IDLE"
  BY FormTypes DEF Fresh
<1>3. PagesTypeOK'
  BY <1>1, <1>2 DEF PagesTypeOK
<1>4. ~(exit'.here > 0)
  OBVIOUS
<1>5. NavInv'
  BY <1>1, <1>2, <1>4, Zenon DEF NavInv
<1> QED BY <1>3, <1>5 DEF PagesInv

LEMMA NavigationKeeps ==
  ASSUME PagesInv, Arrive \/ SplashComplete \/ \E r \in Routes : Traverse(r) \/ Open(r)
  PROVE  PagesInv'
<1> USE DEF PagesInv
<1>1. ASSUME NEW r \in Routes, Load(r)
      PROVE  PagesInv'
  <2>1. restore' = [mine |-> r = "lobby", stale |-> FALSE]
    BY <1>1 DEF Load, Restoring, NoRestore
  <2>2. restore' \in [mine: BOOLEAN, stale: BOOLEAN] /\ (restore'.mine <=> r = "lobby")
    BY <2>1
  <2>3. exit' \in [here: Nat, left: Nat] /\ exit'.here = 0
    BY <1>1 DEF Load, NoExit
  <2> QED BY <1>1, <2>2, <2>3, MountedPage DEF Load, Nowhere
<1>2. ASSUME NEW r \in Routes, Mount(r), going' = Nowhere
      PROVE  PagesInv'
  <2>1. restore' = [mine |-> r = "lobby", stale |-> restore.mine \/ restore.stale]
    BY <1>2 DEF Mount, Restoring
  <2>2. restore' \in [mine: BOOLEAN, stale: BOOLEAN] /\ (restore'.mine <=> r = "lobby")
    BY <2>1 DEF PagesTypeOK
  <2>3. exit' \in [here: Nat, left: Nat] /\ exit'.here = 0
    BY <1>2 DEF Mount, PagesTypeOK
  <2>4. late' \in Nat
    BY <1>2 DEF Mount, LeavesForm, PagesTypeOK
  <2> QED BY <1>2, <2>2, <2>3, <2>4, MountedPage DEF Mount, Nowhere
<1>3. CASE Arrive
  <2>1. CASE going = route
    BY <1>3, <2>1 DEF Arrive, page, calls, PagesTypeOK, NavInv, Nowhere, InLobby, Routes
  <2>2. CASE going # route
    BY <1>2, <1>3, <2>2 DEF Arrive, PagesTypeOK
  <2> QED BY <2>1, <2>2
<1>4. CASE SplashComplete
  BY <1>1, <1>4 DEF SplashComplete, Routes
<1>5. CASE \E r \in Routes : Traverse(r) \/ Open(r)
  BY <1>1, <1>2, <1>5 DEF Traverse, Open
<1> QED BY <1>3, <1>4, <1>5

LEMMA FormsKeep ==
  ASSUME PagesInv, Login \/ Signup
  PROVE  PagesInv'
<1> USE DEF PagesInv
<1>0. auth \in AuthState /\ late \in Nat
  BY DEF PagesTypeOK
\* A step of the forms that goes nowhere.
<1>1. ASSUME AuthOnly, UNCHANGED <<restore, exit>>, late' \in Nat, auth' \in AuthState,
             auth'.message # "" => auth'.status = "ERROR",
             auth'.status = "SUCCESS" => auth.status = "SUCCESS"
      PROVE  PagesInv'
  BY <1>1 DEF AuthOnly, PagesTypeOK, NavInv, InLobby
<1>2. CASE OpenRegister
  <2>1. auth' = Form("register") /\ late' \in Nat
    BY <1>0, <1>2 DEF OpenRegister, LeavesForm
  <2> QED BY <1>1, <1>2, <2>1, FormTypes DEF OpenRegister
<1>3. CASE CloseRegister
  BY <1>0, <1>1, <1>3, FormTypes DEF CloseRegister, calls
<1>4. CASE LoginTyped
  <2>1. auth' = [auth EXCEPT !.message = ""] /\ late' = late
    BY <1>4 DEF LoginTyped, calls
  <2>2. auth' \in AuthState /\ auth'.message = "" /\ auth'.status = auth.status
    BY <1>0, <2>1 DEF AuthState, AuthTexts
  <2> QED BY <1>0, <1>1, <1>4, <2>1, <2>2 DEF LoginTyped, calls
<1>5. ASSUME NEW given \in BOOLEAN, SubmitLogin(given)
      PROVE  PagesInv'
  <2>1. \/ auth' = [auth EXCEPT !.status = "SUBMITTING", !.message = ""]
        \/ auth' = [auth EXCEPT !.status = "ERROR", !.message = "enter both"]
    BY <1>5 DEF SubmitLogin
  <2>2. auth' \in AuthState /\ (auth'.message # "" => auth'.status = "ERROR") /\ auth'.status # "SUCCESS"
    BY <1>0, <2>1 DEF AuthState, AuthTexts
  <2> QED BY <1>0, <1>1, <1>5, <2>2 DEF SubmitLogin, calls
<1>6. ASSUME NEW status \in Statuses, LoginAnswered(status)
      PROVE  PagesInv'
  <2>1. CASE status = 200
    <3>1. auth' = [auth EXCEPT !.status = "SUCCESS"]
      BY <1>6, <2>1 DEF LoginAnswered
    <3>2. auth' \in AuthState /\ auth'.message = auth.message /\ auth.status = "SUBMITTING"
      BY <1>0, <1>6, <3>1 DEF LoginAnswered, Submitting, AuthState
    <3>3. route' = route /\ lobby' = lobby /\ restore' = restore /\ exit' = exit /\ late' = late
          /\ going' = IF route = "login" THEN "lobby" ELSE going
      BY <1>6, <2>1 DEF LoginAnswered, calls
    <3>4. auth'.message = ""
      BY <3>2 DEF NavInv
    <3> QED BY <3>2, <3>3, <3>4 DEF PagesTypeOK, NavInv, InLobby, Routes, Nowhere
  <2>2. CASE status # 200
    <3> DEFINE text == describeLoginFailure(status)
    <3>1. auth' = [auth EXCEPT !.status = "ERROR", !.message = text] /\ text \in AuthTexts
      BY <1>6, <2>2, FormTypes DEF LoginAnswered
    <3> HIDE DEF text
    <3>2. auth' \in AuthState /\ auth'.status = "ERROR"
      BY <1>0, <3>1 DEF AuthState
    <3>3. AuthOnly /\ UNCHANGED <<restore, exit, late>>
      BY <1>6, <2>2 DEF LoginAnswered, AuthOnly, calls
    <3> QED BY <1>0, <1>1, <3>2, <3>3
  <2> QED BY <2>1, <2>2
<1>7. ASSUME NEW status \in Statuses, LateLoginAnswered(status)
      PROVE  PagesInv'
  <2>1. UNCHANGED <<route, auth, lobby, restore, exit>>
        /\ going' = (IF status = 200 THEN "lobby" ELSE going)
    BY <1>7 DEF LateLoginAnswered, page
  <2>2. late' \in Nat
    BY <1>0, <1>7 DEF LateLoginAnswered
  <2> QED BY <2>1, <2>2 DEF PagesTypeOK, NavInv, InLobby, Routes, Nowhere
<1>8. CASE SignupTyped \/ \E form \in Signups : SubmitSignup(form)
  <2>1. PICK text \in SignupTexts : auth' = [auth EXCEPT !.signup = text]
    BY <1>8, FormTypes DEF SignupTyped, SubmitSignup, SignupTexts
  <2>2. auth' \in AuthState /\ auth'.message = auth.message /\ auth'.status = auth.status
    BY <1>0, <2>1 DEF AuthState
  <2>3. AuthOnly /\ UNCHANGED <<restore, exit, late>>
    BY <1>8 DEF SignupTyped, SubmitSignup, calls
  <2> QED BY <1>0, <1>1, <2>2, <2>3 DEF NavInv
<1> QED BY <1>2, <1>3, <1>4, <1>5, <1>6, <1>7, <1>8 DEF Login, Signup

LEMMA LobbyKeeps ==
  ASSUME PagesInv, Lobby \/ LobbyKeyButton \/ TableKeyButton \/ PasswordEvents
  PROVE  PagesInv'
<1> USE DEF PagesInv
<1>1. ASSUME NEW found \in BOOLEAN, RestoreEnds(found)
      PROVE  PagesInv'
  <2>1. restore' \in [mine: BOOLEAN, stale: BOOLEAN] /\ ~restore'.mine
    BY <1>1 DEF RestoreEnds, NoRestore
  <2>2. UNCHANGED <<route, auth, late, exit>>
        /\ lobby' = (IF found /\ restore.mine THEN "shown" ELSE lobby)
        /\ going' = (IF ~found /\ restore.mine THEN "login" ELSE going)
    BY <1>1 DEF RestoreEnds, LobbyOnly
  <2> QED BY <2>1, <2>2 DEF PagesTypeOK, NavInv, InLobby, Routes, Nowhere
<1>2. CASE \E c \in CATEGORIES : SelectCategory(c)
  BY <1>2 DEF SelectCategory, LobbyOnly, PagesTypeOK, NavInv, InLobby
<1>3. CASE PlayGame
  BY <1>3 DEF PlayGame, LobbyOnly, PagesTypeOK, NavInv, InLobby, Routes, Nowhere
<1>4. CASE ExitLobby
  <2>1. UNCHANGED <<route, auth, late, going, lobby, restore>> /\ InLobby
    BY <1>4 DEF ExitLobby, LobbyOnly
  <2>2. exit' = [exit EXCEPT !.here = exit.here + 1] /\ exit \in [here: Nat, left: Nat]
    BY <1>4 DEF ExitLobby, PagesTypeOK
  <2>3. exit' \in [here: Nat, left: Nat]
    BY <2>2
  <2> QED BY <2>1, <2>3 DEF PagesTypeOK, NavInv, InLobby
<1>5. CASE LoggedOut
  <2>1. UNCHANGED <<route, auth, late, lobby, restore>> /\ going' = "splash"
    BY <1>5 DEF LoggedOut, LobbyOnly
  <2>2. PICK whose \in {"here", "left"} :
          exit[whose] > 0 /\ exit' = [exit EXCEPT ![whose] = exit[whose] - 1]
    BY <1>5 DEF LoggedOut
  <2>3. exit \in [here: Nat, left: Nat]
    BY DEF PagesTypeOK
  <2>4. exit' \in [here: Nat, left: Nat] /\ (exit'.here > 0 => exit.here > 0)
    <3>1. CASE whose = "here"
      BY <2>2, <2>3, <3>1
    <3>2. CASE whose = "left"
      BY <2>2, <2>3, <3>2
    <3> QED BY <3>1, <3>2
  <2>5. PagesTypeOK'
    BY <2>1, <2>4 DEF PagesTypeOK, Routes
  <2>6. NavInv'
    BY <2>1, <2>4 DEF NavInv, InLobby, Nowhere
  <2> QED BY <2>5, <2>6
<1>6. CASE LobbyKeyButton \/ TableKeyButton \/ PasswordEvents
  BY <1>6 DEF LobbyKeyButton, TableKeyButton, PasswordEvents, LobbyOnly, PagesTypeOK, NavInv, InLobby
<1> QED BY <1>1, <1>2, <1>3, <1>4, <1>5, <1>6 DEF Lobby

LEMMA PagesKeep ==
  ASSUME PagesInv, [Next]_vars
  PROVE  PagesInv'
<1>1. CASE Table
  BY <1>1 DEF Table, CloseGameTab, ReturnToLobby, InfoButton, InfoEvents, RoundEvents, OnTable, page, calls,
              PagesInv, PagesTypeOK, NavInv, InLobby, Routes, Nowhere
<1>2. CASE SplashTick \/ UNCHANGED vars
  BY <1>2 DEF SplashTick, vars, page, calls, PagesInv, PagesTypeOK, NavInv, InLobby
<1> QED BY <1>1, <1>2, NavigationKeeps, FormsKeep, LobbyKeeps DEF Next
-----------------------------------------------------------------------------
(* The theorems                                                            *)

LEMMA PagesStart ==
  ASSUME Init
  PROVE  PInv
<1>1. PagesInv
  <2>1. auth \in AuthState /\ auth.message = "" /\ auth.status = "IDLE"
    BY FormTypes DEF Init
  <2>2. exit \in [here: Nat, left: Nat] /\ ~(exit.here > 0)
    BY DEF Init, NoExit
  <2>3. PagesTypeOK
    BY <2>1, <2>2 DEF Init, NoRestore, PagesTypeOK, Routes, Nowhere
  <2>4. NavInv
    <3>1. route = "splash" /\ going = Nowhere /\ restore = NoRestore
      BY DEF Init
    <3>2. ~restore.mine
      BY <3>1 DEF NoRestore
    <3> QED BY <2>1, <2>2, <3>1, <3>2 DEF NavInv, Nowhere
  <2> QED BY <2>3, <2>4 DEF PagesInv
<1>2. InfoInv
  BY InfoMountedFits DEF Init, InfoInv, InfoTypeOK, LastAskedIsPicked, ShowsReport
<1>3. PassTypeOK /\ PasswordTruth
  <2>1. <<>> \in Seq(BOOLEAN)
    BY EmptySeq
  <2> QED BY <2>1 DEF Init, PassClosed, PassTypeOK, PassState, PassTexts, PasswordTruth
<1>4. HistoryInv
  <2>1. history = MOCK_HISTORY
    BY DEF Init
  <2>2. \A i \in 1..6 : i <= 1 => i = 1
    OBVIOUS
  <2>3. RowsInv
    BY <2>1, <2>2, MockRows DEF RowsInv
  <2>4. KeysInv
    <3>1. \A i \in 1..6 : history[i].gameId = 694 - i /\ 694 - i # GameId
      BY <2>1, MockRows, HistoryAssumption
    <3>2. \A i, j \in 1..6 : i < j => 694 - i # 694 - j
      OBVIOUS
    <3> QED BY <3>1, <3>2 DEF KeysInv
  <2> QED BY <2>3, <2>4 DEF Init, HistoryInv
<1> QED BY <1>1, <1>2, <1>3, <1>4 DEF PInv

LEMMA PagesStep ==
  ASSUME PInv, [Next]_vars
  PROVE  PInv'
  BY EveryStepMoves, InfoKeeps, PassKeeps, HistoryKeeps, PagesKeep DEF PInv

\* Every state of the client's pages keeps what its pages and dialogs rest on.
THEOREM PagesInvariant == Spec => []PInv
<1>1. Init => PInv
  BY PagesStart
<1>2. PInv /\ [Next]_vars => PInv'
  BY PagesStep
<1> QED BY <1>1, <1>2, PTL DEF Spec

\* What a page shows is true, in every state: a form whose login succeeded is
\* being left, a password dialog that submits has a submission of its own, the
\* scoreboard and the history tab show no row but the last six rounds unless
\* a table was previewed, and the sign-up form counts the age as the calendar
\* does.
THEOREM TruthCorrect == Spec => []ScreensTellTheTruth
<1>1. PInv => ScreensTellTheTruth
  BY HistoryTrue, AgeCounted DEF PInv, PagesInv, NavInv, ScreensTellTheTruth
<1> QED BY <1>1, PagesInvariant, PTL

\* Once nothing is under way, the open report is that of the dates chosen,
\* whatever was changed, closed or opened while reports were on their way.
THEOREM ReportCorrect == Spec => []ReportFollowsRange
<1>1. ASSUME InfoInv, ShowsReport, info.asked = <<>>
      PROVE  /\ info.reportRows = fetchDailyReport(Picked(info))
             /\ ReportTable = <<info.fromDate>>
  <2>1. info.reportRows = fetchDailyReport(Picked(info))
    BY <1>1 DEF InfoInv, LastAskedIsPicked
  <2>2. info.reportRows = <<info.fromDate>> \/ info.reportRows = <<>>
    BY <2>1 DEF fetchDailyReport, Picked
  <2> QED BY <2>1, <2>2 DEF ReportTable
<1>2. PInv => ReportFollowsRange
  BY <1>1 DEF PInv, ReportFollowsRange
<1> QED BY <1>2, PagesInvariant, PTL

\* Where a step asks the router to go, the player's page has asked, or one of
\* the two calls that outlive their page.
LEMMA GoingIsAsked ==
  ASSUME PagesInv, [Next]_vars, going' \notin {going, Nowhere}
  PROVE  /\ going' = "login" => route = "lobby" /\ lobby = "waiting"
         /\ going' = "lobby" => late > 0 \/ route = "table" \/ (route = "login" /\ Submitting)
         /\ going' = "splash" => exit.left > 0 \/ InLobby
         /\ going' = "table" => InLobby
         /\ going' \in {"login", "lobby", "splash", "table"}
<1>1. CASE Arrive \/ SplashComplete \/ \E r \in Routes : Traverse(r) \/ Open(r)
  BY <1>1 DEF Arrive, SplashComplete, Traverse, Open, Load
<1>2. CASE Login
  BY <1>2 DEF Login, OpenRegister, LoginTyped, SubmitLogin, LoginAnswered, LateLoginAnswered, AuthOnly
<1>3. CASE Signup
  BY <1>3 DEF Signup, CloseRegister, SignupTyped, SubmitSignup, AuthOnly
<1>4. CASE Lobby
  <2>1. CASE \E found \in BOOLEAN : RestoreEnds(found)
    BY <2>1 DEF RestoreEnds, PagesInv, NavInv
  <2>2. CASE \E c \in CATEGORIES : SelectCategory(c)
    BY <2>2 DEF SelectCategory
  <2>3. CASE PlayGame \/ ExitLobby
    BY <2>3 DEF PlayGame, ExitLobby, LobbyOnly
  <2>4. CASE LoggedOut
    BY <2>4 DEF LoggedOut, PagesInv, PagesTypeOK, NavInv
  <2> QED BY <1>4, <2>1, <2>2, <2>3, <2>4 DEF Lobby
<1>5. CASE LobbyKeyButton \/ TableKeyButton \/ PasswordEvents
  BY <1>5 DEF LobbyKeyButton, TableKeyButton, PasswordEvents
<1>6. CASE Table
  BY <1>6 DEF Table, CloseGameTab, ReturnToLobby, InfoButton, InfoEvents, RoundEvents, OnTable
<1>7. CASE SplashTick \/ UNCHANGED vars
  BY <1>7 DEF SplashTick, vars
<1> QED BY <1>1, <1>2, <1>3, <1>4, <1>5, <1>6, <1>7 DEF Next

\* A page is left by its own doing: no answer that comes late sends the
\* player anywhere, but for a login whose form is gone and the logout of a
\* lobby that has been left.
THEOREM PlayerKept == Spec => PagesKeepTheirPlayer
<1>1. PInv /\ [Next]_vars =>
        [going' \notin {going, Nowhere} =>
          CASE going' = "login"  -> route = "lobby" /\ lobby = "waiting"
            [] going' = "lobby"  -> late > 0 \/ route = "table"
                                    \/ (route = "login" /\ Submitting)
            [] going' = "splash" -> exit.left > 0 \/ InLobby
            [] going' = "table"  -> InLobby]_vars
  BY GoingIsAsked DEF PInv
<1> QED BY <1>1, PagesInvariant, PTL DEF Spec, PagesKeepTheirPlayer

=============================================================================
