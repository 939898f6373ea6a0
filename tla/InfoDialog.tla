----------------------------- MODULE InfoDialog ------------------------------
(***************************************************************************)
(* components/game/GameInfoModal.tsx, the information dialog of the game    *)
(* table, with the report it asks gameService for.  Its state outlives its  *)
(* closing.  A date is a number of days; 0 is a field that has been emptied, *)
(* which sorts before every date.                                           *)
(***************************************************************************)
EXTENDS Integers, Sequences, SequencesExt

CONSTANTS
    Today,
    MaxReports    \* bound: reports under way

ASSUME InfoAssumption == Today \in Nat \ {0} /\ MaxReports \in Nat \ {0}

VARIABLE
    info   \* open, activeTab, fromDate, toDate, reportRows (the dates of its
           \* rows), and the ranges asked for and not yet answered

\* The calendar ends with Today; a later date can be typed.
Dates == 0..Today + 1

InfoMounted == [open |-> FALSE, activeTab |-> "history",
                fromDate |-> Today, toDate |-> Today, reportRows |-> <<>>, asked |-> <<>>]

\* A range in order has one row, of its first day and zeros.
fetchDailyReport(range) == IF range[1] <= range[2] THEN <<range[1]>> ELSE <<>>

Picked(i) == <<i.fromDate, i.toDate>>

\* What a render of a new state asks for: the report, when the open tab or
\* the range has become another.
Rendered(i) ==
    LET shows(j) == j.open /\ j.activeTab = "report"
        changed  == ~shows(info) \/ Picked(i) # Picked(info)
    IN  IF shows(i) /\ changed THEN [i EXCEPT !.asked = Append(@, Picked(i))] ELSE i

InfoChanges(i) == info' = Rendered(i) /\ Len(info'.asked) <= MaxReports

InfoOpened   == ~info.open /\ InfoChanges([info EXCEPT !.open = TRUE])
InfoClosed   == info.open /\ InfoChanges([info EXCEPT !.open = FALSE])
InfoEscape   == info.open /\ InfoChanges([info EXCEPT !.open = FALSE])
InfoBackdrop == info.open /\ InfoChanges([info EXCEPT !.open = FALSE])
HistoryTab   == info.open /\ InfoChanges([info EXCEPT !.activeTab = "history"])
ReportTab    == info.open /\ InfoChanges([info EXCEPT !.activeTab = "report"])

ShowsReport  == info.open /\ info.activeTab = "report"
ShowsHistory == info.open /\ info.activeTab = "history"

PickFrom(d) == ShowsReport /\ d # info.fromDate /\ InfoChanges([info EXCEPT !.fromDate = d])
PickTo(d)   == ShowsReport /\ d # info.toDate /\ InfoChanges([info EXCEPT !.toDate = d])

\* VIEW loads the range again.
View == /\ ShowsReport /\ Len(info.asked) < MaxReports
        /\ info' = [info EXCEPT !.asked = Append(@, Picked(info))]

ReportArrivesAnyOrder ==   \* mutant: a later report may overtake an earlier one
    \E n \in DOMAIN info.asked :
       info' = [info EXCEPT !.reportRows = fetchDailyReport(info.asked[n]),
                            !.asked = RemoveAt(@, n)]

\* Every report takes 100 ms: they arrive in the order they were asked for,
\* be the dialog open or not.
ReportArrives ==
    /\ info.asked # <<>>
    /\ info' = [info EXCEPT !.reportRows = fetchDailyReport(Head(info.asked)),
                            !.asked = Tail(@)]

InfoStep ==
    \/ InfoClosed \/ InfoEscape \/ InfoBackdrop \/ HistoryTab \/ ReportTab
    \/ \E d \in Dates : PickFrom(d) \/ PickTo(d)
    \/ View \/ ReportArrives

\* The table of the tab: its rows, or one row of zeros for the first day.
ReportTable == IF info.reportRows = <<>> THEN <<info.fromDate>> ELSE info.reportRows

\* Once nothing is under way the open report is that of the range in its two
\* date fields, however often range and tab were changed, and the dialog
\* closed and opened, while earlier reports were on their way.
ReportFollowsRange ==
    ShowsReport /\ info.asked = <<>> =>
       /\ info.reportRows = fetchDailyReport(Picked(info))
       /\ ReportTable = <<info.fromDate>>
=============================================================================
