------------------------------ MODULE FrontPage ------------------------------
(***************************************************************************)
(* The dashboard's main page and the modal it opens to replay a case.      *)
(* They share no state: the modal plays the row it was opened with.        *)
(***************************************************************************)
CONSTANTS MaxReports, Ts, Wire, IdText, Enforced, Capacity, Null

VARIABLES count, page, hidden, request, rows, chosen, receipt, seen

pageVars == <<count, page, hidden, request, rows, chosen, receipt, seen>>

Page == INSTANCE Dashboard WITH selected <- chosen, None <- Null

ASSUME PageAssumption == Page!DashboardAssumption

CONSTANT Replayable

VARIABLES replayed, idx, playing

modalVars == <<replayed, idx, playing>>

Modal == INSTANCE Replay WITH Rows <- Replayable, row <- replayed, None <- Null

ASSUME ModalAssumption == Modal!ReplayAssumption

\* Dashboard!InspectorShowsNewest: the list is one the database could have answered.
InspectorShowsNewest == Page!InspectorShowsNewest

\* Dashboard!ReceiptNeverGoesBack: no receipt gives way to one of an earlier tick.
ReceiptNeverGoesBack == Page!ReceiptNeverGoesBack

\* Dashboard!NewReportAppears: a new report is listed in the end.
NewReportAppears == Page!NewReportAppears

\* Replay!ReplayMatchesReceipt: the last offset is the receipt's total.
ReplayMatchesReceipt == Modal!ReplayMatchesReceipt
=============================================================================
