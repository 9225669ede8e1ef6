------------------------------ MODULE Dashboard ------------------------------
(***************************************************************************)
(* The dashboard in a browser tab (web/app/page.tsx and the components it  *)
(* renders): rendered by the server from PostgreSQL, then kept up to date  *)
(* by one usePoll per endpoint, while the agents go on writing reports.    *)
(*                                                                         *)
(* A report is its id, given in the order of insertion, which is not the   *)
(* order of its stamps.  Two reports may share a ts_ns, a redelivered case *)
(* for one, and which of those comes first is left open.  The list of the  *)
(* inspector stands for the score feed's too, which merges the same way.   *)
(*                                                                         *)
(* An operator placed directly above a definition, with the same           *)
(* parameters and no comment, is a way to get that definition wrong.       *)
(***************************************************************************)
EXTENDS Naturals, FiniteSets

CONSTANTS
  MaxReports,  \* bound on the reports
  Ts,          \* ts_ns of each report, as the JavaScript number it is sorted by
  Wire,        \* wire_ts_ns of each report
  IdText,      \* rank of each report's id among the ids' texts: pg returns them as text
  Enforced,    \* the reports with enforced = TRUE and both stamps of the receipt
  Capacity,    \* LIMIT of the query, and capacity of the list
  None

Ids == 1 .. MaxReports
Endpoints == {"reports", "receipt"}

\* What is assumed of the constants.
DashboardAssumption ==
  /\ MaxReports \in Nat /\ Capacity \in Nat
  /\ Ts \in [Ids -> Nat] /\ Wire \in [Ids -> Nat]
  /\ Enforced \subseteq Ids /\ None \notin Ids

VARIABLES
  count,     \* reports in agent_report
  page,      \* "closed" or "open"
  hidden,    \* document.hidden
  request,   \* by endpoint: the fetch that is not aborted
  rows,      \* rows of ReportInspector; stamped: with the receipt's columns
  selected,  \* selectedId
  receipt,   \* row of Receipt
  seen       \* history: the largest count an applied answer was computed from

vars == <<count, page, hidden, request, rows, selected, receipt, seen>>

\* An answer is the ids of its rows and the count it was computed from.
Requests == [stage : {"over", "sent", "answered"}, rows : SUBSET Ids, count : 0 .. MaxReports]
Over == [stage |-> "over", rows |-> {}, count |-> 0]
Sent == [Over EXCEPT !.stage = "sent"]

Init ==
  /\ count = 0
  /\ page = "closed" /\ hidden = FALSE
  /\ request = [e \in Endpoints |-> Over]
  /\ rows = {} /\ selected = None /\ receipt = None
  /\ seen = 0

-----------------------------------------------------------------------------
(* The queries *)

IdsOf(list) == {r.id : r \in list}

\* The sets of the newest of some reports, as many as there is room for.
NewestOf(ids) ==
  {top \in SUBSET ids :
     /\ Cardinality(top) = IF Cardinality(ids) < Capacity THEN Cardinality(ids) ELSE Capacity
     /\ \A i \in top, j \in ids \ top : Ts[i] >= Ts[j]}

\* What the first row of a list may be.
First(ids) == IF ids = {} THEN {None} ELSE {i \in ids : \A j \in ids : Ts[i] >= Ts[j]}

\* ORDER BY ts_ns DESC LIMIT 20
NewestReports(k) == NewestOf(1 .. k)

ByIdOnly(i, j) == i > j
\* ORDER BY wire_ts_ns DESC NULLS LAST, id DESC
Precedes(i, j) == Wire[i] > Wire[j] \/ (Wire[i] = Wire[j] /\ i > j)

\* WHERE enforced ... LIMIT 1
LatestReceipt(k) ==
  LET receipts == Enforced \cap 1 .. k
  IN  {i \in receipts : \A j \in receipts \ {i} : Precedes(i, j)}

\* An agent persists a report.
Insert ==
  /\ count < MaxReports
  /\ count' = count + 1
  /\ UNCHANGED <<page, hidden, request, rows, selected, receipt, seen>>

-----------------------------------------------------------------------------
(* The page *)

\* DashboardPage is rendered; safeQuery turns a failed query into an empty one.
Open ==
  /\ page = "closed"
  /\ page' = "open"
  /\ seen' \in {0, count}
  /\ \E top \in NewestReports(seen') : rows' = {[id |-> i, stamped |-> TRUE] : i \in top}
  /\ selected' \in First(IdsOf(rows'))
  /\ receipt' \in {None} \cup LatestReceipt(count)
  /\ UNCHANGED <<count, hidden, request>>

\* The tab is closed or reloaded: every usePoll is cancelled and aborts.
Close ==
  /\ page = "open"
  /\ page' = "closed"
  /\ request' = [e \in Endpoints |-> Over]
  /\ rows' = {} /\ selected' = None /\ receipt' = None /\ seen' = 0
  /\ UNCHANGED <<count, hidden>>

\* The user turns to another tab, or back.
Hide ==
  /\ page = "open"
  /\ hidden' = ~hidden
  /\ UNCHANGED <<count, page, request, rows, selected, receipt, seen>>

\* usePoll's tick, on mount and then every intervalMs: the fetch before it is
\* aborted if it is not over.
Tick(e) ==
  /\ page = "open" /\ ~hidden
  /\ request' = [request EXCEPT ![e] = Sent]
  /\ UNCHANGED <<count, page, hidden, rows, selected, receipt, seen>>

\* The route runs its query.
Answer(e) ==
  /\ request[e].stage = "sent"
  /\ \E answer \in IF e = "reports" THEN NewestReports(count) ELSE {LatestReceipt(count)} :
       request' = [request EXCEPT ![e] =
                     [stage |-> "answered", rows |-> answer, count |-> count]]
  /\ UNCHANGED <<count, page, hidden, rows, selected, receipt, seen>>

\* The network or the query fails: an error, or an empty list, is ignored.
Lose(e) ==
  /\ request[e].stage # "over"
  /\ request' = [request EXCEPT ![e] = Over]
  /\ UNCHANGED <<count, page, hidden, rows, selected, receipt, seen>>

SeenAgain(next, list) == {r \in next : r.id \in IdsOf(list)}
\* next.filter((r) => !seen.has(r.id))
Unseen(next, list) == {r \in next : r.id \notin IdsOf(list)}

\* The rows of an answer and of the list, in one.
Merged(next, list) == Unseen(next, list) \cup list

Uncut(list) == {list}
\* merged.sort(...).slice(0, capacity)
Capped(list) == {{r \in list : r.id \in top} : top \in NewestOf(IdsOf(list))}

\* ReportInspector's handle.  /api/reports does not select the stamps.
ReceiveReports(answer) ==
  LET next == {[id |-> i, stamped |-> FALSE] : i \in answer.rows}
  IN  /\ next # {}
      /\ rows' \in Capped(Merged(next, rows))
      /\ selected' \in IF selected = None THEN First(answer.rows) ELSE {selected}
      /\ seen' = answer.count
      /\ UNCHANGED receipt

\* Receipt's handle: a newer wire stamp, or an id whose text is larger.
ReceiveReceipt(answer) ==
  /\ \E next \in answer.rows :
       LET newer == receipt = None \/ Wire[next] > Wire[receipt] \/ IdText[next] > IdText[receipt]
       IN  receipt' = IF newer THEN next ELSE receipt
  /\ UNCHANGED <<rows, selected, seen>>

\* The JSON is parsed and the poll is not cancelled; a handle ignores an empty answer.
Receive(e) ==
  /\ request[e].stage = "answered" /\ request[e].rows # {}
  /\ request' = [request EXCEPT ![e] = Over]
  /\ IF e = "reports" THEN ReceiveReports(request[e]) ELSE ReceiveReceipt(request[e])
  /\ UNCHANGED <<count, page, hidden>>

\* A click on a row of the list.
Select(r) ==
  /\ r \in rows
  /\ selected' = r.id
  /\ UNCHANGED <<count, page, hidden, request, rows, receipt, seen>>

Next ==
  \/ Insert \/ Open \/ Close \/ Hide
  \/ \E e \in Endpoints : Tick(e) \/ Answer(e) \/ Lose(e) \/ Receive(e)
  \/ \E r \in rows : Select(r)

Spec == Init /\ [][Next]_vars

\* The interval fires, and again and again the server answers, and the answer
\* arrives, before the next tick aborts the fetch.  The code does not enforce the
\* latter: answers that always take longer than intervalMs are never shown.
Fairness ==
  \A e \in Endpoints : WF_vars(Tick(e)) /\ SF_vars(Answer(e)) /\ SF_vars(Receive(e))

FairSpec == Spec /\ Fairness

-----------------------------------------------------------------------------
(* Properties *)

TypeOK ==
  /\ count \in 0 .. MaxReports
  /\ page \in {"closed", "open"} /\ hidden \in BOOLEAN
  /\ request \in [Endpoints -> Requests]
  /\ rows \subseteq [id : Ids, stamped : BOOLEAN]
  /\ selected \in Ids \cup {None} /\ receipt \in Enforced \cup {None}
  /\ seen \in 0 .. MaxReports

(***************************************************************************)
(* The receipt card never goes back to a case whose tick came off the wire *)
(* earlier, although handle (receipt.tsx:40-53) accepts a row for its id   *)
(* alone and ids are not in the order of the stamps.                       *)
(***************************************************************************)
ReceiptNeverGoesBack ==
  [][page = "open" /\ page' = "open" /\ receipt # None =>
       receipt' # None /\ Wire[receipt'] >= Wire[receipt]]_vars

(***************************************************************************)
(* The list is one the database could have answered at the time of the     *)
(* latest answer that was applied, whatever the order in which reports     *)
(* were inserted and however many answers were lost or aborted: no report  *)
(* twice, none pushed out by an older one, no gap (report-inspector.tsx:   *)
(* 36-50).                                                                 *)
(***************************************************************************)
InspectorShowsNewest ==
  /\ IdsOf(rows) \in NewestReports(seen)
  /\ Cardinality(rows) = Cardinality(IdsOf(rows))

(***************************************************************************)
(* A report that is among the newest appears in the list, unless the page  *)
(* is closed or hidden or newer ones take its place first.                 *)
(***************************************************************************)
NewReportAppears ==
  \A i \in Ids :
    (i <= count /\ page = "open") ~>
      (page = "closed" \/ hidden \/ i \in IdsOf(rows)
         \/ \E top \in NewestReports(count) : i \notin top)
=============================================================================
