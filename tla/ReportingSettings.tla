--------------------------- MODULE ReportingSettings ---------------------------
(***************************************************************************)
(* The admin console's reporting-settings page: a debounced search box, a  *)
(* list that is fetched again whenever the page or the search changes, and *)
(* a radio button per project that PATCHes its report type and fetches the *)
(* list once more.                                                         *)
(*                                                                         *)
(* JavaScript runs one callback at a time, so each action is one callback  *)
(* with the render and the effects it causes; what interleaves is user     *)
(* input, the timer and the answers of the network, which come late, out   *)
(* of order, or not at all.  One project stands for the rows of every      *)
(* list; a list is never empty.                                            *)
(***************************************************************************)
EXTENDS Naturals, FiniteSets

CONSTANTS
    Searches,       \* what can be in the search box
    Pages,          \* page numbers, from 1
    NoSearch,       \* the empty search box
    None,
    MaxInputs       \* bound of the model: keys, page turns and radio buttons

ASSUME PageAssumption == 1 \in Pages /\ Pages \subseteq Nat \ {0}
ASSUME SearchAssumption == NoSearch \in Searches
ASSUME BoundAssumption == MaxInputs \in Nat

\* A key can cost two list requests, and so no more tickets are ever taken.
MaxSeq == 2 * MaxInputs + 1

Types == {"TOTAL_HOURS", "CLOCK_IN_OUT"}

VARIABLES
    page, q,        \* state of the component
    debouncedQ,
    requestSeq,     \* ticket of the newest list request
    loading, error, \* the spinner; the banner is shown
    result,         \* the list on display, None before the first answer
    updating,       \* updatingId and the locals of handleReportTypeChange
    flights,        \* list requests without an answer yet
    reportType,     \* the project's row in the database
    applied,        \* history, of which no action reads but the bound: updates
    acknowledged,   \* in the database, the last the page was told of, the
    failed,         \* tickets of list requests that failed, whether the newest
    stale,          \* request was for an older query than the component's, and
    inputs          \* what the user has done

component == <<page, q, debouncedQ, requestSeq, loading, error, result, updating>>
database == <<reportType, applied>>
history == <<acknowledged, failed, stale, inputs>>
vars == <<page, q, debouncedQ, requestSeq, loading, error, result, updating,
          flights, reportType, applied, acknowledged, failed, stale, inputs>>

Query == [page : Pages, search : Searches]

\* A list as the server read it: after so many updates, this report type.
List == [seq : 1..MaxSeq, query : Query, type : Types, asOf : 0..MaxInputs]

\* A request that the server has not read for yet has no list.
Flight == [seq : 1..MaxSeq, query : Query, list : List \cup {None}]

\* "refetch" is the query of the fetchProjects that the handler has closed over.
Updating == [type : Types, done : BOOLEAN, refetch : Query]

TypeOK ==
    /\ page \in Pages /\ q \in Searches /\ debouncedQ \in Searches
    /\ requestSeq \in 0..MaxSeq
    /\ loading \in BOOLEAN /\ error \in BOOLEAN
    /\ result \in List \cup {None}
    /\ updating \in Updating \cup {None}
    /\ flights \subseteq Flight
    /\ \A f, g \in flights : f.seq = g.seq => f = g
    /\ reportType \in Types
    /\ applied \in 0..MaxInputs
    /\ acknowledged \in 0..applied
    /\ inputs \in 0..MaxInputs
    /\ failed \subseteq 1..requestSeq
    /\ stale \in BOOLEAN

-------------------------------------------------------------------------------
\* What fetchProjects asks for in the present render.
CurrentQuery == [page |-> page, search |-> debouncedQ]

\* Mutant: every request carries the same ticket.
FetchSameTicket(query) ==
    /\ requestSeq' = requestSeq
    /\ loading' = TRUE
    /\ error' = FALSE
    /\ stale' = (query # CurrentQuery')
    /\ flights' = flights \cup
          {[seq |-> requestSeq, query |-> query, list |-> None]}

\* fetchProjects: takes the next ticket and sends the request.
Fetch(query) ==
    /\ requestSeq' = requestSeq + 1
    /\ loading' = TRUE
    /\ error' = FALSE
    /\ stale' = (query # CurrentQuery')
    /\ flights' = flights \cup
          {[seq |-> requestSeq + 1, query |-> query, list |-> None]}

\* The effect on [page, debouncedQ], after a render that may have changed them.
FetchIfChanged ==
    IF CurrentQuery' # CurrentQuery
    THEN Fetch(CurrentQuery')
    ELSE UNCHANGED <<requestSeq, loading, error, flights, stale>>

\* The page has been mounted and its first request sent.
Init ==
    /\ page = 1 /\ q = NoSearch /\ debouncedQ = NoSearch
    /\ requestSeq = 1 /\ loading = TRUE /\ error = FALSE
    /\ result = None
    /\ updating = None
    /\ flights = {[seq |-> 1, list |-> None,
                   query |-> [page |-> 1, search |-> NoSearch]]}
    /\ reportType \in Types
    /\ applied = 0 /\ acknowledged = 0 /\ inputs = 0
    /\ failed = {} /\ stale = FALSE

-------------------------------------------------------------------------------
(* The user and the timer *)

Input == inputs < MaxInputs /\ inputs' = inputs + 1

\* A key in the search box: back to page 1 at once, the search when the timer
\* fires.
Type ==
    /\ Input
    /\ \E text \in Searches \ {q} : q' = text
    /\ page' = 1
    /\ UNCHANGED debouncedQ
    /\ FetchIfChanged
    /\ UNCHANGED <<result, updating, database, acknowledged, failed>>

\* useDebouncedValue: the box has been left alone for 300 ms.
Debounce ==
    /\ q # debouncedQ
    /\ debouncedQ' = q
    /\ UNCHANGED <<page, q>>
    /\ FetchIfChanged
    /\ UNCHANGED <<result, updating, database, acknowledged, failed, inputs>>

\* The table, with its pagination and its radio buttons, is on display.
TableShown == ~loading /\ result # None

TurnPage ==
    /\ Input
    /\ TableShown
    /\ \E p \in Pages : (p = page + 1 \/ p = page - 1) /\ page' = p
    /\ UNCHANGED <<q, debouncedQ>>
    /\ FetchIfChanged
    /\ UNCHANGED <<result, updating, database, acknowledged, failed>>

DismissError ==
    /\ error
    /\ error' = FALSE
    /\ UNCHANGED <<page, q, debouncedQ, requestSeq, loading, result, updating,
                   flights, database, history>>

\* handleReportTypeChange, up to its await.
ChangeReportType ==
    /\ Input
    /\ TableShown
    /\ updating = None
    /\ \E type \in Types \ {result.type} :
          updating' = [type |-> type, done |-> FALSE, refetch |-> CurrentQuery]
    /\ UNCHANGED <<page, q, debouncedQ, requestSeq, loading, error, result,
                   flights, database, acknowledged, failed, stale>>

-------------------------------------------------------------------------------
(* The server *)

ReadList(n) ==
    /\ \E f \in flights :
          /\ f.seq = n
          /\ f.list = None
          /\ flights' = (flights \ {f}) \cup
                {[f EXCEPT !.list = [seq |-> n, query |-> f.query,
                                     type |-> reportType, asOf |-> applied]]}
    /\ UNCHANGED <<component, database, history>>

\* PATCH /projects/:id/report-type.
UpdateReportType ==
    /\ updating # None
    /\ ~updating.done
    /\ reportType' = updating.type
    /\ applied' = applied + 1
    /\ updating' = [updating EXCEPT !.done = TRUE]
    /\ UNCHANGED <<page, q, debouncedQ, requestSeq, loading, error, result,
                   flights, history>>

-------------------------------------------------------------------------------
(* The answers *)

\* Mutant: like the other list pages, without a ticket.
ReceiveAny(n) ==
    /\ \E f \in flights :
          /\ f.seq = n
          /\ f.list # None
          /\ flights' = flights \ {f}
          /\ result' = f.list
    /\ loading' = FALSE
    /\ UNCHANGED <<page, q, debouncedQ, requestSeq, error, updating, database,
                   history>>

\* A list arrives: it counts only if its ticket is the newest.
Receive(n) ==
    /\ \E f \in flights :
          /\ f.seq = n
          /\ f.list # None
          /\ flights' = flights \ {f}
          /\ result' = IF n = requestSeq THEN f.list ELSE result
    /\ loading' = (loading /\ n # requestSeq)
    /\ UNCHANGED <<page, q, debouncedQ, requestSeq, error, updating, database,
                   history>>

\* Mutant: the spinner is taken away in then, not in finally.
FailKeepsLoading(n) ==
    /\ \E f \in flights : f.seq = n /\ flights' = flights \ {f}
    /\ error' = (error \/ n = requestSeq)
    /\ failed' = failed \cup {n}
    /\ UNCHANGED <<page, q, debouncedQ, requestSeq, loading, result, updating,
                   database, acknowledged, stale, inputs>>

\* The request or its answer is lost, or the answer is an error.
Fail(n) ==
    /\ \E f \in flights : f.seq = n /\ flights' = flights \ {f}
    /\ loading' = (loading /\ n # requestSeq)
    /\ error' = (error \/ n = requestSeq)
    /\ failed' = failed \cup {n}
    /\ UNCHANGED <<page, q, debouncedQ, requestSeq, result, updating,
                   database, acknowledged, stale, inputs>>

\* Mutant: the page trusts its own list after the update.
UpdatedNoRefetch ==
    /\ updating # None
    /\ updating.done
    /\ updating' = None
    /\ acknowledged' = applied
    /\ UNCHANGED <<page, q, debouncedQ, requestSeq, loading, error, result,
                   flights, database, failed, stale, inputs>>

\* handleReportTypeChange goes on after its await: fetchProjects is the one of
\* the render in which the radio button was clicked.
Updated ==
    /\ updating # None
    /\ updating.done
    /\ UNCHANGED <<page, q, debouncedQ, result, database, failed, inputs>>
    /\ Fetch(updating.refetch)
    /\ updating' = None
    /\ acknowledged' = applied

\* The update or its answer is lost, or refused.
UpdateFails ==
    /\ updating # None
    /\ error' = TRUE
    /\ updating' = None
    /\ UNCHANGED <<page, q, debouncedQ, requestSeq, loading, result, flights,
                   database, history>>

-------------------------------------------------------------------------------
Settle(n) == Receive(n) \/ Fail(n)

Next ==
    \/ Type \/ Debounce \/ TurnPage \/ DismissError \/ ChangeReportType
    \/ UpdateReportType \/ Updated \/ UpdateFails
    \/ \E n \in 1..MaxSeq : ReadList(n) \/ Settle(n)

\* Every request is answered or fails in the end, and timers fire.
Fairness ==
    /\ \A n \in 1..MaxSeq : WF_vars(Settle(n))
    /\ WF_vars(Updated \/ UpdateFails)
    /\ WF_vars(Debounce)

Spec == Init /\ [][Next]_vars /\ Fairness

-------------------------------------------------------------------------------
\* Nothing is on its way: no request, no update, no timer.
Quiet == flights = {} /\ updating = None /\ q = debouncedQ

NewestSucceeded == requestSeq \notin failed

\* When everything has settled, the list on display is the answer to the
\* newest request, in whatever order the answers came; and that request was for
\* the page and the search of now, unless the refetch after an update overtook
\* a key or a page turn.
NewestAnswerIsShown ==
    Quiet /\ NewestSucceeded =>
        /\ ~loading /\ result # None /\ result.seq = requestSeq
        /\ stale \/ result.query = CurrentQuery

\* Once the page has reported an update as saved and everything has settled,
\* the list on display was read after it: a list that was requested before the
\* update does not come back over the refetch.
OwnUpdatesAreShown ==
    Quiet /\ NewestSucceeded => result.asOf >= acknowledged

\* The spinner does not stay.
LoadingEnds == loading ~> ~loading

===============================================================================
