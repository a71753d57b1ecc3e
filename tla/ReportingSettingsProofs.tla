------------------------- MODULE ReportingSettingsProofs -------------------------
(***************************************************************************)
(* Theorems about ReportingSettings for any searches, pages and number of  *)
(* inputs.                                                                 *)
(***************************************************************************)
EXTENDS ReportingSettings, TLAPS

-------------------------------------------------------------------------------
One(condition) == IF condition THEN 1 ELSE 0

\* What the inputs so far may still cost: a request when the timer fires, one
\* after the update that is in progress.
BudgetInv ==
    /\ requestSeq + One(q # debouncedQ) + One(updating # None) <= 2 * inputs + 1
    /\ applied + One(updating # None /\ ~updating.done) <= inputs

\* Tickets are taken in order, and a list carries the ticket and the query of its
\* request.
TicketsInv ==
    /\ requestSeq >= 1
    /\ \A f \in flights :
          /\ f.seq <= requestSeq
          /\ f.list # None => f.list.seq = f.seq /\ f.list.query = f.query

\* A list that answers the query of now, and knows of every update that the page
\* knows of.
ForNow(query) == stale \/ query = CurrentQuery

UpToDate(list) == ForNow(list.query) /\ list.asOf >= acknowledged

\* The newest request is under way, or its answer is on display, or it failed.
NewestInv ==
    /\ \A f \in flights : f.seq = requestSeq =>
          /\ ForNow(f.query)
          /\ f.list # None => f.list.asOf >= acknowledged
    /\ \/ requestSeq \in failed
       \/ \E f \in flights : f.seq = requestSeq
       \/ ~loading /\ result # None /\ result.seq = requestSeq /\ UpToDate(result)

-------------------------------------------------------------------------------
\* What taking a ticket and sending a request does to the page.
Fetched(query) ==
    /\ requestSeq' = requestSeq + 1
    /\ loading' \in BOOLEAN /\ error' \in BOOLEAN /\ stale' \in BOOLEAN
    /\ stale' \/ query = CurrentQuery'
    /\ flights' = flights \cup
          {[seq |-> requestSeq + 1, query |-> query, list |-> None]}

\* fetchProjects, whether for the present render or for one it was closed over in.
LEMMA FetchFacts ==
  ASSUME NEW query, Fetch(query)
  PROVE  Fetched(query)
<1> DEFINE old == query # CurrentQuery'
<1>1. old \in BOOLEAN /\ (old \/ query = CurrentQuery')
  OBVIOUS
<1>2. stale' = old
  BY DEF Fetch
<1> HIDE DEF old
<1> QED
  BY <1>1, <1>2 DEF Fetch, Fetched

\* The effect sends a request for what the component shows by now, or its query
\* has not changed and neither has anything else.
LEMMA FetchIfChangedFacts ==
  ASSUME FetchIfChanged
  PROVE  \/ Fetched(CurrentQuery')
         \/ /\ CurrentQuery' = CurrentQuery
            /\ UNCHANGED <<requestSeq, loading, error, flights, stale>>
BY FetchFacts DEF FetchIfChanged

\* A request that is sent keeps the types and the order of the tickets.
LEMMA FetchedTypes ==
  ASSUME TypeOK, TicketsInv, NEW query \in Query, Fetched(query),
         requestSeq + 1 <= MaxSeq, MaxSeq \in Nat
  PROVE  /\ requestSeq' \in 0..MaxSeq
         /\ loading' \in BOOLEAN /\ error' \in BOOLEAN /\ stale' \in BOOLEAN
         /\ flights' \subseteq Flight
         /\ \A f, g \in flights' : f.seq = g.seq => f = g
         /\ TicketsInv'
<1> DEFINE sent == [seq |-> requestSeq + 1, query |-> query, list |-> None]
<1>1. requestSeq \in 0..MaxSeq /\ requestSeq' = requestSeq + 1
  BY DEF TypeOK, Fetched
<1>2. /\ sent \in Flight
      /\ sent.seq = requestSeq + 1 /\ sent.list = None
  BY <1>1 DEF Flight, TicketsInv
<1>3. flights' = flights \cup {sent}
  BY DEF Fetched
<1> HIDE DEF sent
<1>4. \A f \in flights : f \in Flight /\ f.seq \in Nat /\ f.seq <= requestSeq
  BY DEF TypeOK, TicketsInv, Flight
<1>5. \A f, g \in flights' : f.seq = g.seq => f = g
  BY <1>1, <1>2, <1>3, <1>4 DEF TypeOK
<1>6. TicketsInv'
  BY <1>1, <1>2, <1>3, <1>4 DEF TicketsInv
<1> QED
  BY <1>1, <1>2, <1>3, <1>4, <1>5, <1>6 DEF Fetched

\* A request that is answered, or lost, leaves the others as they are.
LEMMA FewerFlights ==
  ASSUME TypeOK, TicketsInv, flights' \subseteq flights, requestSeq' = requestSeq
  PROVE  /\ flights' \subseteq Flight
         /\ \A f, g \in flights' : f.seq = g.seq => f = g
         /\ TicketsInv'
BY DEF TypeOK, TicketsInv

\* The server reads a list for one request, with the query of that request.
LEMMA ReadListFacts ==
  ASSUME TypeOK, TicketsInv, NEW n, ReadList(n)
  PROVE  \E f \in flights, g \in Flight :
            /\ flights' = (flights \ {f}) \cup {g}
            /\ f.seq = n /\ f.list = None
            /\ g.seq = n /\ g.query = f.query
            /\ g.list # None =>
                 g.list.seq = n /\ g.list.query = f.query /\ g.list.asOf = applied
<1>1. PICK f \in flights :
        /\ f.seq = n /\ f.list = None
        /\ flights' = (flights \ {f}) \cup
              {[f EXCEPT !.list = [seq |-> n, query |-> f.query,
                                   type |-> reportType, asOf |-> applied]]}
  BY DEF ReadList
<1> DEFINE list == [seq |-> n, query |-> f.query, type |-> reportType,
                    asOf |-> applied]
           g == [f EXCEPT !.list = list]
<1>2. f \in Flight
  BY DEF TypeOK
<1>3. /\ list \in List
      /\ list.seq = n /\ list.query = f.query /\ list.asOf = applied
  BY <1>1, <1>2 DEF List, Flight, TypeOK
<1> HIDE DEF list
<1>4. /\ g \in Flight
      /\ g.seq = n /\ g.query = f.query /\ g.list = list
  BY <1>1, <1>2, <1>3 DEF Flight
<1>5. flights' = (flights \ {f}) \cup {g}
  BY <1>1 DEF list
<1> HIDE DEF g
<1> QED
  BY <1>1, <1>3, <1>4, <1>5

\* MaxSeq, said so that arithmetic alone is needed.
LEMMA MaxSeqIs == MaxSeq = 2 * MaxInputs + 1 /\ MaxSeq \in Nat /\ MaxInputs \in Nat
BY BoundAssumption DEF MaxSeq

-------------------------------------------------------------------------------
RowsInv == TypeOK /\ BudgetInv /\ TicketsInv

\* The bound on the inputs bounds the requests: each is paid for by a key, a page
\* turn or a radio button.
LEMMA BudgetStep ==
  ASSUME RowsInv, [Next]_vars
  PROVE  BudgetInv'
<1> USE DEF BudgetInv, One, component, database, history
<1>1. /\ requestSeq \in Nat /\ inputs \in Nat /\ applied \in Nat
      /\ updating # None => updating \in Updating
  BY MaxSeqIs DEF RowsInv, TypeOK
<1>2. /\ requestSeq + One(q # debouncedQ) + One(updating # None) <= 2 * inputs + 1
      /\ applied + One(updating # None /\ ~updating.done) <= inputs
  BY DEF RowsInv
<1>3. FetchIfChanged => requestSeq' \in {requestSeq, requestSeq + 1}
  BY DEF FetchIfChanged, Fetch
<1>4. CASE UNCHANGED <<q, debouncedQ, requestSeq, updating, inputs, applied>>
  BY <1>2, <1>4
<1>5. CASE Type
  BY <1>1, <1>2, <1>3, <1>5 DEF Type, Input
<1>6. CASE Debounce
  BY <1>1, <1>2, <1>3, <1>6 DEF Debounce
<1>7. CASE TurnPage
  BY <1>1, <1>2, <1>3, <1>7 DEF TurnPage, Input
<1>8. CASE ChangeReportType
  BY <1>1, <1>2, <1>8 DEF ChangeReportType, Input
<1>9. CASE UpdateReportType
  BY <1>1, <1>2, <1>9 DEF UpdateReportType, Updating
<1>10. CASE Updated
  BY <1>1, <1>2, <1>10 DEF Updated, Fetch
<1>11. CASE UpdateFails
  BY <1>1, <1>2, <1>11 DEF UpdateFails
<1>12. CASE \/ DismissError
            \/ \E n \in 1..MaxSeq : ReadList(n) \/ Settle(n)
  BY <1>4, <1>12 DEF DismissError, ReadList, Settle, Receive, Fail
<1> QED
  BY <1>4, <1>5, <1>6, <1>7, <1>8, <1>9, <1>10, <1>11, <1>12 DEF Next, vars

\* Types, tickets and what the requests cost are one invariant.
LEMMA RowsStep ==
  ASSUME RowsInv, [Next]_vars
  PROVE  RowsInv'
<1> USE DEF component, database, history
<1>1. BudgetInv'
  BY BudgetStep
<1>2. TypeOK /\ TicketsInv
  BY DEF RowsInv
<1>3. /\ requestSeq \in Nat /\ inputs \in 0..MaxInputs /\ applied \in Nat
      /\ acknowledged \in Nat /\ acknowledged <= applied
      /\ One(q # debouncedQ) \in {0, 1} /\ One(updating # None) \in {0, 1}
      /\ One(q # debouncedQ)' \in {0, 1} /\ One(updating # None)' \in {0, 1}
  BY <1>2, MaxSeqIs DEF TypeOK, One
<1>4. ASSUME inputs' \in 0..MaxInputs, requestSeq' \in Nat
      PROVE  requestSeq' <= MaxSeq
  <2>1. One(q # debouncedQ)' \in {0, 1} /\ One(updating # None)' \in {0, 1}
    BY DEF One
  <2> QED
    BY <1>1, <1>4, <2>1, MaxSeqIs DEF BudgetInv
<1>5. ASSUME FetchIfChanged, page' \in Pages, debouncedQ' \in Searches,
             inputs' \in 0..MaxInputs
      PROVE  /\ requestSeq' \in 0..MaxSeq /\ requestSeq <= requestSeq'
             /\ loading' \in BOOLEAN /\ error' \in BOOLEAN /\ stale' \in BOOLEAN
             /\ flights' \subseteq Flight
             /\ \A f, g \in flights' : f.seq = g.seq => f = g
             /\ TicketsInv'
  <2>1. CASE Fetched(CurrentQuery')
    <3>1. requestSeq' = requestSeq + 1 /\ requestSeq + 1 <= MaxSeq
      BY <1>3, <1>4, <1>5, <2>1 DEF Fetched
    <3>2. CurrentQuery' \in Query
      BY <1>5 DEF CurrentQuery, Query
    <3> QED
      BY <1>2, <1>3, <2>1, <3>1, <3>2, FetchedTypes, MaxSeqIs
  <2>2. CASE UNCHANGED <<requestSeq, loading, error, flights, stale>>
    BY <1>2, <1>3, <2>2 DEF TypeOK, TicketsInv
  <2> QED
    BY <1>5, <2>1, <2>2, FetchIfChangedFacts
<1>6. CASE UNCHANGED vars
  BY <1>1, <1>2, <1>6 DEF vars, TypeOK, RowsInv, TicketsInv
<1>7. CASE Type
  <2>1. /\ page' \in Pages /\ q' \in Searches /\ debouncedQ' \in Searches
        /\ inputs' \in 0..MaxInputs
        /\ FetchIfChanged
    BY <1>2, <1>7, MaxSeqIs, PageAssumption DEF Type, Input, TypeOK
  <2> QED
    BY <1>1, <1>2, <1>3, <1>5, <1>7, <2>1 DEF Type, TypeOK, RowsInv
<1>8. CASE Debounce
  <2>1. /\ page' \in Pages /\ q' \in Searches /\ debouncedQ' \in Searches
        /\ inputs' \in 0..MaxInputs
        /\ FetchIfChanged
    BY <1>2, <1>8 DEF Debounce, TypeOK
  <2> QED
    BY <1>1, <1>2, <1>3, <1>5, <1>8, <2>1 DEF Debounce, TypeOK, RowsInv
<1>9. CASE TurnPage
  <2>1. /\ page' \in Pages /\ q' \in Searches /\ debouncedQ' \in Searches
        /\ inputs' \in 0..MaxInputs
        /\ FetchIfChanged
    BY <1>2, <1>9, MaxSeqIs DEF TurnPage, Input, TypeOK
  <2> QED
    BY <1>1, <1>2, <1>3, <1>5, <1>9, <2>1 DEF TurnPage, TypeOK, RowsInv
<1>10. CASE ChangeReportType
  <2>1. updating' \in Updating
    BY <1>2, <1>10 DEF ChangeReportType, TypeOK, Updating, CurrentQuery, Query
  <2>2. inputs' \in 0..MaxInputs
    BY <1>2, <1>10, MaxSeqIs DEF ChangeReportType, Input, TypeOK
  <2> QED
    BY <1>1, <1>2, <1>10, <2>1, <2>2
    DEF ChangeReportType, TypeOK, RowsInv, TicketsInv
<1>11. CASE UpdateReportType
  <2>1. updating' \in Updating /\ updating.type \in Types
    BY <1>2, <1>11 DEF UpdateReportType, TypeOK, Updating
  <2>2. applied' \in 0..MaxInputs /\ acknowledged' \in 0..applied'
    <3>1. One(updating # None /\ ~updating.done)' \in {0, 1}
      BY DEF One
    <3> QED
      BY <1>1, <1>3, <1>11, <3>1, MaxSeqIs DEF UpdateReportType, BudgetInv
  <2> QED
    BY <1>1, <1>2, <1>11, <2>1, <2>2
    DEF UpdateReportType, TypeOK, RowsInv, TicketsInv
<1>12. CASE Updated
  <2>1. updating.refetch \in Query /\ Fetched(updating.refetch)
    BY <1>2, <1>12, FetchFacts DEF Updated, TypeOK, Updating
  <2>2. requestSeq' = requestSeq + 1 /\ requestSeq + 1 <= MaxSeq
    BY <1>3, <1>4, <1>12, <2>1 DEF Updated, Fetched
  <2>3. acknowledged' \in 0..applied'
    BY <1>3, <1>12 DEF Updated
  <2> QED
    BY <1>1, <1>2, <1>3, <1>12, <2>1, <2>2, <2>3, FetchedTypes, MaxSeqIs
    DEF Updated, TypeOK, RowsInv
<1>13. CASE UpdateFails \/ DismissError
  BY <1>1, <1>2, <1>13
  DEF UpdateFails, DismissError, TypeOK, RowsInv, TicketsInv
<1>14. ASSUME NEW n \in 1..MaxSeq, ReadList(n)
       PROVE  RowsInv'
  <2>1. PICK f \in flights, g \in Flight :
          /\ flights' = (flights \ {f}) \cup {g}
          /\ f.seq = n /\ g.seq = n /\ g.query = f.query
          /\ g.list # None => g.list.seq = n /\ g.list.query = f.query
    BY <1>2, <1>14, ReadListFacts
  <2>2. UNCHANGED <<component, database, history>>
    BY <1>14 DEF ReadList
  <2>3. /\ flights' \subseteq Flight
        /\ \A x, y \in flights' : x.seq = y.seq => x = y
        /\ TicketsInv'
    BY <1>2, <2>1, <2>2 DEF TypeOK, TicketsInv
  <2> QED
    BY <1>1, <1>2, <2>2, <2>3 DEF TypeOK, RowsInv
<1>15. ASSUME NEW n \in 1..MaxSeq, Settle(n)
       PROVE  RowsInv'
  <2>1. PICK f \in flights : f.seq = n /\ flights' = flights \ {f}
    BY <1>15 DEF Settle, Receive, Fail
  <2>2. /\ requestSeq' = requestSeq
        /\ flights' \subseteq Flight
        /\ \A x, y \in flights' : x.seq = y.seq => x = y
        /\ TicketsInv'
    BY <1>2, <1>15, <2>1, FewerFlights DEF Settle, Receive, Fail
  <2>3. loading' \in BOOLEAN /\ error' \in BOOLEAN
    <3>1. (loading /\ n # requestSeq) \in BOOLEAN
          /\ (error \/ n = requestSeq) \in BOOLEAN
      OBVIOUS
    <3> QED
      BY <1>2, <1>15, <3>1 DEF Settle, Receive, Fail, TypeOK
  <2>4. CASE Receive(n)
    <3>1. result' \in List \cup {None}
      BY <1>2, <2>4 DEF Receive, TypeOK, Flight
    <3> QED
      BY <1>1, <1>2, <2>2, <2>3, <2>4, <3>1 DEF Receive, TypeOK, RowsInv
  <2>5. CASE Fail(n)
    <3>1. n \in 1..requestSeq
      BY <1>2, <2>1 DEF TicketsInv
    <3> QED
      BY <1>1, <1>2, <2>2, <2>3, <2>5, <3>1 DEF Fail, TypeOK, RowsInv
  <2> QED
    BY <1>15, <2>4, <2>5 DEF Settle
<1> QED
  BY <1>6, <1>7, <1>8, <1>9, <1>10, <1>11, <1>12, <1>13, <1>14, <1>15 DEF Next

\* The page as it is mounted.
LEMMA RowsInit ==
  ASSUME Init
  PROVE  RowsInv
<1>1. TypeOK
  <2>1. flights \subseteq Flight
    BY MaxSeqIs, PageAssumption, SearchAssumption DEF Init, Flight, Query
  <2>2. \A f, g \in flights : f.seq = g.seq => f = g
    BY DEF Init
  <2>3. /\ requestSeq \in 0..MaxSeq /\ applied \in 0..MaxInputs
        /\ acknowledged \in 0..applied /\ inputs \in 0..MaxInputs
    BY MaxSeqIs DEF Init
  <2> QED
    BY <2>1, <2>2, <2>3, PageAssumption, SearchAssumption DEF Init, TypeOK
<1>2. BudgetInv
  BY DEF Init, BudgetInv, One
<1>3. TicketsInv
  BY DEF Init, TicketsInv
<1> QED
  BY <1>1, <1>2, <1>3 DEF RowsInv

\* Types, budget and tickets are right in every behaviour.
THEOREM RowsCorrect == Spec => []RowsInv
BY RowsInit, RowsStep, PTL DEF Spec

\* Every step keeps the types; two requests never carry the same ticket.
THEOREM TypeCorrect == Spec => []TypeOK
<1>1. RowsInv => TypeOK
  BY DEF RowsInv
<1> QED
  BY <1>1, RowsCorrect, PTL

-------------------------------------------------------------------------------
\* A request that has just been sent is the newest, and has no list yet.
LEMMA FetchedIsNewest ==
  ASSUME RowsInv, NEW query, Fetched(query)
  PROVE  NewestInv'
<1>1. /\ requestSeq' = requestSeq + 1 /\ requestSeq \in Nat
      /\ \A f \in flights : f.seq \in Nat /\ f.seq <= requestSeq
  BY MaxSeqIs DEF RowsInv, TypeOK, TicketsInv, Flight, Fetched
<1>2. \A f \in flights' : f.seq = requestSeq' =>
        f = [seq |-> requestSeq + 1, query |-> query, list |-> None]
  BY <1>1 DEF Fetched
<1>3. [seq |-> requestSeq + 1, query |-> query, list |-> None] \in flights'
  BY DEF Fetched
<1>4. stale' \/ query = CurrentQuery'
  BY DEF Fetched
<1> QED
  BY <1>1, <1>2, <1>3, <1>4 DEF NewestInv, ForNow

\* The newest request stays under way until its answer is on display or it has
\* failed, whichever of the others are answered meanwhile.
LEMMA NewestStep ==
  ASSUME RowsInv, NewestInv, [Next]_vars
  PROVE  NewestInv'
<1> USE DEF component, database, history, ForNow, UpToDate, CurrentQuery
<1>1. TypeOK /\ TicketsInv
  BY DEF RowsInv
<1>2. CASE UNCHANGED <<page, debouncedQ, requestSeq, loading, result, flights,
                       acknowledged, failed, stale>>
  BY <1>2 DEF NewestInv
<1>3. CASE Type \/ Debounce \/ TurnPage
  <2>1. CASE \E query : Fetched(query)
    BY <2>1, FetchedIsNewest
  <2>2. CASE /\ CurrentQuery' = CurrentQuery
             /\ UNCHANGED <<requestSeq, loading, error, flights, stale>>
    <3>1. UNCHANGED <<result, acknowledged, failed>>
      BY <1>3 DEF Type, Debounce, TurnPage
    <3> QED
      BY <2>2, <3>1 DEF NewestInv
  <2>3. FetchIfChanged
    BY <1>3 DEF Type, Debounce, TurnPage
  <2> QED
    BY <2>1, <2>2, <2>3, FetchIfChangedFacts
<1>4. CASE Updated
  BY <1>4, FetchFacts, FetchedIsNewest DEF Updated
<1>5. ASSUME NEW n \in 1..MaxSeq, ReadList(n)
      PROVE  NewestInv'
  <2>1. PICK f \in flights, g \in Flight :
          /\ flights' = (flights \ {f}) \cup {g}
          /\ f.seq = n /\ g.seq = n /\ g.query = f.query
          /\ g.list # None => g.list.asOf = applied
    BY <1>1, <1>5, ReadListFacts
  <2>2. applied >= acknowledged
    BY <1>1, MaxSeqIs DEF TypeOK
  <2>3. UNCHANGED <<component, database, history>>
    BY <1>5 DEF ReadList
  <2> QED
    BY <2>1, <2>2, <2>3 DEF NewestInv
<1>6. ASSUME NEW n \in 1..MaxSeq, Settle(n)
      PROVE  NewestInv'
  <2>1. UNCHANGED <<page, debouncedQ, requestSeq, acknowledged, stale>>
    BY <1>6 DEF Settle, Receive, Fail
  <2>2. PICK f \in flights : f.seq = n /\ flights' = flights \ {f}
    BY <1>6 DEF Settle, Receive, Fail
  <2>3. \A g \in flights : g.seq = n => g = f
    BY <1>1, <2>2 DEF TypeOK
  <2>4. CASE Fail(n)
    <3>1. /\ result' = result /\ failed' = failed \cup {n}
          /\ ~loading => ~loading'
      BY <2>4 DEF Fail
    <3> QED
      BY <2>1, <2>2, <3>1 DEF NewestInv
  <2>5. CASE Receive(n) /\ n = requestSeq
    <3>1. f.list # None /\ result' = f.list /\ ~loading'
      BY <2>3, <2>5 DEF Receive
    <3>2. f.list.seq = n /\ f.list.query = f.query
      BY <1>1, <2>2, <3>1 DEF TicketsInv
    <3> QED
      BY <2>1, <2>2, <2>5, <3>1, <3>2 DEF NewestInv
  <2>6. CASE Receive(n) /\ n # requestSeq
    <3>1. UNCHANGED <<result, failed>> /\ (~loading => ~loading')
      BY <2>6 DEF Receive
    <3> QED
      BY <2>1, <2>2, <2>6, <3>1 DEF NewestInv
  <2> QED
    BY <1>6, <2>4, <2>5, <2>6 DEF Settle
<1>7. CASE DismissError \/ ChangeReportType \/ UpdateReportType \/ UpdateFails
  BY <1>2, <1>7 DEF DismissError, ChangeReportType, UpdateReportType, UpdateFails
<1> QED
  BY <1>2, <1>3, <1>4, <1>5, <1>6, <1>7 DEF Next, vars

\* What is on display, or under way, or has failed, always belongs to the newest
\* ticket.
THEOREM NewestCorrect == Spec => []NewestInv
<1>1. Init => NewestInv
  BY DEF Init, NewestInv, ForNow, CurrentQuery
<1> QED
  BY <1>1, NewestStep, RowsCorrect, PTL DEF Spec

\* When nothing is on its way, the list on display answers the newest request,
\* and that request was for the page and the search of now, in whatever order the
\* answers came and however many were lost on the way.
THEOREM NewestAnswerIsShownAlways == Spec => []NewestAnswerIsShown
<1>1. NewestInv => NewestAnswerIsShown
  BY DEF NewestInv, NewestAnswerIsShown, Quiet, NewestSucceeded, UpToDate, ForNow
<1> QED
  BY <1>1, NewestCorrect, PTL

\* And the list was read after every update the page has reported as saved: an
\* older list does not come back over the refetch.
THEOREM OwnUpdatesAreShownAlways == Spec => []OwnUpdatesAreShown
<1>1. NewestInv => OwnUpdatesAreShown
  BY DEF NewestInv, OwnUpdatesAreShown, Quiet, NewestSucceeded, UpToDate
<1> QED
  BY <1>1, NewestCorrect, PTL
===============================================================================
