------------------------------ MODULE Browsing ------------------------------
(***************************************************************************)
(* The two lists of the UI that are read page by page while rows are       *)
(* committed: the requests, by cursor (requestBrowserData.ts,              *)
(* api/ui/requests.py, db/repositories/requests.py), and the conversations,*)
(* by offset (ChatView.tsx, get_conversations).  Both are infinite queries *)
(* of the UI's query library: a page more on scrolling, and on a timer all *)
(* pages anew, one after the other, shown when the last is there.          *)
(*                                                                         *)
(* A row has the time its entry was made, not that of its commit: it can   *)
(* be older than rows committed before it, or as old.                      *)
(***************************************************************************)
EXTENDS Integers, FiniteSets, Sequences

CONSTANTS
    PageSize,   \* of each list: 50 requests, 40 conversations
    Tags,       \* what a row is listed by: its model, its conversation
    Matching,   \* models the filter finds
    MaxRows,    \* bound on the rows
    MaxTime,    \* bound on the timestamps
    None

Lists == {"requests", "conversations"}

ASSUME PageSizeAssumption == PageSize \in [Lists -> Nat \ {0}]
ASSUME TagsAssumption == Matching \subseteq Tags
ASSUME BoundsAssumption == MaxRows \in Nat /\ MaxTime \in Nat
ASSUME NoneAssumption == None \notin Seq(Seq(Nat \cup Tags)) \cup Int

Times == 1 .. MaxTime

VARIABLES
    list,       \* which list is shown
    rows,       \* proxy_requests, in commit order: [time, tag]
    pages,      \* the pages shown, of rows by number or of conversations
    reading,    \* the pages a refresh has read so far; None: none is under way
    first,      \* how many rows there were when the first page shown was read (history)
    firstRead   \* the same for the first page of reading (history)

vars == <<list, rows, pages, reading, first, firstRead>>

Rows == [time : Times, tag : Tags]
Items == IF list = "requests" THEN DOMAIN rows ELSE Tags

TypeOK ==
    /\ list \in Lists
    /\ rows \in Seq(Rows) /\ Len(rows) <= MaxRows
    /\ pages \in Seq(Seq(Items))
    /\ reading = None \/ (reading \in Seq(Seq(Items)) /\ Len(reading) < Len(pages))
    /\ first \in 0 .. Len(rows) /\ firstRead \in 0 .. Len(rows)

----------------------------------------------------------------------------
(* A page, as the server answers *)

\* The time an item is listed by: a row's, a conversation's latest.
TimeOf(item) ==
    IF list = "requests" THEN rows[item].time
    ELSE LET times == {rows[i].time : i \in {j \in DOMAIN rows : rows[j].tag = item}}
         IN  CHOOSE t \in times : \A u \in times : u <= t

\* ORDER BY the time, descending: rows as old as another come in any order.
Sorted(S) ==
    {s \in [1 .. Cardinality(S) -> S] :
        \A i, j \in 1 .. Cardinality(S) : i < j => s[i] # s[j] /\ TimeOf(s[i]) >= TimeOf(s[j])}

\* OFFSET and LIMIT.
Cut(s, offset) ==
    LET end == offset + PageSize[list]
    IN  SubSeq(s, offset + 1, IF end <= Len(s) THEN end ELSE Len(s))

\* Mutant: the cursor's row is listed again.
FoundFrom(cursor) ==
    {i \in DOMAIN rows : rows[i].tag \in Matching /\ (cursor # None => rows[i].time <= cursor)}

\* list_requests: the rows that match and are older than the cursor.
Found(cursor) ==
    {i \in DOMAIN rows : rows[i].tag \in Matching /\ (cursor # None => rows[i].time < cursor)}

Conversations == {rows[i].tag : i \in DOMAIN rows}

\* What a page parameter may be answered with.
Answers(param) ==
    IF list = "requests" THEN {Cut(s, 0) : s \in Sorted(Found(param))}
    ELSE {Cut(s, param) : s \in Sorted(Conversations)}

----------------------------------------------------------------------------
(* The infinite query *)

InitialParam == IF list = "requests" THEN None ELSE 0

\* Mutant: off by one.
NextParamLate(ps) ==
    IF ps = <<>> THEN InitialParam
    ELSE LET page == ps[Len(ps)]
         IN  IF list = "requests" THEN rows[page[Len(page)]].time ELSE Len(ps) * PageSize[list] + 1

\* getNextPageParam, where there is a next page.
NextParam(ps) ==
    IF ps = <<>> THEN InitialParam
    ELSE LET page == ps[Len(ps)]
         IN  IF list = "requests" THEN rows[page[Len(page)]].time ELSE Len(ps) * PageSize[list]

\* next_cursor is null on an empty page; a short page of conversations is the last.
HasNext(ps) ==
    ps # <<>> =>
       IF list = "requests" THEN ps[Len(ps)] # <<>> ELSE Len(ps[Len(ps)]) = PageSize[list]

\* The view opens, or the reader has scrolled to the end: fetchNextPage, which
\* gives up a refresh that is under way.
LoadMore ==
    /\ HasNext(pages)
    /\ \E page \in Answers(NextParam(pages)) : pages' = Append(pages, page)
    /\ first' = IF pages = <<>> THEN Len(rows) ELSE first
    /\ reading' = None /\ firstRead' = 0
    /\ UNCHANGED <<list, rows>>

\* Mutant: only the first page is read again.
RefreshFirstPage ==
    /\ pages # <<>>
    /\ \E page \in Answers(InitialParam) : pages' = [pages EXCEPT ![1] = page]
    /\ first' = Len(rows)
    /\ UNCHANGED <<list, rows, reading, firstRead>>

\* refetchInterval: the next page of a refresh is read; with as many pages as are
\* shown, or no next one, they take their place.
RefreshPage ==
    /\ pages # <<>>
    /\ LET begun == IF reading = None THEN <<>> ELSE reading
           from == IF reading = None THEN Len(rows) ELSE firstRead
       IN  \E page \in Answers(NextParam(begun)) :
             LET read == Append(begun, page)
             IN  IF Len(read) = Len(pages) \/ ~ HasNext(read)
                 THEN /\ pages' = read /\ first' = from
                      /\ reading' = None /\ firstRead' = 0
                 ELSE /\ reading' = read /\ firstRead' = from
                      /\ UNCHANGED <<pages, first>>
    /\ UNCHANGED <<list, rows>>

\* A page cannot be read: what is shown stays.
RefreshFails ==
    /\ reading # None
    /\ reading' = None /\ firstRead' = 0
    /\ UNCHANGED <<list, rows, pages, first>>

\* The log worker commits a row.
Commit(row) ==
    /\ Len(rows) < MaxRows
    /\ rows' = Append(rows, row)
    /\ UNCHANGED <<list, pages, reading, first, firstRead>>

Init ==
    /\ list \in Lists
    /\ rows = <<>>
    /\ pages = <<>> /\ reading = None
    /\ first = 0 /\ firstRead = 0

Next ==
    \/ LoadMore \/ RefreshPage \/ RefreshFails
    \/ \E row \in Rows : Commit(row)

Spec == Init /\ [][Next]_vars

(***************************************************************************)
(* A reader keeps scrolling (the list of requests does it for the reader   *)
(* as long as its end is in view) and auto refresh is on.                  *)
(***************************************************************************)
FairSpec == Spec /\ WF_vars(LoadMore) /\ WF_vars(RefreshPage)

----------------------------------------------------------------------------
(* Properties *)

Places == {p \in (DOMAIN pages) \X (1 .. PageSize[list]) : p[2] \in DOMAIN pages[p[1]]}
ItemAt(p) == pages[p[1]][p[2]]
Shown == {ItemAt(p) : p \in Places}

\* The list of requests shows no row twice and is in order, whatever is committed
\* between its pages and whatever the clocks.
RequestsAreListedOnce ==
    list = "requests" =>
        \A p, q \in Places :
            p[1] < q[1] \/ (p[1] = q[1] /\ p[2] < q[2]) =>
                ItemAt(p) # ItemAt(q) /\ TimeOf(ItemAt(p)) >= TimeOf(ItemAt(q))

\* What was there when the first page was read is not skipped by the later ones: a
\* matching row that is not shown is older than all that is, or as old as the last
\* row of a page; at the end of the list none is older.
NothingIsSkipped ==
    list = "requests" /\ pages # <<>> =>
        \A r \in 1 .. first :
            rows[r].tag \in Matching =>
                \/ r \in Shown
                \/ \E i \in DOMAIN pages :
                      pages[i] # <<>> /\ rows[r].time = rows[pages[i][Len(pages[i])]].time
                \/ HasNext(pages) /\ \A s \in Shown : rows[r].time < rows[s].time

\* No two conversations have rows as old as one another.
NoTies == \A i, j \in DOMAIN rows : rows[i].time = rows[j].time => rows[i].tag = rows[j].tag

\* A conversation nothing is added to is not skipped, however many others move to
\* the top between two pages: at the end of the list it is there.
IdleConversationsAreListed ==
    list = "conversations" /\ pages # <<>> /\ ~ HasNext(pages) /\ NoTies =>
        \A r \in 1 .. first :
            (\A s \in first + 1 .. Len(rows) : rows[s].tag # rows[r].tag) => rows[r].tag \in Shown

\* If its requests do not fail for ever, auto refresh gets every committed row into
\* the list, whatever its timestamp, but for a tie at the end of a page.
EveryRowIsListedInTheEnd ==
    <>[][~ RefreshFails]_vars =>
        \A n \in 1 .. MaxRows :
            []<>(n \in DOMAIN rows =>
                    CASE list = "conversations" -> NoTies => rows[n].tag \in Shown
                      [] list = "requests" ->
                            \/ n \in Shown \/ rows[n].tag \notin Matching
                            \/ \E i \in DOMAIN pages :
                                  /\ pages[i] # <<>>
                                  /\ rows[n].time = rows[pages[i][Len(pages[i])]].time)
=============================================================================
