--------------------------- MODULE VoteEventLists ---------------------------
(***************************************************************************)
(* The lists of vote events, read page by page with a cursor while events  *)
(* are opened, voted on and completed (EventBoard): the ongoing list with  *)
(* its main vote, the completed list, and the lists of what a user created *)
(* or took part in; and the counts of the home page.  Each is one client   *)
(* at a time: clients that only read do not meet.                          *)
(*                                                                         *)
(* A definition named D_How is a slip of D that a check has to notice; the *)
(* specification does not use it.                                          *)
(***************************************************************************)
EXTENDS EventBoard, Sequences

CONSTANTS
    Rows, Votes,   \* the events that may be opened, the bets that may be made
    InitialCreatedAt,
    Queries,       \* what the client may list
    PageLimit

\* Which list, in which order, of which category (Null for all) and user.
Query == [list : {"ongoing", "completed", "created", "participated"},
          sort : {"latest", "deadline", "participants"},
          category : {"daily", "balance", "work", "betting", Null},
          user : Users \cup {Null}]

\* A decoded cursor: the last item of a page, and the main vote.
ListCursor == [category : {"daily", "balance", "work", "betting", Null},
               sort : {"latest", "deadline", "participants"},
               id : Events, orderGroup : {0, 1}, orderValue : Nat,
               mainVoteId : Events \cup {Null}]

ASSUME ListsAssumption ==
    /\ IsFiniteSet(Ids) /\ IsFiniteSet(Events)
    /\ Events \subseteq Nat  \* ordered like the uuids
    /\ InitialRows \in [Events -> Row \cup {Null}]
    /\ InitialCreatedAt \in [Events -> Nat]
    /\ Rows \subseteq Row /\ Votes \subseteq Vote
    /\ Queries \subseteq Query /\ PageLimit \in Nat \ {0}

ASSUME ListsNullAssumption == Null \notin Events /\ Null \notin ListCursor

VARIABLES
    createdAt,  \* created_at of the events
    walk,       \* the client's reading of a list
    summary     \* the home page the client saw last, Null before it

vars == <<wallet, bets, result, paid, events, now, createdAt, walk, summary>>

\* query, cursor and stamp are the request's; main and pages what the client
\* was shown, an item being an event with its order group.  counts and owed are
\* for the properties: the counters the first page's statement found, and what of
\* its rows every later one still found with these counters.
NoWalk == [at |-> "idle", query |-> Null, cursor |-> Null, stamp |-> 0,
           main |-> Null, pages |-> <<>>, hasNext |-> FALSE,
           counts |-> <<>>, owed |-> {}]

-----------------------------------------------------------------------------
(* Conditions and orders of the queries, at the date a request took *)

\* ongoingCondition: the deadline is to come and the result is not confirmed.
IsOngoing(e, date) == events[e].deadlineAt > date /\ result[e] = Null

\* The rows a list has.
Listed(q, date) ==
    {e \in Opened :
        /\ q.category # Null => events[e].category = q.category
        /\ CASE q.list = "ongoing"      -> IsOngoing(e, date)
             [] q.list = "completed"    -> IsCompleted(e, date)
             [] q.list = "created"      -> events[e].organizerUserId = q.user
             [] q.list = "participated" -> OwnBets(e, q.user) # {}}

\* orderGroup: by deadline, the ongoing events come before the completed ones.
OrderGroup(q, e, date) ==
    IF q.sort = "deadline" /\ ~IsOngoing(e, date) THEN 1 ELSE 0

OrderValue(q, e) ==
    CASE q.sort = "latest"       -> createdAt[e]
      [] q.sort = "participants" -> totalParticipantCount(e)
      [] q.sort = "deadline"     -> events[e].deadlineAt

\* The next deadline first; otherwise the newest, largest or last completed.
Ascending(q, group) == q.sort = "deadline" /\ group = 0

\* publicOrderBy and userOrderBy: e comes before f.
Before(q, date, e, f) ==
    LET group == OrderGroup(q, e, date)
        x == OrderValue(q, e)
        y == OrderValue(q, f)
    IN  \/ group < OrderGroup(q, f, date)
        \/ /\ group = OrderGroup(q, f, date)
           /\ \/ IF Ascending(q, group) THEN x < y ELSE x > y
              \/ x = y /\ e < f

AfterCursor_NoId(q, date, cursor, e) ==
    LET group == OrderGroup(q, e, date)
        x == OrderValue(q, e)
    IN  \/ group > cursor.orderGroup
        \/ /\ group = cursor.orderGroup
           /\ IF Ascending(q, cursor.orderGroup) THEN x > cursor.orderValue
              ELSE x < cursor.orderValue

\* publicCursorPredicate and userCursorPredicate: e is on a later page.
AfterCursor(q, date, cursor, e) ==
    LET group == OrderGroup(q, e, date)
        x == OrderValue(q, e)
    IN  \/ group > cursor.orderGroup
        \/ /\ group = cursor.orderGroup
           /\ \/ IF Ascending(q, cursor.orderGroup) THEN x > cursor.orderValue
                 ELSE x < cursor.orderValue
              \/ x = cursor.orderValue /\ e > cursor.id

\* The rows of a statement in its order, as many as limit asks for.
FirstOf(q, date, rows, limit) ==
    LET place(e) == 1 + Cardinality({f \in rows : Before(q, date, f, e)})
        size == IF Cardinality(rows) < limit THEN Cardinality(rows) ELSE limit
    IN  [n \in 1 .. size |-> CHOOSE e \in rows : place(e) = n]

\* The order by of findMainOngoingVoteEvent.
LeadsMain(e, f) ==
    \/ totalParticipantCount(e) > totalParticipantCount(f)
    \/ /\ totalParticipantCount(e) = totalParticipantCount(f)
       /\ \/ events[e].deadlineAt < events[f].deadlineAt
          \/ events[e].deadlineAt = events[f].deadlineAt /\ e < f

-----------------------------------------------------------------------------
(* A list *)

\* The client asks for the first page.  One that reads the home page does not.
AskFirst ==
    /\ walk.at = "idle" /\ summary = Null
    /\ \E q \in Queries :
          walk' = [walk EXCEPT !.at = IF q.list = "ongoing" THEN "main" ELSE "page",
                               !.query = q, !.stamp = now]
    /\ UNCHANGED <<board, createdAt, summary>>

\* decodeCursor: the cursor was made for the query's sort and category.
AcceptsCursor(cursor, q) == cursor.sort = q.sort /\ cursor.category = q.category

\* The client asks the same list for the next page, in whatever order.
AskNext ==
    /\ walk.at = "answered" /\ walk.hasNext
    /\ \E q \in Queries :
          /\ q.list = walk.query.list /\ q.user = walk.query.user
          /\ walk' = IF AcceptsCursor(walk.cursor, q)
                     THEN [walk EXCEPT !.at = "page", !.query = q, !.stamp = now]
                     ELSE [walk EXCEPT !.at = "invalid_cursor"]
    /\ UNCHANGED <<board, createdAt, summary>>

\* findMainOngoingVoteEvent, for the first page only.
FindMain ==
    /\ walk.at = "main"
    /\ LET rows == Listed(walk.query, walk.stamp)
       IN  walk' = [walk EXCEPT !.at = "page",
              !.main = IF rows = {} THEN Null
                       ELSE CHOOSE e \in rows : \A f \in rows \ {e} : LeadsMain(e, f)]
    /\ UNCHANGED <<board, createdAt, summary>>

MainVoteId_FirstPage(w) == IF w.cursor = Null THEN w.main ELSE Null

\* The event the page leaves out: the main vote of the first page, which later
\* pages know from their cursor.
MainVoteId(w) == IF w.cursor = Null THEN w.main ELSE w.cursor.mainVoteId

\* The rows the page's statement selects.
Candidates(w) ==
    {e \in Listed(w.query, w.stamp) \ {MainVoteId(w)} :
        w.cursor # Null => AfterCursor(w.query, w.stamp, w.cursor, e)}

\* encodeListCursor, from the last item of the page.
Cursor(w, last) ==
    [category |-> w.query.category, sort |-> w.query.sort, id |-> last,
     orderGroup |-> OrderGroup(w.query, last, w.stamp),
     orderValue |-> OrderValue(w.query, last),
     mainVoteId |-> MainVoteId(w)]

\* What the first page's statement found and this one still finds unchanged.
StillOwed(w) ==
    IF w.pages = <<>> THEN Listed(w.query, w.stamp)
    ELSE {e \in w.owed \cap Listed(w.query, w.stamp) :
             w.query.sort = "participants" => totalParticipantCount(e) = w.counts[e]}

\* The page's statement, with a limit one larger to know whether more follow.
FindPage ==
    /\ walk.at = "page"
    /\ LET w     == walk
           found == FirstOf(w.query, w.stamp, Candidates(w), PageLimit + 1)
           more  == Len(found) > PageLimit
           items == IF more THEN SubSeq(found, 1, PageLimit) ELSE found
           shown == [n \in DOMAIN items |->
                       <<items[n], OrderGroup(w.query, items[n], w.stamp)>>]
       IN  walk' = [w EXCEPT !.at = "answered", !.pages = Append(@, shown),
              !.hasNext = more,
              !.cursor = IF more THEN Cursor(w, items[PageLimit]) ELSE @,
              !.counts = IF w.pages = <<>> /\ w.query.sort = "participants"
                         THEN [e \in Events |-> totalParticipantCount(e)] ELSE @,
              !.owed = StillOwed(w)]
    /\ UNCHANGED <<board, createdAt, summary>>

-----------------------------------------------------------------------------
(* The home page *)

CompletedCount_Unconfirmed ==
    Cardinality({e \in Opened : events[e].deadlineAt <= now})

\* The three sums of getSummary, one statement with conditions of its own and the
\* database's clock.
CompletedCount ==
    Cardinality({e \in Opened : events[e].deadlineAt <= now \/ result[e] # Null})

OngoingCount ==
    Cardinality({e \in Opened : events[e].deadlineAt > now /\ result[e] = Null})

ParticipantCount ==
    TokenSum([e \in Opened |-> totalParticipantCount(e)], Opened)

GetHome ==
    /\ walk.at = "idle"
    /\ summary' = [ongoingVoteEventCount |-> OngoingCount,
                   completedVoteEventCount |-> CompletedCount,
                   participantCount |-> ParticipantCount]
    /\ UNCHANGED <<board, createdAt, walk>>

-----------------------------------------------------------------------------

Init ==
    /\ BoardInit
    /\ createdAt = InitialCreatedAt
    /\ walk = NoWalk
    /\ summary = Null

\* An event that is opened has the date its request took; the others keep theirs.
Dated ==
    IF events' = events
    THEN UNCHANGED createdAt
    ELSE \E e \in Events, date \in 0 .. now :
            /\ events'[e] # events[e]
            /\ date < events'[e].deadlineAt
            /\ createdAt' = [createdAt EXCEPT ![e] = date]

Next ==
    \/ AskFirst \/ AskNext \/ FindMain \/ FindPage
    \/ GetHome
    \/ Traffic(Rows, Votes) /\ Dated /\ UNCHANGED <<walk, summary>>

Spec == Init /\ [][Next]_vars

-----------------------------------------------------------------------------

Items(page) == {page[n] : n \in DOMAIN page}

\* The main vote and the items of the pages, as shown.
MainItem(w) == IF w.main = Null THEN {} ELSE {<<w.main, 0>>}
AllItems(w) == MainItem(w) \cup UNION {Items(w.pages[n]) : n \in DOMAIN w.pages}

EventsOf(page) == {item[1] : item \in Items(page)}

\* Lists in which an event stays in its order group: not a user's by deadline,
\* where it moves to the second one when it completes.
KeepsGroup(q) == q.sort = "deadline" => q.list \in {"ongoing", "completed"}

NoneTwice(w) ==
    /\ \A n, m \in DOMAIN w.pages : n # m =>
          /\ Items(w.pages[n]) \cap Items(w.pages[m]) = {}
          /\ KeepsGroup(w.query) => EventsOf(w.pages[n]) \cap EventsOf(w.pages[m]) = {}
    /\ \A n \in DOMAIN w.pages : /\ w.main \notin EventsOf(w.pages[n])
                                /\ Cardinality(EventsOf(w.pages[n])) = Len(w.pages[n])
                                /\ Len(w.pages[n]) <= PageLimit

\* Whatever happens between the pages, none shows an event that the main vote or
\* a page before has shown; only in a user's list by deadline, where an event
\* moves when it completes, may it come a second time, then as completed.  No page
\* is longer than was asked for.
ShownOnce == NoneTwice(walk)

\* Who reads a list to its end has seen every event that was in it at the first
\* page and stayed in it, an event moved by its completion included; by
\* participants, every one that nobody voted on meanwhile.
ListComplete ==
    (walk.at = "answered" /\ ~walk.hasNext) =>
        walk.owed \subseteq {item[1] : item \in AllItems(walk)}

\* The list with that name and no category, as the public reads it at first.
ListNow(list) ==
    Listed([list |-> list, sort |-> "latest", category |-> Null, user |-> Null], now)

\* A home page counts every event once, under the list that shows it at that
\* time, and every participation once, although events complete by the clock or by
\* a result; and it takes nothing back of the home page before it: no completed
\* event, no event and no participation is missing that was counted then.
HomeAccounts ==
    LET home == summary'
        then == summary
    IN  /\ home.ongoingVoteEventCount + home.completedVoteEventCount
             = Cardinality(Opened)
        /\ home.ongoingVoteEventCount = Cardinality(ListNow("ongoing"))
        /\ home.completedVoteEventCount = Cardinality(ListNow("completed"))
        /\ home.participantCount = Cardinality({i \in Ids : bets[i] # Null})
        /\ then # Null =>
              /\ then.completedVoteEventCount <= home.completedVoteEventCount
              /\ then.ongoingVoteEventCount + then.completedVoteEventCount
                   <= home.ongoingVoteEventCount + home.completedVoteEventCount
              /\ then.participantCount <= home.participantCount

SummaryAccounts == [][summary' # summary => HomeAccounts]_vars

=============================================================================
