------------------------ MODULE VoteEventListsProofs ------------------------
(***************************************************************************)
(* Proofs about VoteEventLists, for any events, votes and page length.     *)
(* ListsInv says that while there is a next page everything shown lies at  *)
(* or before the cursor, in the place it has now, and that what the reader *)
(* is still owed lies behind it; events that are opened, dated, voted on   *)
(* and completed meanwhile can only move in the harmless direction.        *)
(***************************************************************************)
EXTENDS VoteEventLists, BettingPayoutProofs

BoardTypes ==
    /\ bets \in [Ids -> Vote \cup {Null}]
    /\ result \in [Events -> {"A", "B", Null}]
    /\ events \in [Events -> Row \cup {Null}]
    /\ createdAt \in [Events -> Nat]
    /\ now \in Nat
    /\ \A i \in Ids : bets[i] # Null => bets[i].event \in Opened

Item == Events \X {0, 1}

IsWalk(w) ==
    w = [at |-> w.at, query |-> w.query, cursor |-> w.cursor, stamp |-> w.stamp,
         main |-> w.main, pages |-> w.pages, hasNext |-> w.hasNext,
         counts |-> w.counts, owed |-> w.owed]

WalkTypes(w) ==
    /\ IsWalk(w)
    /\ w.at \in {"idle", "main", "page", "answered", "invalid_cursor"}
    /\ w.at # "idle" => w.query \in Query
    /\ w.stamp \in Nat /\ w.stamp <= now
    /\ w.main \in Events \cup {Null}
    /\ w.pages \in Seq(Seq(Item))
    /\ w.hasNext \in BOOLEAN

\* How far the reading has got, and which list its cursor is of.
WalkPhases(w) ==
    /\ w.at \in {"idle", "main"} => w.pages = <<>>
    /\ w.at = "page" => (w.hasNext <=> w.pages # <<>>)
    /\ w.pages = <<>> => w.cursor = Null /\ ~w.hasNext /\ w.owed = {}
    /\ w.hasNext =>
          /\ w.cursor \in ListCursor
          /\ w.cursor.sort = w.query.sort
          /\ w.cursor.category = w.query.category
          /\ w.cursor.mainVoteId = w.main

\* Event e, shown in order group g, is now at the cursor or before it.
Passed(q, cursor, e, g) ==
    LET x == OrderValue(q, e)
    IN  \/ g < cursor.orderGroup
        \/ /\ g = cursor.orderGroup
           /\ \/ IF Ascending(q, g) THEN x < cursor.orderValue ELSE x > cursor.orderValue
              \/ x = cursor.orderValue /\ e <= cursor.id

ShownPassed(w) ==
    w.hasNext =>
        \A n \in DOMAIN w.pages : \A item \in Items(w.pages[n]) :
            item[1] \in Opened /\ Passed(w.query, w.cursor, item[1], item[2])

\* In a list that keeps them, the one group all items have.
GroupsKept(w) ==
    \A n \in DOMAIN w.pages : \A item \in Items(w.pages[n]) :
        KeepsGroup(w.query) =>
            item[2] = IF w.query.sort = "deadline" /\ w.query.list = "completed"
                      THEN 1 ELSE 0

Shown(w) == {item[1] : item \in AllItems(w)}

\* The count of event e is the one its first page found, if that matters.
CountStays(w, e) ==
    w.query.sort = "participants" => totalParticipantCount(e) = w.counts[e]

OwedToCome(w) ==
    \A e \in w.owed :
        /\ e \in Opened
        /\ w.query.sort = "participants" =>
              w.counts[e] \in Nat /\ w.counts[e] <= totalParticipantCount(e)
        /\ \/ e \in Shown(w)
           \/ /\ w.hasNext
              /\ CountStays(w, e) => AfterCursor(w.query, w.stamp, w.cursor, e)

Reading(w) ==
    /\ WalkTypes(w) /\ WalkPhases(w) /\ GroupsKept(w)
    /\ NoneTwice(w) /\ ShownPassed(w) /\ OwedToCome(w)

\* The home page counted no more than there is.
SummaryWithin(s) ==
    s # Null =>
        /\ s.ongoingVoteEventCount \in Nat
        /\ s.completedVoteEventCount \in Nat
        /\ s.participantCount \in Nat
        /\ s.completedVoteEventCount <= CompletedCount
        /\ s.ongoingVoteEventCount + s.completedVoteEventCount <= Cardinality(Opened)
        /\ s.participantCount <= Cardinality({i \in Ids : bets[i] # Null})

ListsInv ==
    /\ BoardTypes
    /\ Reading(walk)
    /\ SummaryWithin(summary)

-----------------------------------------------------------------------------
(* What events go through while the lists are read. *)

\* What was opened, dated, voted and decided stays.
GoesOn ==
    /\ \A i \in Ids : bets[i] # Null => bets'[i] = bets[i]
    /\ \A e \in Events : result[e] # Null => result'[e] = result[e]
    /\ \A e \in Events : events[e] # Null =>
          events'[e] = events[e] /\ createdAt'[e] = createdAt[e]
    /\ now <= now'

LEMMA DatedStep ==
    ASSUME BoardTypes, Dated,
           \A e \in Events : events[e] # Null => events'[e] = events[e]
    PROVE  /\ createdAt' \in [Events -> Nat]
           /\ \A e \in Events : events[e] # Null => createdAt'[e] = createdAt[e]
<1>1. CASE events' = events
  BY <1>1 DEF Dated, BoardTypes
<1>2. CASE events' # events
  <2>1. PICK e \in Events, date \in 0 .. now :
           events'[e] # events[e] /\ createdAt' = [createdAt EXCEPT ![e] = date]
    BY <1>2 DEF Dated
  <2>2. events[e] = Null /\ date \in Nat
    BY <2>1 DEF BoardTypes
  <2> QED
    BY <2>1, <2>2 DEF BoardTypes
<1> QED
  BY <1>1, <1>2

LEMMA TrafficStep ==
    ASSUME BoardTypes, Traffic(Rows, Votes), Dated
    PROVE  BoardTypes' /\ GoesOn
<1> DEFINE Tables ==
             /\ bets' \in [Ids -> Vote \cup {Null}]
             /\ result' \in [Events -> {"A", "B", Null}]
             /\ events' \in [Events -> Row \cup {Null}]
             /\ now' \in Nat /\ now <= now'
             /\ \A i \in Ids : bets[i] # Null => bets'[i] = bets[i]
             /\ \A e \in Events : result[e] # Null => result'[e] = result[e]
             /\ \A e \in Events : events[e] # Null => events'[e] = events[e]
             /\ \A i \in Ids : bets'[i] # Null => bets'[i].event \in Opened'
<1>1. ASSUME NEW e \in Events, NEW row \in Rows, Open(e, row)
      PROVE  Tables
  <2>1. row \in Row /\ events[e] = Null /\ events' = [events EXCEPT ![e] = row]
    BY <1>1, ListsAssumption DEF Open
  <2>2. bets' = bets /\ result' = result /\ now' = now
    BY <1>1 DEF Open
  <2> QED
    BY <2>1, <2>2 DEF BoardTypes, Opened
<1>2. ASSUME NEW i \in Ids, NEW b \in Votes, Cast(i, b)
      PROVE  Tables
  <2>1. /\ b \in Vote /\ b.event \in Opened
        /\ bets[i] = Null /\ bets' = [bets EXCEPT ![i] = b]
    BY <1>2, ListsAssumption DEF Cast, Ledger!Place
  <2>2. events' = events /\ result' = result /\ now' = now
    BY <1>2 DEF Cast, Ledger!Place
  <2> QED
    BY <2>1, <2>2 DEF BoardTypes, Opened
<1>3. ASSUME NEW i \in Ids, Claim(i)
      PROVE  Tables
  <2>1. bets' = bets /\ events' = events /\ result' = result /\ now' = now
    BY <1>3 DEF Claim, Ledger!Pay
  <2> QED
    BY <2>1 DEF BoardTypes, Opened
<1>4. ASSUME NEW e \in Events, NEW o \in {"A", "B"}, Confirm(e, o)
      PROVE  Tables
  <2>1. result[e] = Null /\ result' = [result EXCEPT ![e] = o]
    BY <1>4 DEF Confirm, Ledger!Settle
  <2>2. bets' = bets /\ events' = events /\ now' = now
    BY <1>4 DEF Confirm, Ledger!Settle
  <2> QED
    BY <2>1, <2>2 DEF BoardTypes, Opened
<1>5. ASSUME Tick PROVE Tables
  BY <1>5 DEF Tick, BoardTypes, Opened
<1>6. Tables
  BY <1>1, <1>2, <1>3, <1>4, <1>5 DEF Traffic
<1> QED
  BY <1>6, DatedStep DEF BoardTypes, GoesOn

LEMMA BoardStays ==
    ASSUME BoardTypes, UNCHANGED <<board, createdAt>>
    PROVE  BoardTypes' /\ GoesOn
<1>1. /\ bets' = bets /\ result' = result /\ events' = events /\ now' = now
      /\ createdAt' = createdAt
  BY DEF board
<1> QED
  BY <1>1 DEF BoardTypes, GoesOn, Opened

\* The participations of event e in the table b of the bets.
IdsOn(b, e) == {i \in Ids : b[i] # Null /\ b[i].event = e}

LEMMA TotalIs ==
    ASSUME NEW e
    PROVE  /\ totalParticipantCount(e) = Cardinality(IdsOn(bets, e))
           /\ totalParticipantCount(e)' = Cardinality(IdsOn(bets', e))
           /\ DOMAIN BetsOn(e) = IdsOn(bets, e)
           /\ DOMAIN BetsOn(e)' = IdsOn(bets', e)
BY DEF totalParticipantCount, BetsOn, Ledger!BetsOn, Ledger!Placed, IdsOn

\* The count of an event is a natural number that never goes down.
LEMMA TotalGrows ==
    ASSUME NEW e
    PROVE  /\ totalParticipantCount(e) \in Nat /\ totalParticipantCount(e)' \in Nat
           /\ GoesOn => totalParticipantCount(e) <= totalParticipantCount(e)'
<1>1. IsFiniteSet(IdsOn(bets, e)) /\ IsFiniteSet(IdsOn(bets', e))
  <2>1. IdsOn(bets, e) \subseteq Ids /\ IdsOn(bets', e) \subseteq Ids
    BY DEF IdsOn
  <2> QED
    BY <2>1, FS_Subset, ListsAssumption
<1>2. Cardinality(IdsOn(bets, e)) \in Nat /\ Cardinality(IdsOn(bets', e)) \in Nat
  BY <1>1, FS_CardinalityType
<1>3. ASSUME GoesOn
      PROVE  Cardinality(IdsOn(bets, e)) <= Cardinality(IdsOn(bets', e))
  <2>1. IdsOn(bets, e) \subseteq IdsOn(bets', e)
    BY <1>3 DEF GoesOn, IdsOn
  <2> QED
    BY <1>1, <2>1, FS_Subset
<1> QED
  BY <1>2, <1>3, TotalIs

\* An event that is opened stays so, and one that is completed too.
LEMMA EventGoesOn ==
    ASSUME BoardTypes, GoesOn, NEW e \in Opened
    PROVE  /\ e \in Events /\ events[e] \in Row /\ events[e].deadlineAt \in Nat
           /\ e \in Opened' /\ events'[e] = events[e] /\ createdAt'[e] = createdAt[e]
           /\ createdAt[e] \in Nat
           /\ \A d \in Nat, f \in Nat :
                 d <= f => /\ IsCompleted(e, d) => IsCompleted(e, f)'
                           /\ IsOngoing(e, f)' => IsOngoing(e, d)
<1>1. e \in Events /\ events[e] # Null /\ events[e] \in Row
  BY DEF Opened, BoardTypes
<1>2. events[e].deadlineAt \in Nat
  BY <1>1 DEF Row
<1>3. events'[e] = events[e] /\ createdAt'[e] = createdAt[e]
  BY <1>1 DEF GoesOn
<1>4. result[e] # Null => result'[e] # Null
  BY <1>1 DEF GoesOn
<1>5. ASSUME NEW d \in Nat, NEW f \in Nat, d <= f
      PROVE  /\ IsCompleted(e, d) => IsCompleted(e, f)'
             /\ IsOngoing(e, f)' => IsOngoing(e, d)
  BY <1>2, <1>3, <1>4, <1>5 DEF IsCompleted, IsOngoing
<1> QED
  BY <1>1, <1>2, <1>3, <1>5 DEF Opened, BoardTypes

\* An event is ongoing or completed, never both.
LEMMA OngoingOrCompleted ==
    ASSUME BoardTypes, NEW e \in Opened, NEW d \in Nat
    PROVE  IsOngoing(e, d) <=> ~IsCompleted(e, d)
<1>1. events[e] \in Row
  BY DEF Opened, BoardTypes
<1>2. events[e].deadlineAt \in Nat
  BY <1>1 DEF Row
<1> QED
  BY <1>2 DEF IsOngoing, IsCompleted

-----------------------------------------------------------------------------
(* Where an event stands in a list, and how it moves. *)

LEMMA KeyType ==
    ASSUME BoardTypes, NEW q \in Query, NEW e \in Opened, NEW d
    PROVE  /\ OrderValue(q, e) \in Nat
           /\ OrderGroup(q, e, d) \in {0, 1}
           /\ q.sort # "deadline" => OrderGroup(q, e, d) = 0
           /\ q.sort = "participants" => OrderValue(q, e) = totalParticipantCount(e)
<1>1. q.sort \in {"latest", "deadline", "participants"}
  BY DEF Query
<1>2. e \in Events /\ events[e] \in Row /\ createdAt[e] \in Nat
  BY DEF Opened, BoardTypes
<1>3. events[e].deadlineAt \in Nat
  BY <1>2 DEF Row
<1>4. totalParticipantCount(e) \in Nat
  BY TotalGrows
<1>5. OrderValue(q, e) \in Nat /\ (q.sort = "participants" =>
                                     OrderValue(q, e) = totalParticipantCount(e))
  BY <1>1, <1>2, <1>3, <1>4 DEF OrderValue
<1> QED
  BY <1>5 DEF OrderGroup

\* An event moves to a later group, or to a higher count; nothing else changes.
LEMMA KeyMoves ==
    ASSUME BoardTypes, BoardTypes', GoesOn, NEW q \in Query, NEW e \in Opened,
           NEW d \in Nat, NEW f \in Nat, d <= f
    PROVE  /\ OrderValue(q, e)' \in Nat /\ OrderGroup(q, e, f)' \in {0, 1}
           /\ OrderGroup(q, e, d) <= OrderGroup(q, e, f)'
           /\ OrderValue(q, e) <= OrderValue(q, e)'
           /\ OrderValue(q, e)' = IF q.sort = "participants" THEN totalParticipantCount(e)'
                                  ELSE OrderValue(q, e)
           /\ q.sort # "deadline" => OrderGroup(q, e, f)' = 0
<1>1. q.sort \in {"latest", "deadline", "participants"}
  BY DEF Query
<1>2. /\ events'[e] = events[e] /\ createdAt'[e] = createdAt[e]
      /\ IsOngoing(e, f)' => IsOngoing(e, d)
      /\ events[e].deadlineAt \in Nat /\ createdAt[e] \in Nat
  BY EventGoesOn
<1>3. /\ totalParticipantCount(e) \in Nat /\ totalParticipantCount(e)' \in Nat
      /\ totalParticipantCount(e) <= totalParticipantCount(e)'
  BY TotalGrows
<1>4. CASE q.sort = "latest"
  BY <1>2, <1>4 DEF OrderValue, OrderGroup
<1>5. CASE q.sort = "participants"
  BY <1>3, <1>5 DEF OrderValue, OrderGroup
<1>6. CASE q.sort = "deadline"
  <2>1. OrderValue(q, e)' = OrderValue(q, e) /\ OrderValue(q, e) \in Nat
    BY <1>2, <1>6 DEF OrderValue
  <2>2. /\ OrderGroup(q, e, d) = IF IsOngoing(e, d) THEN 0 ELSE 1
        /\ OrderGroup(q, e, f)' = IF IsOngoing(e, f)' THEN 0 ELSE 1
    BY <1>6 DEF OrderGroup
  <2> QED
    BY <1>2, <1>6, <2>1, <2>2
<1> QED
  BY <1>1, <1>4, <1>5, <1>6

\* The place with group g, value x and id e lies at the place of c or before it,
\* or after it.
AtOrBefore(q, g, x, e, c) ==
    \/ g < c.orderGroup
    \/ /\ g = c.orderGroup
       /\ \/ IF Ascending(q, g) THEN x < c.orderValue ELSE x > c.orderValue
          \/ x = c.orderValue /\ e <= c.id

Beyond(q, g, x, e, c) ==
    \/ g > c.orderGroup
    \/ /\ g = c.orderGroup
       /\ \/ IF Ascending(q, g) THEN x > c.orderValue ELSE x < c.orderValue
          \/ x = c.orderValue /\ e > c.id

LEMMA PlacesIn ==
    ASSUME NEW q, NEW c, NEW e, NEW d, NEW g
    PROVE  /\ Passed(q, c, e, g) = AtOrBefore(q, g, OrderValue(q, e), e, c)
           /\ AfterCursor(q, d, c, e)
                = Beyond(q, OrderGroup(q, e, d), OrderValue(q, e), e, c)
BY DEF Passed, AtOrBefore, AfterCursor, Beyond

LEMMA PlacesThen ==
    ASSUME NEW q, NEW c, NEW e, NEW d, NEW g
    PROVE  /\ Passed(q, c, e, g)' = AtOrBefore(q, g, OrderValue(q, e)', e, c)
           /\ AfterCursor(q, d, c, e)'
                = Beyond(q, OrderGroup(q, e, d)', OrderValue(q, e)', e, c)
BY DEF Passed, AtOrBefore, AfterCursor, Beyond, Ascending

\* No place is both; a place passed stays so at a cursor further on.
LEMMA PlacesApart ==
    ASSUME NEW q, NEW c \in ListCursor, NEW g \in {0, 1}, NEW x \in Nat, NEW e \in Nat
    PROVE  /\ ~(AtOrBefore(q, g, x, e, c) /\ Beyond(q, g, x, e, c))
           /\ \A b \in ListCursor :
                 (AtOrBefore(q, g, x, e, c)
                    /\ Beyond(q, b.orderGroup, b.orderValue, b.id, c))
                 => AtOrBefore(q, g, x, e, b)
<1>1. c.orderGroup \in {0, 1} /\ c.orderValue \in Nat /\ c.id \in Nat
  BY ListsAssumption DEF ListCursor
<1>2. ASSUME NEW b \in ListCursor, AtOrBefore(q, g, x, e, c),
             Beyond(q, b.orderGroup, b.orderValue, b.id, c)
      PROVE  AtOrBefore(q, g, x, e, b)
  <2>1. b.orderGroup \in {0, 1} /\ b.orderValue \in Nat /\ b.id \in Nat
    BY ListsAssumption DEF ListCursor
  <2> QED
    BY <1>1, <1>2, <2>1 DEF AtOrBefore, Beyond
<1> QED
  BY <1>1, <1>2 DEF AtOrBefore, Beyond

\* What is passed stays passed.
LEMMA PassedStays ==
    ASSUME BoardTypes, BoardTypes', GoesOn, NEW q \in Query, NEW c \in ListCursor,
           NEW e \in Opened, NEW g \in {0, 1}, Passed(q, c, e, g)
    PROVE  Passed(q, c, e, g)'
<1>1. /\ OrderValue(q, e) \in Nat /\ OrderValue(q, e)' \in Nat
      /\ OrderValue(q, e) <= OrderValue(q, e)'
      /\ q.sort # "participants" => OrderValue(q, e)' = OrderValue(q, e)
  BY KeyType, KeyMoves
<1>2. c.orderGroup \in {0, 1} /\ c.orderValue \in Nat /\ c.id \in Nat /\ e \in Nat
  BY ListsAssumption DEF ListCursor, Opened
<1>3. q.sort = "participants" => ~Ascending(q, g)
  BY DEF Ascending
<1>4. AtOrBefore(q, g, OrderValue(q, e), e, c)
  BY PlacesIn
<1>5. AtOrBefore(q, g, OrderValue(q, e)', e, c)
  BY <1>1, <1>2, <1>3, <1>4 DEF AtOrBefore
<1> QED
  BY <1>5, PlacesThen

\* What is still to come stays so, unless its count changes.
LEMMA BeyondStays ==
    ASSUME BoardTypes, BoardTypes', GoesOn, NEW q \in Query, NEW c \in ListCursor,
           NEW e \in Opened, NEW d \in Nat, NEW f \in Nat, d <= f,
           AfterCursor(q, d, c, e),
           q.sort = "participants" => totalParticipantCount(e)' = totalParticipantCount(e)
    PROVE  AfterCursor(q, f, c, e)'
<1>1. /\ OrderValue(q, e) \in Nat /\ OrderValue(q, e)' = OrderValue(q, e)
      /\ OrderGroup(q, e, d) \in {0, 1} /\ OrderGroup(q, e, f)' \in {0, 1}
      /\ OrderGroup(q, e, d) <= OrderGroup(q, e, f)'
  BY KeyType, KeyMoves
<1>2. c.orderGroup \in {0, 1} /\ c.orderValue \in Nat /\ c.id \in Nat /\ e \in Nat
  BY ListsAssumption DEF ListCursor, Opened
<1>3. Beyond(q, OrderGroup(q, e, d), OrderValue(q, e), e, c)
  BY PlacesIn
<1>4. Beyond(q, OrderGroup(q, e, f)', OrderValue(q, e)', e, c)
  BY <1>1, <1>2, <1>3 DEF Beyond
<1> QED
  BY <1>4, PlacesThen

-----------------------------------------------------------------------------
(* The rows of a page. *)

Order(q, d, S) == {p \in S \X S : Before(q, d, p[1], p[2])}

\* Before orders the events that are opened and leaves no tie.
LEMMA BeforeOrders ==
    ASSUME BoardTypes, NEW q \in Query, NEW d, NEW S \in SUBSET Opened
    PROVE  StrictOrder(Order(q, d, S), S)
<1> DEFINE R == Order(q, d, S)
           g(e) == OrderGroup(q, e, d)
           x(e) == OrderValue(q, e)
           up(n) == Ascending(q, n)
           before(e, f) == \/ g(e) < g(f)
                           \/ /\ g(e) = g(f)
                              /\ \/ IF up(g(e)) THEN x(e) < x(f) ELSE x(e) > x(f)
                                 \/ x(e) = x(f) /\ e < f
<1>1. \A e \in S : e \in Nat /\ g(e) \in {0, 1} /\ x(e) \in Nat
  BY KeyType, ListsAssumption DEF Opened
<1>2. \A e, f : Before(q, d, e, f) <=> before(e, f)
  BY DEF Before
<1> HIDE DEF g, x, up
<1>3. \A e \in S : ~before(e, e)
  BY <1>1
<1>4. ASSUME NEW e \in S, NEW f \in S, e # f
      PROVE  before(e, f) \/ before(f, e)
  <2>1. /\ e \in Nat /\ g(e) \in {0, 1} /\ x(e) \in Nat
        /\ f \in Nat /\ g(f) \in {0, 1} /\ x(f) \in Nat
    BY <1>1
  <2> QED
    BY <1>4, <2>1
<1>5. ASSUME NEW e \in S, NEW f \in S, NEW h \in S, before(e, f), before(f, h)
      PROVE  before(e, h)
  <2>1. /\ e \in Nat /\ g(e) \in {0, 1} /\ x(e) \in Nat
        /\ f \in Nat /\ g(f) \in {0, 1} /\ x(f) \in Nat
        /\ h \in Nat /\ g(h) \in {0, 1} /\ x(h) \in Nat
    BY <1>1
  <2> QED
    BY <1>5, <2>1
<1> HIDE DEF before
<1>6. \A e, f \in S : <<e, f>> \in R <=> before(e, f)
  BY <1>2 DEF Order
<1> HIDE DEF R
<1> QED
  BY <1>3, <1>4, <1>5, <1>6 DEF StrictOrder, R

\* Every rank is that of some member.
LEMMA RankTaken ==
    ASSUME NEW S, IsFiniteSet(S), NEW R, StrictOrder(R, S),
           NEW k \in Nat, k < Cardinality(S)
    PROVE  \E x \in S : RankIn(R, S, x) = k
<1> DEFINE first(m) == {x \in S : RankIn(R, S, x) < m}
<1>1. Cardinality(S) \in Nat
  BY FS_CardinalityType
<1>2. Cardinality(first(k)) = k
  BY <1>1, FirstMembers
<1>3. Cardinality(first(k + 1)) = k + 1
  <2>1. k + 1 \in Nat /\ k + 1 <= Cardinality(S)
    BY <1>1
  <2> QED
    BY <2>1, FirstMembers
<1>4. first(k) # first(k + 1)
  BY <1>2, <1>3
<1>5. \A x \in S : RankIn(R, S, x) \in Nat
  BY OrderRanks
<1> QED
  BY <1>4, <1>5

\* The statement's rows are in its order, and what is not among them comes after
\* all of them, as many as were asked for.
LEMMA FirstOfIs ==
    ASSUME BoardTypes, NEW q \in Query, NEW d, NEW S \in SUBSET Opened, NEW limit \in Nat
    PROVE  LET F == FirstOf(q, d, S, limit)
           IN  /\ F \in Seq(S) /\ Len(F) <= limit
               /\ \A n, m \in DOMAIN F : n < m => Before(q, d, F[n], F[m])
               /\ \A e \in S :
                     \/ \E n \in DOMAIN F : F[n] = e
                     \/ Len(F) = limit /\ \A n \in DOMAIN F : Before(q, d, F[n], e)
<1> DEFINE R == Order(q, d, S)
           rank(e) == RankIn(R, S, e)
           place(e) == 1 + Cardinality({f \in S : Before(q, d, f, e)})
           size == IF Cardinality(S) < limit THEN Cardinality(S) ELSE limit
           F == [n \in 1 .. size |-> CHOOSE e \in S : place(e) = n]
<1>1. FirstOf(q, d, S, limit) = F
  BY DEF FirstOf
<1>2. IsFiniteSet(S) /\ Cardinality(S) \in Nat
  <2>1. S \subseteq Events
    BY DEF Opened
  <2> QED
    BY <2>1, FS_Subset, FS_CardinalityType, ListsAssumption
<1>3. StrictOrder(R, S)
  BY BeforeOrders
<1>4. \A e, f \in S : <<e, f>> \in R <=> Before(q, d, e, f)
  BY DEF Order
<1>5. \A e \in S : place(e) = 1 + rank(e)
  <2>1. TAKE e \in S
  <2>2. {f \in S : Before(q, d, f, e)} = {f \in S : <<f, e>> \in R}
    BY <1>4
  <2> QED
    BY <2>2 DEF RankIn
<1>6. /\ \A e \in S : rank(e) \in Nat /\ rank(e) < Cardinality(S)
      /\ \A e, f \in S : Before(q, d, e, f) <=> rank(e) < rank(f)
      /\ \A e, f \in S : e # f => rank(e) # rank(f)
  <2> HIDE DEF R
  <2>1. \A e \in S : rank(e) \in 0 .. (Cardinality(S) - 1) /\ rank(e) \in Nat
    BY <1>2, <1>3, OrderRanks
  <2>2. \A e, f \in S : /\ <<e, f>> \in R <=> rank(e) < rank(f)
                        /\ e # f => rank(e) # rank(f)
    BY <1>2, <1>3, OrderRanks
  <2> HIDE DEF rank
  <2>3. \A e \in S : rank(e) < Cardinality(S)
    BY <1>2, <2>1
  <2> QED
    BY <1>4, <2>1, <2>2, <2>3
<1>7. \A k \in Nat : k < Cardinality(S) => \E e \in S : rank(e) = k
  BY <1>2, <1>3, RankTaken
<1>8. size \in Nat /\ size <= limit /\ size <= Cardinality(S)
  BY <1>2
<1> HIDE DEF R, rank, place, size
<1>9. ASSUME NEW n \in 1 .. size
      PROVE  F[n] \in S /\ rank(F[n]) = n - 1
  <2>1. n - 1 \in Nat /\ n - 1 < Cardinality(S)
    BY <1>2, <1>8
  <2>2. PICK e \in S : rank(e) = n - 1
    BY <1>7, <2>1
  <2>3. place(e) = n
    BY <1>5, <2>2
  <2>4. F[n] = CHOOSE f \in S : place(f) = n
    OBVIOUS
  <2>5. F[n] \in S /\ place(F[n]) = n
    BY <2>3, <2>4
  <2> HIDE DEF F
  <2> QED
    BY <1>5, <1>6, <2>5
<1>10. DOMAIN F = 1 .. size
  OBVIOUS
<1>11. F \in Seq(S) /\ Len(F) = size
  BY <1>8, <1>9, <1>10
<1> HIDE DEF F
<1>12. ASSUME NEW n \in DOMAIN F, NEW m \in DOMAIN F, n < m
       PROVE  Before(q, d, F[n], F[m])
  BY <1>6, <1>8, <1>9, <1>10, <1>12
<1>13. ASSUME NEW e \in S, \A n \in DOMAIN F : F[n] # e
       PROVE  size = limit /\ \A n \in DOMAIN F : Before(q, d, F[n], e)
  <2>1. ~(rank(e) < size)
    <3>1. SUFFICES ASSUME rank(e) < size PROVE FALSE
      OBVIOUS
    <3>2. rank(e) + 1 \in 1 .. size
      BY <1>6, <1>8, <3>1
    <3>3. F[rank(e) + 1] \in S /\ rank(F[rank(e) + 1]) = rank(e)
      BY <1>6, <1>9, <3>2
    <3> QED
      BY <1>6, <1>10, <1>13, <3>2, <3>3
  <2>2. size = limit
    BY <1>2, <1>6, <2>1 DEF size
  <2>3. \A n \in DOMAIN F : Before(q, d, F[n], e)
    BY <1>6, <1>8, <1>9, <1>10, <2>1
  <2> QED
    BY <2>2, <2>3
<1> QED
  BY <1>1, <1>8, <1>11, <1>12, <1>13

\* The items of a page, with whether more follow.
PageOf(w, items, more) ==
    /\ items \in Seq(Candidates(w)) /\ Len(items) <= PageLimit
    /\ \A n, m \in DOMAIN items :
          n < m => Before(w.query, w.stamp, items[n], items[m])
    /\ more \in BOOLEAN
    /\ ~more => \A e \in Candidates(w) : \E n \in DOMAIN items : items[n] = e
    /\ more => /\ Len(items) = PageLimit
               /\ \A e \in Candidates(w) :
                     \/ \E n \in DOMAIN items : items[n] = e
                     \/ Before(w.query, w.stamp, items[PageLimit], e)

LEMMA PageFound ==
    ASSUME BoardTypes, NEW w, w.query \in Query,
           NEW found, found = FirstOf(w.query, w.stamp, Candidates(w), PageLimit + 1)
    PROVE  /\ Len(found) \in Nat
           /\ Len(found) > PageLimit => PageOf(w, SubSeq(found, 1, PageLimit), TRUE)
           /\ ~(Len(found) > PageLimit) => PageOf(w, found, FALSE)
<1> DEFINE S == Candidates(w)
           items == SubSeq(found, 1, PageLimit)
           before(e, f) == Before(w.query, w.stamp, e, f)
<1>1. S \in SUBSET Opened
  BY DEF Candidates, Listed
<1>2. PageLimit \in Nat \ {0} /\ PageLimit + 1 \in Nat
  BY ListsAssumption
<1>3. /\ found \in Seq(S) /\ Len(found) <= PageLimit + 1
      /\ \A n, m \in DOMAIN found : n < m => before(found[n], found[m])
      /\ \A e \in S :
            \/ \E n \in DOMAIN found : found[n] = e
            \/ /\ Len(found) = PageLimit + 1
               /\ \A n \in DOMAIN found : before(found[n], e)
  BY <1>1, <1>2, FirstOfIs
<1> HIDE DEF S, before
<1>4. Len(found) \in Nat /\ DOMAIN found = 1 .. Len(found)
  BY <1>3
<1>5. ASSUME ~(Len(found) > PageLimit)
      PROVE  PageOf(w, found, FALSE)
  <2>1. Len(found) <= PageLimit /\ Len(found) # PageLimit + 1
    BY <1>2, <1>4, <1>5
  <2>2. \A e \in S : \E n \in DOMAIN found : found[n] = e
    BY <1>3, <2>1
  <2> QED
    BY <1>3, <2>1, <2>2 DEF PageOf, S, before
<1>6. ASSUME Len(found) > PageLimit
      PROVE  PageOf(w, items, TRUE)
  <2>1. Len(found) = PageLimit + 1
    BY <1>2, <1>3, <1>4, <1>6
  <2>2. /\ items \in Seq(S) /\ Len(items) = PageLimit
        /\ \A n \in 1 .. PageLimit : items[n] = found[n]
    BY <1>2, <1>3, <1>4, <2>1
  <2>3. DOMAIN items = 1 .. PageLimit
    BY <2>2
  <2> HIDE DEF items
  <2>4. \A n, m \in DOMAIN items : n < m => before(items[n], items[m])
    <3>1. \A n \in DOMAIN items : n \in DOMAIN found /\ items[n] = found[n]
      BY <1>2, <1>4, <2>1, <2>2, <2>3
    <3> QED
      BY <1>3, <3>1
  <2>5. ASSUME NEW e \in S, \A n \in DOMAIN items : items[n] # e
        PROVE  before(items[PageLimit], e)
    <3>1. PageLimit \in DOMAIN found /\ PageLimit + 1 \in DOMAIN found
          /\ PageLimit \in DOMAIN items /\ items[PageLimit] = found[PageLimit]
          /\ PageLimit < PageLimit + 1
      BY <1>2, <1>4, <2>1, <2>2, <2>3
    <3>2. CASE \E n \in DOMAIN found : found[n] = e
      <4>1. PICK n \in DOMAIN found : found[n] = e
        BY <3>2
      <4>2. ~(n \in 1 .. PageLimit)
        BY <2>2, <2>3, <2>5, <4>1
      <4>3. n = PageLimit + 1
        BY <1>2, <1>4, <2>1, <4>1, <4>2
      <4> QED
        BY <1>3, <3>1, <4>1, <4>3
    <3>3. CASE \A n \in DOMAIN found : before(found[n], e)
      BY <3>1, <3>3
    <3> QED
      BY <1>3, <3>2, <3>3
  <2>6. \A e \in S :
           \/ \E n \in DOMAIN items : items[n] = e
           \/ before(items[PageLimit], e)
    BY <2>5
  <2>7. Len(items) <= PageLimit
    BY <1>2, <2>2
  <2> QED
    BY <2>2, <2>4, <2>6, <2>7 DEF PageOf, S, before
<1> QED
  BY <1>4, <1>5, <1>6

\* A page as it is shown.
ShownAs(w, items) ==
    [n \in DOMAIN items |-> <<items[n], OrderGroup(w.query, items[n], w.stamp)>>]

CountsFound(w) ==
    IF w.pages = <<>> /\ w.query.sort = "participants"
    THEN [e \in Events |-> totalParticipantCount(e)] ELSE w.counts

Answered(w, items, more) ==
    [w EXCEPT !.at = "answered", !.pages = Append(@, ShownAs(w, items)),
       !.hasNext = more,
       !.cursor = IF more THEN Cursor(w, items[PageLimit]) ELSE @,
       !.counts = CountsFound(w),
       !.owed = StillOwed(w)]

LEMMA FindPageStep ==
    ASSUME BoardTypes, walk.query \in Query, FindPage
    PROVE  \E items, more : PageOf(walk, items, more) /\ walk' = Answered(walk, items, more)
<1> DEFINE found == FirstOf(walk.query, walk.stamp, Candidates(walk), PageLimit + 1)
           items(more) == IF more THEN SubSeq(found, 1, PageLimit) ELSE found
           next(more) == Answered(walk, items(more), more)
           long == Len(found) > PageLimit
<1>1. /\ long => PageOf(walk, SubSeq(found, 1, PageLimit), TRUE)
      /\ ~long => PageOf(walk, found, FALSE)
  BY PageFound
<1>2. walk' = next(long)
  BY DEF FindPage, Answered, ShownAs, CountsFound
<1>3. /\ next(TRUE) = Answered(walk, SubSeq(found, 1, PageLimit), TRUE)
      /\ next(FALSE) = Answered(walk, found, FALSE)
  OBVIOUS
<1>4. long = TRUE \/ long = FALSE
  OBVIOUS
<1> HIDE DEF next, long, found
<1>5. CASE long = TRUE
  BY <1>1, <1>2, <1>3, <1>5, Zenon
<1>6. CASE long = FALSE
  BY <1>1, <1>2, <1>3, <1>6, Zenon
<1> QED
  BY <1>4, <1>5, <1>6

\* What comes before the last item of a page lies at its cursor or before it, and
\* what comes after it behind.
LEMMA AtTheCursor ==
    ASSUME BoardTypes, NEW w, w.query \in Query,
           MainVoteId(w) \in Events \cup {Null}, NEW last \in Opened, NEW e \in Opened
    PROVE  /\ Cursor(w, last) \in ListCursor
           /\ (e = last \/ Before(w.query, w.stamp, e, last))
                => Passed(w.query, Cursor(w, last), e, OrderGroup(w.query, e, w.stamp))
           /\ Before(w.query, w.stamp, last, e)
                => AfterCursor(w.query, w.stamp, Cursor(w, last), e)
<1> DEFINE q == w.query
           c == Cursor(w, last)
<1>1. /\ c.category = q.category /\ c.sort = q.sort /\ c.id = last
      /\ c.orderGroup = OrderGroup(q, last, w.stamp)
      /\ c.orderValue = OrderValue(q, last) /\ c.mainVoteId = MainVoteId(w)
  BY DEF Cursor
<1>2. /\ OrderValue(q, last) \in Nat /\ OrderValue(q, e) \in Nat
      /\ OrderGroup(q, last, w.stamp) \in {0, 1} /\ OrderGroup(q, e, w.stamp) \in {0, 1}
  BY KeyType
<1>3. last \in Events /\ last \in Nat /\ e \in Nat
  BY ListsAssumption DEF Opened
<1>4. c \in ListCursor
  <2>1. /\ q.category \in {"daily", "balance", "work", "betting", Null}
        /\ q.sort \in {"latest", "deadline", "participants"}
    BY DEF Query
  <2> QED
    BY <1>2, <1>3, <2>1 DEF Cursor, ListCursor
<1> DEFINE ge == OrderGroup(q, e, w.stamp)
           gl == OrderGroup(q, last, w.stamp)
           xe == OrderValue(q, e)
           xl == OrderValue(q, last)
<1>5. /\ Before(q, w.stamp, e, last)
           <=> \/ ge < gl
               \/ /\ ge = gl
                  /\ (IF Ascending(q, ge) THEN xe < xl ELSE xe > xl) \/ (xe = xl /\ e < last)
      /\ Before(q, w.stamp, last, e)
           <=> \/ gl < ge
               \/ /\ gl = ge
                  /\ (IF Ascending(q, gl) THEN xl < xe ELSE xl > xe) \/ (xl = xe /\ last < e)
  BY DEF Before
<1>6. Passed(q, c, e, ge) = AtOrBefore(q, ge, xe, e, c)
      /\ AfterCursor(q, w.stamp, c, e) = Beyond(q, ge, xe, e, c)
  BY PlacesIn
<1> HIDE DEF q, c, ge, gl, xe, xl
<1>7. ASSUME e = last \/ Before(q, w.stamp, e, last)
      PROVE  AtOrBefore(q, ge, xe, e, c)
  <2>1. CASE e = last
    BY <1>1, <1>2, <1>3, <2>1 DEF AtOrBefore, ge, gl, xe, xl
  <2>2. CASE Before(q, w.stamp, e, last)
    BY <1>1, <1>2, <1>3, <1>5, <2>2 DEF AtOrBefore, ge, gl, xe, xl
  <2> QED
    BY <1>7, <2>1, <2>2
<1>8. ASSUME Before(q, w.stamp, last, e)
      PROVE  Beyond(q, ge, xe, e, c)
  BY <1>1, <1>2, <1>3, <1>5, <1>8 DEF Beyond, ge, gl, xe, xl
<1> QED
  BY <1>4, <1>6, <1>7, <1>8 DEF q, c, ge

\* An event is on a page once.
LEMMA PageCount ==
    ASSUME BoardTypes, NEW w, w.query \in Query, NEW items, NEW more,
           PageOf(w, items, more)
    PROVE  /\ \A n \in DOMAIN items : items[n] \in Candidates(w) /\ items[n] \in Opened
           /\ ShownAs(w, items) \in Seq(Item) /\ Len(ShownAs(w, items)) = Len(items)
           /\ Len(items) \in Nat /\ Len(items) <= PageLimit
           /\ Items(ShownAs(w, items))
                = {<<items[n], OrderGroup(w.query, items[n], w.stamp)>> : n \in DOMAIN items}
           /\ EventsOf(ShownAs(w, items)) = {items[n] : n \in DOMAIN items}
           /\ Cardinality(EventsOf(ShownAs(w, items))) = Len(ShownAs(w, items))
<1> DEFINE page == ShownAs(w, items)
           pair(n) == <<items[n], OrderGroup(w.query, items[n], w.stamp)>>
<1>1. /\ items \in Seq(Candidates(w)) /\ Len(items) <= PageLimit
      /\ \A n, m \in DOMAIN items : n < m => Before(w.query, w.stamp, items[n], items[m])
  BY DEF PageOf
<1>2. Len(items) \in Nat /\ DOMAIN items = 1 .. Len(items)
  BY <1>1
<1>3. \A n \in DOMAIN items : items[n] \in Candidates(w) /\ items[n] \in Opened
  <2>1. Candidates(w) \subseteq Opened
    BY DEF Candidates, Listed
  <2> QED
    BY <1>1, <1>2, <2>1
<1>4. \A n \in DOMAIN items : page[n] = pair(n) /\ page[n] \in Item
  BY <1>3, KeyType DEF ShownAs, Item, Opened
<1>5. DOMAIN page = 1 .. Len(items)
  BY <1>2 DEF ShownAs
<1>6. page \in Seq(Item) /\ Len(page) = Len(items)
  <2>1. page = [n \in 1 .. Len(items) |-> pair(n)]
    BY <1>2 DEF ShownAs
  <2> HIDE DEF page, pair
  <2>2. page \in [1 .. Len(items) -> Item]
    BY <1>2, <1>4, <2>1
  <2> QED
    BY <1>2, <2>2
<1>7. Items(page) = {pair(n) : n \in DOMAIN items}
  BY <1>2, <1>4, <1>5 DEF Items
<1>8. \A n, m \in DOMAIN items : n # m => items[n] # items[m]
  <2>1. StrictOrder(Order(w.query, w.stamp, Opened), Opened)
    BY BeforeOrders
  <2>2. \A e \in Opened : ~Before(w.query, w.stamp, e, e)
    BY <2>1 DEF StrictOrder, Order
  <2> QED
    BY <1>1, <1>2, <1>3, <2>2
<1>9. EventsOf(page) = {items[n] : n \in DOMAIN items}
  <2>1. \A n \in DOMAIN items : pair(n)[1] = items[n]
    OBVIOUS
  <2> HIDE DEF page, pair
  <2> QED
    BY <1>7, <2>1 DEF EventsOf
<1>10. Cardinality(EventsOf(page)) = Len(items)
  <2> DEFINE f == [n \in 1 .. Len(items) |-> items[n]]
  <2>1. \A n \in 1 .. Len(items) : f[n] = items[n]
    OBVIOUS
  <2>2. f \in [1 .. Len(items) -> EventsOf(page)]
    BY <1>2, <1>9
  <2>3. \A n, m \in 1 .. Len(items) : f[n] = f[m] => n = m
    BY <1>2, <1>8, <2>1
  <2>4. \A e \in EventsOf(page) : \E n \in 1 .. Len(items) : f[n] = e
    BY <1>2, <1>9, <2>1
  <2> HIDE DEF f, page
  <2>5. f \in Bijection(1 .. Len(items), EventsOf(page))
    BY <2>2, <2>3, <2>4 DEF Bijection, Injection, Surjection, IsInjective
  <2> QED
    BY <1>2, <2>5, FS_CountingElements DEF ExistsBijection
<1> HIDE DEF page
<1> QED
  BY <1>1, <1>2, <1>3, <1>6, <1>7, <1>9, <1>10 DEF page

-----------------------------------------------------------------------------
(* A reading goes on. *)

LEMMA HasQuery ==
    ASSUME NEW w, Reading(w)
    PROVE  /\ w.hasNext => w.query \in Query /\ w.cursor \in ListCursor /\ w.pages # <<>>
           /\ w.owed # {} => w.query \in Query /\ w.pages # <<>>
           /\ \A n \in DOMAIN w.pages : \A item \in Items(w.pages[n]) :
                 item \in Item /\ item[1] \in Events /\ item[2] \in {0, 1}
<1>1. /\ w.hasNext => w.query \in Query /\ w.cursor \in ListCursor /\ w.pages # <<>>
      /\ w.owed # {} => w.query \in Query /\ w.pages # <<>>
  BY DEF Reading, WalkTypes, WalkPhases
<1>2. ASSUME NEW n \in DOMAIN w.pages, NEW item \in Items(w.pages[n])
      PROVE  item \in Item /\ item[1] \in Events /\ item[2] \in {0, 1}
  <2>1. w.pages[n] \in Seq(Item)
    BY DEF Reading, WalkTypes
  <2>2. item \in Item
    BY <2>1 DEF Items
  <2> QED
    BY <2>2 DEF Item
<1> QED
  BY <1>1, <1>2

\* What happens to the events leaves a reading as it is.
LEMMA ReadingStays ==
    ASSUME BoardTypes, BoardTypes', GoesOn, NEW w, Reading(w)
    PROVE  Reading(w)'
<1>1. WalkTypes(w)'
  <2>1. WalkTypes(w) /\ now \in Nat /\ now' \in Nat /\ now <= now'
    BY DEF Reading, GoesOn, BoardTypes
  <2> QED
    BY <2>1 DEF WalkTypes
<1>2. WalkPhases(w)' /\ GroupsKept(w)' /\ NoneTwice(w)'
  BY DEF Reading, WalkPhases, GroupsKept, NoneTwice
<1>3. ASSUME w.hasNext, NEW n \in DOMAIN w.pages, NEW item \in Items(w.pages[n])
      PROVE  item[1] \in Opened' /\ Passed(w.query, w.cursor, item[1], item[2])'
  <2>1. item[1] \in Opened /\ Passed(w.query, w.cursor, item[1], item[2])
    BY <1>3 DEF Reading, ShownPassed
  <2>2. w.query \in Query /\ w.cursor \in ListCursor /\ item[2] \in {0, 1}
    BY <1>3, HasQuery
  <2> QED
    BY <2>1, <2>2, EventGoesOn, PassedStays
<1>4. ShownPassed(w)'
  BY <1>3 DEF ShownPassed
<1>5. ASSUME NEW e \in w.owed
      PROVE  (/\ e \in Opened
              /\ w.query.sort = "participants" =>
                    w.counts[e] \in Nat /\ w.counts[e] <= totalParticipantCount(e)
              /\ \/ e \in Shown(w)
                 \/ /\ w.hasNext
                    /\ CountStays(w, e) => AfterCursor(w.query, w.stamp, w.cursor, e))'
  <2>1. /\ e \in Opened
        /\ w.query.sort = "participants" =>
              w.counts[e] \in Nat /\ w.counts[e] <= totalParticipantCount(e)
        /\ \/ e \in Shown(w)
           \/ /\ w.hasNext
              /\ CountStays(w, e) => AfterCursor(w.query, w.stamp, w.cursor, e)
    BY DEF Reading, OwedToCome
  <2>2. e \in Opened' /\ w.query \in Query /\ w.stamp \in Nat
    BY <2>1, EventGoesOn, HasQuery DEF Reading, WalkTypes
  <2>3. /\ totalParticipantCount(e) \in Nat /\ totalParticipantCount(e)' \in Nat
        /\ totalParticipantCount(e) <= totalParticipantCount(e)'
    BY TotalGrows
  <2>4. w.query.sort = "participants" =>
           w.counts[e] \in Nat /\ w.counts[e] <= totalParticipantCount(e)'
    BY <2>1, <2>3
  <2>5. ASSUME e \notin Shown(w), CountStays(w, e)'
        PROVE  w.hasNext /\ AfterCursor(w.query, w.stamp, w.cursor, e)'
    <3>1. w.query.sort = "participants" =>
             /\ totalParticipantCount(e)' = totalParticipantCount(e)
             /\ totalParticipantCount(e) = w.counts[e]
      BY <2>1, <2>3, <2>5 DEF CountStays
    <3>2. w.hasNext /\ AfterCursor(w.query, w.stamp, w.cursor, e)
      BY <2>1, <2>5, <3>1 DEF CountStays
    <3>3. w.cursor \in ListCursor /\ w.stamp <= w.stamp
      BY <2>2, <3>2, HasQuery
    <3> QED
      BY <2>1, <2>2, <3>1, <3>2, <3>3, BeyondStays
  <2> QED
    BY <2>1, <2>2, <2>4, <2>5
<1>6. OwedToCome(w)'
  BY <1>5 DEF OwedToCome
<1> QED
  BY <1>1, <1>2, <1>4, <1>6 DEF Reading

\* At a later date what was behind the cursor is so still.
LEMMA LaterDate ==
    ASSUME BoardTypes, NEW q \in Query, NEW c \in ListCursor, NEW e \in Opened,
           NEW d \in Nat, NEW f \in Nat, d <= f, AfterCursor(q, d, c, e)
    PROVE  AfterCursor(q, f, c, e)
<1>1. OrderValue(q, e) \in Nat /\ OrderGroup(q, e, d) \in {0, 1} /\ OrderGroup(q, e, f) \in {0, 1}
  BY KeyType
<1>2. OrderGroup(q, e, d) <= OrderGroup(q, e, f)
  <2>1. events[e] \in Row
    BY DEF Opened, BoardTypes
  <2>2. events[e].deadlineAt \in Nat
    BY <2>1 DEF Row
  <2>3. IsOngoing(e, f) => IsOngoing(e, d)
    BY <2>2 DEF IsOngoing
  <2> QED
    BY <2>3 DEF OrderGroup
<1>3. c.orderGroup \in {0, 1} /\ c.orderValue \in Nat /\ c.id \in Nat /\ e \in Nat
  BY ListsAssumption DEF ListCursor, Opened
<1>4. Beyond(q, OrderGroup(q, e, d), OrderValue(q, e), e, c)
  BY PlacesIn
<1>5. Beyond(q, OrderGroup(q, e, f), OrderValue(q, e), e, c)
  BY <1>1, <1>2, <1>3, <1>4 DEF Beyond
<1> QED
  BY <1>5, PlacesIn

\* The record w with these fields, and with one of them changed.
WalkIs(w, at, query, cursor, stamp, main, pages, hasNext, counts, owed) ==
    w = [at |-> at, query |-> query, cursor |-> cursor, stamp |-> stamp, main |-> main,
         pages |-> pages, hasNext |-> hasNext, counts |-> counts, owed |-> owed]

LEMMA WalkChanged ==
    ASSUME NEW w, NEW a, NEW q, NEW c, NEW s, NEW m, NEW p, NEW h, NEW t, NEW o,
           WalkIs(w, a, q, c, s, m, p, h, t, o), NEW x
    PROVE  /\ WalkIs([w EXCEPT !.at = x], x, q, c, s, m, p, h, t, o)
           /\ WalkIs([w EXCEPT !.query = x], a, x, c, s, m, p, h, t, o)
           /\ WalkIs([w EXCEPT !.cursor = x], a, q, x, s, m, p, h, t, o)
           /\ WalkIs([w EXCEPT !.stamp = x], a, q, c, x, m, p, h, t, o)
           /\ WalkIs([w EXCEPT !.main = x], a, q, c, s, x, p, h, t, o)
           /\ WalkIs([w EXCEPT !.pages = x], a, q, c, s, m, x, h, t, o)
           /\ WalkIs([w EXCEPT !.hasNext = x], a, q, c, s, m, p, x, t, o)
           /\ WalkIs([w EXCEPT !.counts = x], a, q, c, s, m, p, h, x, o)
           /\ WalkIs([w EXCEPT !.owed = x], a, q, c, s, m, p, h, t, x)
<1>1. /\ WalkIs([w EXCEPT !.at = x], x, q, c, s, m, p, h, t, o)
      /\ WalkIs([w EXCEPT !.query = x], a, x, c, s, m, p, h, t, o)
      /\ WalkIs([w EXCEPT !.cursor = x], a, q, x, s, m, p, h, t, o)
  BY DEF WalkIs
<1>2. /\ WalkIs([w EXCEPT !.stamp = x], a, q, c, x, m, p, h, t, o)
      /\ WalkIs([w EXCEPT !.main = x], a, q, c, s, x, p, h, t, o)
      /\ WalkIs([w EXCEPT !.pages = x], a, q, c, s, m, x, h, t, o)
  BY DEF WalkIs
<1>3. /\ WalkIs([w EXCEPT !.hasNext = x], a, q, c, s, m, p, x, t, o)
      /\ WalkIs([w EXCEPT !.counts = x], a, q, c, s, m, p, h, x, o)
      /\ WalkIs([w EXCEPT !.owed = x], a, q, c, s, m, p, h, t, x)
  BY DEF WalkIs
<1> QED
  BY <1>1, <1>2, <1>3

LEMMA WalkFields ==
    ASSUME NEW w, NEW a, NEW q, NEW c, NEW s, NEW m, NEW p, NEW h, NEW t, NEW o,
           WalkIs(w, a, q, c, s, m, p, h, t, o)
    PROVE  /\ w.at = a /\ w.query = q /\ w.cursor = c /\ w.stamp = s /\ w.main = m
           /\ w.pages = p /\ w.hasNext = h /\ w.counts = t /\ w.owed = o
           /\ IsWalk(w)
<1>1. /\ w.at = a /\ w.query = q /\ w.cursor = c /\ w.stamp = s /\ w.main = m
      /\ w.pages = p /\ w.hasNext = h /\ w.counts = t /\ w.owed = o
  BY DEF WalkIs
<1> QED
  BY <1>1 DEF WalkIs, IsWalk

LEMMA WalkAsked ==
    ASSUME NEW w, IsWalk(w), NEW at, NEW q, NEW d
    PROVE  LET v == [w EXCEPT !.at = at, !.query = q, !.stamp = d]
           IN  /\ v.at = at /\ v.query = q /\ v.stamp = d /\ v.main = w.main
               /\ v.cursor = w.cursor /\ v.pages = w.pages /\ v.owed = w.owed
               /\ v.hasNext = w.hasNext /\ v.counts = w.counts /\ IsWalk(v)
<1> DEFINE v1 == [w EXCEPT !.at = at]
           v2 == [v1 EXCEPT !.query = q]
           v == [v2 EXCEPT !.stamp = d]
<1>1. WalkIs(w, w.at, w.query, w.cursor, w.stamp, w.main, w.pages, w.hasNext, w.counts, w.owed)
  BY DEF IsWalk, WalkIs
<1> HIDE DEF v1
<1>2. WalkIs(v1, at, w.query, w.cursor, w.stamp, w.main, w.pages, w.hasNext, w.counts, w.owed)
  BY <1>1, WalkChanged DEF v1
<1> HIDE DEF v2
<1>3. WalkIs(v2, at, q, w.cursor, w.stamp, w.main, w.pages, w.hasNext, w.counts, w.owed)
  BY <1>2, WalkChanged DEF v2
<1> HIDE DEF v
<1>4. WalkIs(v, at, q, w.cursor, d, w.main, w.pages, w.hasNext, w.counts, w.owed)
  BY <1>3, WalkChanged DEF v
<1>5. v = [w EXCEPT !.at = at, !.query = q, !.stamp = d]
  BY DEF v, v1, v2
<1> QED
  BY <1>4, <1>5, WalkFields

LEMMA WalkMained ==
    ASSUME NEW w, IsWalk(w), NEW m
    PROVE  LET v == [w EXCEPT !.at = "page", !.main = m]
           IN  /\ v.at = "page" /\ v.query = w.query /\ v.stamp = w.stamp /\ v.main = m
               /\ v.cursor = w.cursor /\ v.pages = w.pages /\ v.owed = w.owed
               /\ v.hasNext = w.hasNext /\ v.counts = w.counts /\ IsWalk(v)
<1> DEFINE v1 == [w EXCEPT !.at = "page"]
           v == [v1 EXCEPT !.main = m]
<1>1. WalkIs(w, w.at, w.query, w.cursor, w.stamp, w.main, w.pages, w.hasNext, w.counts, w.owed)
  BY DEF IsWalk, WalkIs
<1> HIDE DEF v1
<1>2. WalkIs(v1, "page", w.query, w.cursor, w.stamp, w.main, w.pages, w.hasNext, w.counts, w.owed)
  BY <1>1, WalkChanged DEF v1
<1> HIDE DEF v
<1>3. WalkIs(v, "page", w.query, w.cursor, w.stamp, m, w.pages, w.hasNext, w.counts, w.owed)
  BY <1>2, WalkChanged DEF v
<1>4. v = [w EXCEPT !.at = "page", !.main = m]
  BY DEF v, v1
<1> QED
  BY <1>3, <1>4, WalkFields

LEMMA WalkRefused ==
    ASSUME NEW w, IsWalk(w)
    PROVE  LET v == [w EXCEPT !.at = "invalid_cursor"]
           IN  /\ v.at = "invalid_cursor" /\ v.query = w.query /\ v.stamp = w.stamp
               /\ v.main = w.main /\ v.cursor = w.cursor /\ v.pages = w.pages
               /\ v.owed = w.owed /\ v.hasNext = w.hasNext /\ v.counts = w.counts
               /\ IsWalk(v)
BY DEF IsWalk

LEMMA NoWalkReads ==
    ASSUME BoardTypes
    PROVE  Reading(NoWalk)
<1>1. NoWalk.pages = <<>> /\ NoWalk.owed = {} /\ ~NoWalk.hasNext /\ NoWalk.at = "idle"
  BY DEF NoWalk
<1>2. WalkTypes(NoWalk)
  BY DEF NoWalk, IsWalk, WalkTypes, BoardTypes
<1>3. WalkPhases(NoWalk)
  BY DEF NoWalk, WalkPhases
<1> QED
  BY <1>1, <1>2, <1>3 DEF Reading, GroupsKept, NoneTwice, ShownPassed, OwedToCome

LEMMA AskFirstReads ==
    ASSUME BoardTypes, NEW w, Reading(w), w.at = "idle", NEW q \in Queries, NEW at \in {"main", "page"}
    PROVE  Reading([w EXCEPT !.at = at, !.query = q, !.stamp = now])
<1> DEFINE v == [w EXCEPT !.at = at, !.query = q, !.stamp = now]
<1>1. q \in Query /\ now \in Nat
  BY ListsAssumption DEF BoardTypes
<1>2. WalkTypes(w) /\ w.pages = <<>> /\ w.owed = {} /\ ~w.hasNext /\ w.cursor = Null
  BY DEF Reading, WalkPhases
<1>3. /\ v.at = at /\ v.query = q /\ v.stamp = now /\ v.main = w.main /\ v.cursor = Null
      /\ v.pages = <<>> /\ v.owed = {} /\ v.hasNext = w.hasNext /\ v.counts = w.counts
      /\ IsWalk(v)
  <2>1. IsWalk(w)
    BY <1>2 DEF WalkTypes
  <2> HIDE DEF v
  <2>2. /\ v.at = at /\ v.query = q /\ v.stamp = now /\ v.main = w.main
        /\ v.cursor = w.cursor /\ v.pages = w.pages /\ v.owed = w.owed
        /\ v.hasNext = w.hasNext /\ v.counts = w.counts /\ IsWalk(v)
    BY <2>1, WalkAsked DEF v
  <2> QED
    BY <1>2, <2>2
<1> HIDE DEF v
<1>4. WalkTypes(v)
  BY <1>1, <1>2, <1>3 DEF WalkTypes
<1>5. WalkPhases(v)
  BY <1>2, <1>3 DEF WalkPhases
<1>6. GroupsKept(v) /\ NoneTwice(v) /\ ShownPassed(v) /\ OwedToCome(v)
  BY <1>2, <1>3 DEF GroupsKept, NoneTwice, ShownPassed, OwedToCome
<1> QED
  BY <1>4, <1>5, <1>6 DEF Reading, v

LEMMA AskNextReads ==
    ASSUME BoardTypes, NEW w, Reading(w), w.at = "answered", w.hasNext, NEW q \in Queries,
           q.list = w.query.list, q.user = w.query.user, AcceptsCursor(w.cursor, q)
    PROVE  Reading([w EXCEPT !.at = "page", !.query = q, !.stamp = now])
<1> DEFINE v == [w EXCEPT !.at = "page", !.query = q, !.stamp = now]
<1>1. q \in Query /\ now \in Nat
  BY ListsAssumption DEF BoardTypes
<1>2. WalkTypes(w) /\ w.query \in Query /\ w.cursor \in ListCursor /\ w.pages # <<>>
  BY HasQuery DEF Reading
<1>3. q = w.query
  <2>1. q.sort = w.query.sort /\ q.category = w.query.category
    BY DEF AcceptsCursor, Reading, WalkPhases
  <2> QED
    BY <1>1, <1>2, <2>1 DEF Query
<1>4. /\ v.at = "page" /\ v.query = w.query /\ v.stamp = now /\ v.main = w.main
      /\ v.cursor = w.cursor /\ v.pages = w.pages /\ v.owed = w.owed
      /\ v.hasNext = w.hasNext /\ v.counts = w.counts
      /\ IsWalk(v)
  <2>1. IsWalk(w)
    BY <1>2 DEF WalkTypes
  <2> HIDE DEF v
  <2>2. /\ v.at = "page" /\ v.query = q /\ v.stamp = now /\ v.main = w.main
        /\ v.cursor = w.cursor /\ v.pages = w.pages /\ v.owed = w.owed
        /\ v.hasNext = w.hasNext /\ v.counts = w.counts /\ IsWalk(v)
    BY <2>1, WalkAsked DEF v
  <2> QED
    BY <1>3, <2>2
<1> HIDE DEF v
<1>5. WalkTypes(v)
  BY <1>1, <1>2, <1>4 DEF WalkTypes
<1>6. WalkPhases(v)
  BY <1>2, <1>4 DEF Reading, WalkPhases
<1>7. GroupsKept(v) /\ NoneTwice(v) /\ ShownPassed(v)
  BY <1>4 DEF Reading, GroupsKept, NoneTwice, ShownPassed
<1>8. Shown(v) = Shown(w)
  BY <1>4 DEF Shown, AllItems, MainItem
<1>9. ASSUME NEW e \in v.owed
      PROVE  /\ e \in Opened
             /\ v.query.sort = "participants" =>
                   v.counts[e] \in Nat /\ v.counts[e] <= totalParticipantCount(e)
             /\ \/ e \in Shown(v)
                \/ /\ v.hasNext
                   /\ CountStays(v, e) => AfterCursor(v.query, v.stamp, v.cursor, e)
  <2>1. /\ e \in Opened
        /\ w.query.sort = "participants" =>
              w.counts[e] \in Nat /\ w.counts[e] <= totalParticipantCount(e)
        /\ \/ e \in Shown(w)
           \/ /\ w.hasNext
              /\ CountStays(w, e) => AfterCursor(w.query, w.stamp, w.cursor, e)
    BY <1>4 DEF Reading, OwedToCome
  <2>2. CountStays(v, e) => CountStays(w, e)
    BY <1>4 DEF CountStays
  <2>3. AfterCursor(w.query, w.stamp, w.cursor, e) => AfterCursor(w.query, now, w.cursor, e)
    BY <1>1, <1>2, <2>1, LaterDate DEF WalkTypes
  <2> QED
    BY <1>4, <1>8, <2>1, <2>2, <2>3
<1>10. OwedToCome(v)
  BY <1>9 DEF OwedToCome
<1> QED
  BY <1>5, <1>6, <1>7, <1>10 DEF Reading, v

LEMMA RefusedReads ==
    ASSUME NEW w, Reading(w), w.at = "answered", w.hasNext
    PROVE  Reading([w EXCEPT !.at = "invalid_cursor"])
<1> DEFINE v == [w EXCEPT !.at = "invalid_cursor"]
<1>1. WalkTypes(w) /\ w.query \in Query /\ w.pages # <<>>
  BY HasQuery DEF Reading
<1>2. /\ v.at = "invalid_cursor" /\ v.query = w.query /\ v.stamp = w.stamp
      /\ v.main = w.main /\ v.cursor = w.cursor /\ v.pages = w.pages /\ v.owed = w.owed
      /\ v.hasNext = w.hasNext /\ v.counts = w.counts
      /\ IsWalk(v)
  BY <1>1, WalkRefused DEF WalkTypes
<1> HIDE DEF v
<1>3. WalkTypes(v)
  BY <1>1, <1>2 DEF WalkTypes
<1>4. WalkPhases(v)
  BY <1>1, <1>2 DEF Reading, WalkPhases
<1>5. GroupsKept(v) /\ NoneTwice(v) /\ ShownPassed(v)
  BY <1>2 DEF Reading, GroupsKept, NoneTwice, ShownPassed
<1>6. OwedToCome(v)
  BY <1>2 DEF Reading, OwedToCome, Shown, AllItems, MainItem, CountStays
<1> QED
  BY <1>3, <1>4, <1>5, <1>6 DEF Reading, v

\* The order of the main vote has a first among any events.
LEMMA MainIsFirst ==
    ASSUME BoardTypes, NEW S \in SUBSET Opened, S # {}
    PROVE  (CHOOSE e \in S : \A f \in S \ {e} : LeadsMain(e, f)) \in S
<1> DEFINE R == {p \in S \X S : LeadsMain(p[1], p[2])}
           n(e) == totalParticipantCount(e)
           x(e) == events[e].deadlineAt
           leads(e, f) == \/ n(e) > n(f)
                          \/ /\ n(e) = n(f)
                             /\ \/ x(e) < x(f)
                                \/ x(e) = x(f) /\ e < f
<1>1. \A e \in S : e \in Nat /\ n(e) \in Nat /\ x(e) \in Nat
  <2>1. TAKE e \in S
  <2>2. e \in Nat /\ events[e] \in Row
    BY ListsAssumption DEF Opened, BoardTypes
  <2> QED
    BY <2>2, TotalGrows DEF Row
<1>2. \A e, f : LeadsMain(e, f) <=> leads(e, f)
  BY DEF LeadsMain
<1> HIDE DEF n, x
<1>3. \A e \in S : ~leads(e, e)
  BY <1>1
<1>4. ASSUME NEW e \in S, NEW f \in S, e # f
      PROVE  leads(e, f) \/ leads(f, e)
  <2>1. /\ e \in Nat /\ n(e) \in Nat /\ x(e) \in Nat
        /\ f \in Nat /\ n(f) \in Nat /\ x(f) \in Nat
    BY <1>1
  <2> QED
    BY <1>4, <2>1
<1>5. ASSUME NEW e \in S, NEW f \in S, NEW h \in S, leads(e, f), leads(f, h)
      PROVE  leads(e, h)
  <2>1. /\ e \in Nat /\ n(e) \in Nat /\ x(e) \in Nat
        /\ f \in Nat /\ n(f) \in Nat /\ x(f) \in Nat
        /\ h \in Nat /\ n(h) \in Nat /\ x(h) \in Nat
    BY <1>1
  <2> QED
    BY <1>5, <2>1
<1> HIDE DEF leads
<1>6. \A e, f \in S : <<e, f>> \in R <=> leads(e, f)
  BY <1>2
<1> HIDE DEF R
<1>7. StrictOrder(R, S)
  BY <1>3, <1>4, <1>5, <1>6 DEF StrictOrder
<1>8. IsFiniteSet(S) /\ Cardinality(S) \in Nat /\ 0 < Cardinality(S)
  <2>1. S \subseteq Events
    BY DEF Opened
  <2>2. IsFiniteSet(S) /\ Cardinality(S) \in Nat
    BY <2>1, FS_Subset, FS_CardinalityType, ListsAssumption
  <2>3. Cardinality(S) # 0
    BY <2>2, FS_EmptySet
  <2> QED
    BY <2>2, <2>3
<1>9. PICK e \in S : RankIn(R, S, e) = 0
  BY <1>7, <1>8, RankTaken
<1>10. \A f \in S \ {e} : LeadsMain(e, f)
  <2>1. TAKE f \in S \ {e}
  <2>2. IsFiniteSet({h \in S : <<h, e>> \in R}) /\ Cardinality({h \in S : <<h, e>> \in R}) = 0
    BY <1>8, <1>9, FS_Subset DEF RankIn
  <2>3. {h \in S : <<h, e>> \in R} = {}
    BY <2>2, FS_EmptySet
  <2>4. <<f, e>> \notin R
    BY <2>3
  <2> QED
    BY <1>2, <1>4, <1>6, <2>4
<1> QED
  BY <1>10

LEMMA FindMainReads ==
    ASSUME BoardTypes, NEW w, Reading(w), w.at = "main", NEW m \in Events \cup {Null}
    PROVE  Reading([w EXCEPT !.at = "page", !.main = m])
<1> DEFINE v == [w EXCEPT !.at = "page", !.main = m]
<1>1. IsWalk(w) /\ WalkTypes(w)
  BY DEF Reading, WalkTypes
<1>2. /\ v.at = "page" /\ v.query = w.query /\ v.stamp = w.stamp /\ v.main = m
      /\ v.cursor = w.cursor /\ v.pages = w.pages /\ v.owed = w.owed
      /\ v.hasNext = w.hasNext /\ v.counts = w.counts /\ IsWalk(v)
  BY <1>1, WalkMained
<1> HIDE DEF v
<1>3. v.pages = <<>> /\ v.owed = {} /\ ~v.hasNext /\ v.cursor = Null
  <2>1. w.pages = <<>> /\ w.owed = {} /\ ~w.hasNext /\ w.cursor = Null
    BY DEF Reading, WalkPhases
  <2> QED
    BY <1>2, <2>1
<1>4. WalkTypes(v)
  BY <1>1, <1>2 DEF WalkTypes
<1>5. WalkPhases(v)
  BY <1>3 DEF WalkPhases
<1>6. GroupsKept(v) /\ NoneTwice(v) /\ ShownPassed(v) /\ OwedToCome(v)
  BY <1>3 DEF GroupsKept, NoneTwice, ShownPassed, OwedToCome
<1> QED
  BY <1>4, <1>5, <1>6 DEF Reading, v

LEMMA WalkAnswered ==
    ASSUME NEW w, IsWalk(w), NEW items, NEW more
    PROVE  LET v == Answered(w, items, more)
           IN  /\ v.at = "answered" /\ v.query = w.query /\ v.stamp = w.stamp
               /\ v.main = w.main /\ v.pages = Append(w.pages, ShownAs(w, items))
               /\ v.hasNext = more
               /\ v.cursor = IF more THEN Cursor(w, items[PageLimit]) ELSE w.cursor
               /\ v.counts = CountsFound(w) /\ v.owed = StillOwed(w) /\ IsWalk(v)
<1> DEFINE p == Append(w.pages, ShownAs(w, items))
           c == IF more THEN Cursor(w, items[PageLimit]) ELSE w.cursor
           t == CountsFound(w)
           o == StillOwed(w)
           v1 == [w EXCEPT !.at = "answered"]
           v2 == [v1 EXCEPT !.pages = p]
           v3 == [v2 EXCEPT !.hasNext = more]
           v4 == [v3 EXCEPT !.cursor = c]
           v5 == [v4 EXCEPT !.counts = t]
           v  == [v5 EXCEPT !.owed = o]
<1>1. v = Answered(w, items, more)
  BY DEF Answered
<1> HIDE DEF p, c, t, o
<1>2. WalkIs(w, w.at, w.query, w.cursor, w.stamp, w.main, w.pages, w.hasNext, w.counts, w.owed)
  BY DEF IsWalk, WalkIs
<1> HIDE DEF v1
<1>3. WalkIs(v1, "answered", w.query, w.cursor, w.stamp, w.main, w.pages, w.hasNext, w.counts, w.owed)
  BY <1>2, WalkChanged DEF v1
<1> HIDE DEF v2
<1>4. WalkIs(v2, "answered", w.query, w.cursor, w.stamp, w.main, p, w.hasNext, w.counts, w.owed)
  BY <1>3, WalkChanged DEF v2
<1> HIDE DEF v3
<1>5. WalkIs(v3, "answered", w.query, w.cursor, w.stamp, w.main, p, more, w.counts, w.owed)
  BY <1>4, WalkChanged DEF v3
<1> HIDE DEF v4
<1>6. WalkIs(v4, "answered", w.query, c, w.stamp, w.main, p, more, w.counts, w.owed)
  BY <1>5, WalkChanged DEF v4
<1> HIDE DEF v5
<1>7. WalkIs(v5, "answered", w.query, c, w.stamp, w.main, p, more, t, w.owed)
  BY <1>6, WalkChanged DEF v5
<1> HIDE DEF v
<1>8. WalkIs(v, "answered", w.query, c, w.stamp, w.main, p, more, t, o)
  BY <1>7, WalkChanged DEF v
<1>9. /\ v.at = "answered" /\ v.query = w.query /\ v.stamp = w.stamp /\ v.main = w.main
      /\ v.pages = p /\ v.hasNext = more /\ v.cursor = c /\ v.counts = t /\ v.owed = o
      /\ IsWalk(v)
  BY <1>8, WalkFields
<1> QED
  BY <1>1, <1>9 DEF p, c, t, o

\* A page shows what is behind the cursor, and not the main vote.
LEMMA PageIsBehind ==
    ASSUME BoardTypes, NEW w, Reading(w), w.at = "page"
    PROVE  /\ w.query \in Query /\ w.stamp \in Nat
           /\ MainVoteId(w) = w.main
           /\ \A e \in Candidates(w) :
                 /\ e \in Opened /\ e \in Events /\ e \in Nat /\ e # w.main
                 /\ w.pages # <<>> =>
                       w.hasNext /\ w.cursor \in ListCursor
                         /\ AfterCursor(w.query, w.stamp, w.cursor, e)
<1>1. WalkTypes(w) /\ WalkPhases(w)
  BY DEF Reading
<1>2. w.query \in Query /\ w.stamp \in Nat
  BY <1>1 DEF WalkTypes
<1>3. CASE w.pages = <<>>
  <2>1. w.cursor = Null
    BY <1>1, <1>3 DEF WalkPhases
  <2>2. MainVoteId(w) = w.main
    BY <2>1 DEF MainVoteId
  <2> QED
    BY <1>2, <1>3, <2>2, ListsAssumption DEF Candidates, Listed, Opened
<1>4. CASE w.pages # <<>>
  <2>1. w.hasNext /\ w.cursor \in ListCursor /\ w.cursor.mainVoteId = w.main
    BY <1>1, <1>4 DEF WalkPhases
  <2>2. w.cursor # Null
    BY <2>1, ListsNullAssumption
  <2>3. MainVoteId(w) = w.main
    BY <2>1, <2>2 DEF MainVoteId
  <2> QED
    BY <1>2, <2>1, <2>2, <2>3, ListsAssumption DEF Candidates, Listed, Opened
<1> QED
  BY <1>3, <1>4

\* What a page shows was on no page before it.
LEMMA PageIsNew ==
    ASSUME BoardTypes, NEW w, Reading(w), w.at = "page", NEW e \in Candidates(w)
    PROVE  LET item == <<e, OrderGroup(w.query, e, w.stamp)>>
           IN  \A n \in DOMAIN w.pages : item \notin Items(w.pages[n])
<1> DEFINE g == OrderGroup(w.query, e, w.stamp)
           x == OrderValue(w.query, e)
           item == <<e, g>>
<1>1. /\ w.query \in Query /\ e \in Opened /\ e \in Nat /\ e # w.main
      /\ w.pages # <<>> => w.hasNext /\ w.cursor \in ListCursor
                             /\ AfterCursor(w.query, w.stamp, w.cursor, e)
  BY PageIsBehind
<1>2. g \in {0, 1} /\ x \in Nat
  BY <1>1, KeyType
<1> HIDE DEF g
<1>3. ASSUME NEW n \in DOMAIN w.pages, item \in Items(w.pages[n])
      PROVE  FALSE
  <2>1. w.pages # <<>>
    BY DEF Reading, WalkTypes
  <2>2. w.hasNext /\ w.cursor \in ListCursor /\ Beyond(w.query, g, x, e, w.cursor)
    BY <1>1, <2>1, PlacesIn DEF g
  <2>3. Passed(w.query, w.cursor, item[1], item[2])
    BY <1>3, <2>2 DEF Reading, ShownPassed
  <2>4. AtOrBefore(w.query, g, x, e, w.cursor)
    BY <2>3, PlacesIn
  <2> HIDE DEF x
  <2> QED
    BY <1>1, <1>2, <2>2, <2>4, PlacesApart
<1> QED
  BY <1>3 DEF g

\* In a list that keeps the groups, a page's items are all of the one group.
LEMMA PageKeepsGroup ==
    ASSUME BoardTypes, NEW w, Reading(w), w.at = "page", NEW e \in Candidates(w),
           KeepsGroup(w.query)
    PROVE  OrderGroup(w.query, e, w.stamp)
             = IF w.query.sort = "deadline" /\ w.query.list = "completed" THEN 1 ELSE 0
<1>1. e \in Listed(w.query, w.stamp)
  BY DEF Candidates
<1>2. /\ w.query.list = "ongoing" => IsOngoing(e, w.stamp)
      /\ w.query.list = "completed" => ~IsOngoing(e, w.stamp)
  <2>1. e \in Opened /\ w.stamp \in Nat
    BY <1>1 DEF Listed, Reading, WalkTypes, IsWalk, BoardTypes
  <2> QED
    BY <1>1, <2>1, OngoingOrCompleted DEF Listed
<1> QED
  BY <1>2 DEF KeepsGroup, OrderGroup

\* The pages with one more.
LEMMA PagesThen ==
    ASSUME NEW pages \in Seq(Seq(Item)), NEW page \in Seq(Item)
    PROVE  LET all == Append(pages, page)
           IN  /\ all \in Seq(Seq(Item)) /\ all # <<>>
               /\ Len(pages) + 1 \in DOMAIN all /\ all[Len(pages) + 1] = page
               /\ \A n \in DOMAIN pages : n \in DOMAIN all /\ all[n] = pages[n]
               /\ \A n \in DOMAIN all : n \in DOMAIN pages \/ n = Len(pages) + 1
<1> DEFINE all == Append(pages, page)
<1>1. all \in Seq(Seq(Item)) /\ Len(all) = Len(pages) + 1 /\ Len(pages) \in Nat
  OBVIOUS
<1>2. DOMAIN all = 1 .. (Len(pages) + 1) /\ DOMAIN pages = 1 .. Len(pages)
  BY <1>1
<1>3. all[Len(pages) + 1] = page /\ \A n \in 1 .. Len(pages) : all[n] = pages[n]
  OBVIOUS
<1> HIDE DEF all
<1>4. all # <<>> /\ Len(pages) + 1 \in DOMAIN all
  BY <1>1, <1>2
<1>5. /\ \A n \in DOMAIN pages : n \in DOMAIN all /\ all[n] = pages[n]
      /\ \A n \in DOMAIN all : n \in DOMAIN pages \/ n = Len(pages) + 1
  BY <1>1, <1>2, <1>3
<1> QED
  BY <1>1, <1>3, <1>4, <1>5 DEF all

LEMMA FindPageReads ==
    ASSUME BoardTypes, NEW w, Reading(w), w.at = "page", NEW items, NEW more \in BOOLEAN,
           PageOf(w, items, more)
    PROVE  Reading(Answered(w, items, more))
<1> DEFINE v    == Answered(w, items, more)
           page == ShownAs(w, items)
           last == items[PageLimit]
           q    == w.query
           here(e) == <<e, OrderGroup(q, e, w.stamp)>>
<1>1. /\ WalkTypes(w) /\ WalkPhases(w) /\ GroupsKept(w)
      /\ NoneTwice(w) /\ ShownPassed(w) /\ OwedToCome(w)
  BY DEF Reading
<1>2. /\ v.at = "answered" /\ v.query = q /\ v.stamp = w.stamp
      /\ v.main = w.main /\ v.pages = Append(w.pages, page)
      /\ v.hasNext = more
      /\ v.cursor = IF more THEN Cursor(w, last) ELSE w.cursor
      /\ v.counts = CountsFound(w) /\ v.owed = StillOwed(w) /\ IsWalk(v)
  BY <1>1, WalkAnswered DEF WalkTypes
<1>3. /\ q \in Query /\ w.stamp \in Nat /\ MainVoteId(w) = w.main
      /\ w.main \in Events \cup {Null}
      /\ \A e \in Candidates(w) : e \in Opened /\ e \in Events /\ e # w.main
      /\ \A e \in Candidates(w) : w.pages # <<>> =>
            w.hasNext /\ w.cursor \in ListCursor /\ AfterCursor(q, w.stamp, w.cursor, e)
  BY <1>1, PageIsBehind DEF WalkTypes
<1>4. /\ \A n \in DOMAIN items : items[n] \in Candidates(w)
      /\ page \in Seq(Item) /\ Len(page) <= PageLimit
      /\ Items(page) = {here(items[n]) : n \in DOMAIN items}
      /\ EventsOf(page) = {items[n] : n \in DOMAIN items}
      /\ Cardinality(EventsOf(page)) = Len(page)
  BY <1>3, PageCount
<1>5. w.pages \in Seq(Seq(Item))
  BY <1>1 DEF WalkTypes
<1> DEFINE k == Len(w.pages) + 1
<1>6. /\ v.pages \in Seq(Seq(Item)) /\ v.pages # <<>>
      /\ k \in DOMAIN v.pages /\ v.pages[k] = page
      /\ \A n \in DOMAIN w.pages : n \in DOMAIN v.pages /\ v.pages[n] = w.pages[n]
      /\ \A n \in DOMAIN v.pages : n \in DOMAIN w.pages \/ n = k
  BY <1>2, <1>4, <1>5, PagesThen
<1>7. /\ more => v.hasNext /\ v.cursor = Cursor(w, last)
      /\ ~more => ~v.hasNext
  BY <1>2, Zenon
<1>8. more => last \in Candidates(w) /\ last \in Opened /\ Cursor(w, last) \in ListCursor
  <2>1. SUFFICES ASSUME more
                 PROVE  last \in Candidates(w) /\ last \in Opened
                          /\ Cursor(w, last) \in ListCursor
    OBVIOUS
  <2>2. items \in Seq(Candidates(w)) /\ Len(items) = PageLimit /\ PageLimit \in Nat \ {0}
    BY <2>1, ListsAssumption DEF PageOf
  <2>3. PageLimit \in DOMAIN items
    BY <2>2
  <2>4. last \in Candidates(w) /\ last \in Opened
    BY <1>3, <1>4, <2>3
  <2> QED
    BY <1>3, <2>4, AtTheCursor
<1> HIDE DEF v, page, last, k
<1>9. WalkTypes(v)
  <2>1. v.hasNext \in BOOLEAN
    BY <1>2
  <2>2. /\ v.at \in {"idle", "main", "page", "answered", "invalid_cursor"}
        /\ v.query \in Query /\ v.stamp \in Nat /\ v.stamp <= now
        /\ v.main \in Events \cup {Null}
    BY <1>1, <1>2, <1>3 DEF WalkTypes
  <2> QED
    BY <1>2, <1>6, <2>1, <2>2 DEF WalkTypes
<1>10. WalkPhases(v)
  <2>1. ASSUME more
        PROVE  /\ v.cursor \in ListCursor /\ v.cursor.sort = v.query.sort
               /\ v.cursor.category = v.query.category /\ v.cursor.mainVoteId = v.main
    <3>1. v.cursor = Cursor(w, last) /\ v.cursor \in ListCursor
      BY <1>7, <1>8, <2>1
    <3> QED
      BY <1>2, <1>3, <3>1 DEF Cursor
  <2> QED
    BY <1>2, <1>6, <1>7, <2>1 DEF WalkPhases
<1> DEFINE group == IF q.sort = "deadline" /\ q.list = "completed" THEN 1 ELSE 0
<1>11. GroupsKept(v)
  <2>1. ASSUME KeepsGroup(q), NEW n \in DOMAIN v.pages, NEW item \in Items(v.pages[n])
        PROVE  item[2] = group
    <3>1. CASE n = k
      <4>1. PICK j \in DOMAIN items : item = here(items[j])
        BY <1>4, <1>6, <2>1, <3>1
      <4>2. item[2] = OrderGroup(q, items[j], w.stamp)
        BY <4>1
      <4> QED
        BY <1>4, <2>1, <4>2, PageKeepsGroup
    <3>2. CASE n \in DOMAIN w.pages
      BY <1>1, <1>6, <2>1, <3>2 DEF GroupsKept
    <3> QED
      BY <1>6, <3>1, <3>2
  <2> QED
    BY <1>2, <2>1 DEF GroupsKept
<1>12. NoneTwice(v)
  <2>1. \A n \in DOMAIN items : \A m \in DOMAIN w.pages :
           here(items[n]) \notin Items(w.pages[m])
    BY <1>4, PageIsNew
  <2>2. \A m \in DOMAIN w.pages : Items(page) \cap Items(w.pages[m]) = {}
    BY <1>4, <2>1
  <2>3. w.main \notin EventsOf(page)
    BY <1>3, <1>4
  <2>4. ASSUME NEW n \in DOMAIN v.pages
        PROVE  /\ v.main \notin EventsOf(v.pages[n])
               /\ Cardinality(EventsOf(v.pages[n])) = Len(v.pages[n])
               /\ Len(v.pages[n]) <= PageLimit
    <3>1. CASE n = k
      BY <1>2, <1>4, <1>6, <2>3, <3>1
    <3>2. CASE n \in DOMAIN w.pages
      BY <1>1, <1>2, <1>6, <3>2 DEF NoneTwice
    <3> QED
      BY <1>6, <3>1, <3>2
  <2>5. ASSUME NEW n \in DOMAIN v.pages, NEW m \in DOMAIN v.pages, n # m
        PROVE  Items(v.pages[n]) \cap Items(v.pages[m]) = {}
    <3>1. CASE n \in DOMAIN w.pages /\ m \in DOMAIN w.pages
      BY <1>1, <1>6, <2>5, <3>1 DEF NoneTwice
    <3>2. CASE n = k
      BY <1>6, <2>2, <2>5, <3>2
    <3>3. CASE m = k
      BY <1>6, <2>2, <2>5, <3>3
    <3> QED
      BY <1>6, <3>1, <3>2, <3>3
  <2>6. ASSUME NEW n \in DOMAIN v.pages, NEW m \in DOMAIN v.pages, n # m,
               KeepsGroup(q), NEW i \in Items(v.pages[n]), NEW j \in Items(v.pages[m]),
               i[1] = j[1]
        PROVE  FALSE
    <3>1. i[2] = group /\ j[2] = group
      BY <1>2, <1>11, <2>6 DEF GroupsKept
    <3>2. i \in Item /\ j \in Item
      <4>1. v.pages[n] \in Seq(Item) /\ v.pages[m] \in Seq(Item)
        BY <1>6
      <4> QED
        BY <4>1 DEF Items
    <3>3. i = j
      BY <2>6, <3>1, <3>2 DEF Item
    <3> QED
      BY <2>5, <2>6, <3>3
  <2>7. ASSUME NEW n \in DOMAIN v.pages, NEW m \in DOMAIN v.pages, n # m, KeepsGroup(q)
        PROVE  EventsOf(v.pages[n]) \cap EventsOf(v.pages[m]) = {}
    BY <2>6, <2>7 DEF EventsOf
  <2> QED
    BY <1>2, <2>4, <2>5, <2>7 DEF NoneTwice
<1>13. ShownPassed(v)
  <2>1. ASSUME more, NEW n \in DOMAIN v.pages, NEW item \in Items(v.pages[n])
        PROVE  item[1] \in Opened /\ Passed(q, Cursor(w, last), item[1], item[2])
    <3>1. CASE n = k
      <4>1. PICK j \in DOMAIN items : item = here(items[j])
        BY <1>4, <1>6, <2>1, <3>1
      <4>2. items[j] \in Opened
        BY <1>3, <1>4
      <4>3. items[j] = last \/ Before(q, w.stamp, items[j], last)
        <5>1. /\ items \in Seq(Candidates(w)) /\ Len(items) = PageLimit
              /\ PageLimit \in Nat \ {0}
              /\ \A i, m \in DOMAIN items : i < m => Before(q, w.stamp, items[i], items[m])
          BY <2>1, ListsAssumption DEF PageOf
        <5>2. DOMAIN items = 1 .. PageLimit
          BY <5>1
        <5>3. j = PageLimit \/ j < PageLimit
          BY <5>1, <5>2
        <5> QED
          BY <5>1, <5>2, <5>3 DEF last
      <4>4. Passed(q, Cursor(w, last), items[j], OrderGroup(q, items[j], w.stamp))
        BY <1>3, <1>8, <2>1, <4>2, <4>3, AtTheCursor
      <4> QED
        BY <4>1, <4>2, <4>4
    <3>2. CASE n \in DOMAIN w.pages
      <4>1. w.pages # <<>>
        BY <1>5, <3>2
      <4>2. w.hasNext /\ w.cursor \in ListCursor /\ AfterCursor(q, w.stamp, w.cursor, last)
        BY <1>3, <1>8, <2>1, <4>1
      <4>3. item \in Items(w.pages[n])
        BY <1>6, <2>1, <3>2
      <4>4. item[1] \in Opened /\ Passed(q, w.cursor, item[1], item[2])
        BY <1>1, <3>2, <4>2, <4>3 DEF ShownPassed
      <4>5. item[2] \in {0, 1} /\ item[1] \in Nat /\ OrderValue(q, item[1]) \in Nat
        BY <1>3, <3>2, <4>3, <4>4, HasQuery, KeyType, ListsAssumption
      <4> DEFINE x == OrderValue(q, item[1])
                 c == Cursor(w, last)
      <4>6. AtOrBefore(q, item[2], x, item[1], w.cursor)
        BY <4>4, PlacesIn
      <4>7. Beyond(q, OrderGroup(q, last, w.stamp), OrderValue(q, last), last, w.cursor)
        BY <4>2, PlacesIn
      <4>8. c.orderGroup = OrderGroup(q, last, w.stamp) /\ c.orderValue = OrderValue(q, last)
            /\ c.id = last
        BY DEF Cursor
      <4> HIDE DEF x, c
      <4>9. Beyond(q, c.orderGroup, c.orderValue, c.id, w.cursor)
        BY <4>7, <4>8
      <4>10. AtOrBefore(q, item[2], x, item[1], c)
        BY <1>8, <2>1, <4>2, <4>5, <4>6, <4>9, PlacesApart DEF x, c
      <4> QED
        BY <4>4, <4>10, PlacesIn DEF x, c
    <3> QED
      BY <1>6, <3>1, <3>2
  <2> QED
    BY <1>2, <1>7, <2>1 DEF ShownPassed
<1>14. OwedToCome(v)
  <2>1. ASSUME NEW e \in v.owed
        PROVE  /\ e \in Opened
               /\ q.sort = "participants" =>
                     v.counts[e] \in Nat /\ v.counts[e] <= totalParticipantCount(e)
               /\ e \in Shown(w) \/ e \in Candidates(w)
    <3>1. e \in Listed(q, w.stamp) /\ e \in Opened /\ e \in Events
      BY <1>2 DEF StillOwed, Listed, Opened
    <3>2. totalParticipantCount(e) \in Nat
      BY TotalGrows
    <3>3. e = w.main => e \in Shown(w)
      <4>1. ASSUME e = w.main
            PROVE  <<e, 0>> \in AllItems(w)
        BY <3>1, <4>1, ListsNullAssumption DEF AllItems, MainItem
      <4> QED
        BY <4>1 DEF Shown
    <3>4. CASE w.pages = <<>>
      <4>1. w.cursor = Null
        BY <1>1, <3>4 DEF WalkPhases
      <4>2. e # w.main => e \in Candidates(w)
        BY <1>3, <3>1, <4>1 DEF Candidates
      <4>3. q.sort = "participants" => v.counts[e] = totalParticipantCount(e)
        BY <1>2, <3>1, <3>4 DEF CountsFound
      <4> QED
        BY <3>1, <3>2, <3>3, <4>2, <4>3
    <3>5. CASE w.pages # <<>>
      <4>1. e \in w.owed /\ (q.sort = "participants" => totalParticipantCount(e) = w.counts[e])
        BY <1>2, <3>5 DEF StillOwed
      <4>2. \/ e \in Shown(w)
            \/ AfterCursor(q, w.stamp, w.cursor, e)
        BY <1>1, <4>1 DEF OwedToCome, CountStays
      <4>3. v.counts = w.counts
        BY <1>2, <3>5 DEF CountsFound
      <4>4. q.sort = "participants" =>
               v.counts[e] \in Nat /\ v.counts[e] <= totalParticipantCount(e)
        BY <3>2, <4>1, <4>3
      <4>5. (e # w.main /\ AfterCursor(q, w.stamp, w.cursor, e)) => e \in Candidates(w)
        BY <1>3, <3>1 DEF Candidates
      <4> QED
        BY <3>1, <3>3, <4>2, <4>4, <4>5
    <3> QED
      BY <3>4, <3>5
  <2>2. \A e \in Shown(w) : e \in Shown(v)
    <3>1. MainItem(v) = MainItem(w)
      BY <1>2 DEF MainItem
    <3>2. \A item \in AllItems(w) : item \in AllItems(v)
      BY <1>6, <3>1 DEF AllItems
    <3> QED
      BY <3>2 DEF Shown
  <2>3. ASSUME NEW n \in DOMAIN items
        PROVE  items[n] \in Shown(v)
    <3>1. here(items[n]) \in Items(v.pages[k])
      BY <1>4, <1>6
    <3>2. here(items[n]) \in AllItems(v)
      BY <1>6, <3>1 DEF AllItems
    <3>3. here(items[n])[1] = items[n]
      OBVIOUS
    <3> QED
      BY <3>2, <3>3 DEF Shown
  <2>4. ASSUME NEW e \in Candidates(w), e \notin Shown(v)
        PROVE  v.hasNext /\ AfterCursor(q, w.stamp, v.cursor, e)
    <3>1. \A n \in DOMAIN items : items[n] # e
      BY <2>3, <2>4
    <3>2. more /\ Before(q, w.stamp, last, e)
      <4>1. /\ ~more => \E n \in DOMAIN items : items[n] = e
            /\ more => \/ \E n \in DOMAIN items : items[n] = e
                       \/ Before(q, w.stamp, last, e)
        BY DEF PageOf, last
      <4> QED
        BY <3>1, <4>1
    <3>3. AfterCursor(q, w.stamp, Cursor(w, last), e)
      BY <1>3, <1>8, <3>2, AtTheCursor
    <3> QED
      BY <1>7, <3>2, <3>3
  <2>5. \A e \in v.owed :
           /\ e \in Opened
           /\ q.sort = "participants" =>
                 v.counts[e] \in Nat /\ v.counts[e] <= totalParticipantCount(e)
           /\ \/ e \in Shown(v)
              \/ v.hasNext /\ AfterCursor(q, w.stamp, v.cursor, e)
    BY <2>1, <2>2, <2>4
  <2> QED
    BY <1>2, <2>5 DEF OwedToCome
<1> QED
  BY <1>9, <1>10, <1>11, <1>12, <1>13, <1>14 DEF Reading, v

-----------------------------------------------------------------------------
(* The counts of the home page. *)

Participations == {i \in Ids : bets[i] # Null}

\* The sum of the events' counters counts every participation once.
LEMMA ParticipantsAddUp ==
    ASSUME BoardTypes
    PROVE  ParticipantCount = Cardinality(Participations)
<1> DEFINE P == Participations
           k == [i \in Ids |-> bets[i].event]
           one == [i \in P |-> 1]
           h == [e \in Opened |-> totalParticipantCount(e)]
<1>1. IsFiniteSet(P) /\ IsFiniteSet(Opened) /\ P \subseteq Ids
  <2>1. P \subseteq Ids /\ Opened \subseteq Events
    BY DEF Participations, Opened
  <2> QED
    BY <2>1, FS_Subset, ListsAssumption
<1>2. \A i \in P : k[i] \in Opened /\ one[i] \in Nat
  BY <1>1 DEF Participations, BoardTypes
<1>3. ASSUME NEW e \in Opened
      PROVE  h[e] = TokenSum(one, Group(P, k, e))
  <2> DEFINE g == Group(P, k, e)
             ones == [i \in g |-> 1]
  <2>1. g = IdsOn(bets, e) /\ g \subseteq P
    BY <1>1 DEF Group, IdsOn, Participations
  <2>2. IsFiniteSet(g) /\ Cardinality(g) \in Nat
    BY <1>1, <2>1, FS_Subset, FS_CardinalityType
  <2>3. \A i \in g : one[i] = ones[i]
    BY <2>1
  <2>4. TokenSum(one, g) = TokenSum(ones, g)
    <3> HIDE DEF one, ones, g
    <3> QED
      BY <2>3, SumSame
  <2>5. TokenSum(ones, g) = Cardinality(g) * 1
    <3> HIDE DEF g
    <3> QED
      BY <2>2, SumConst
  <2>6. h[e] = Cardinality(g)
    BY <2>1, TotalIs
  <2> HIDE DEF g, h, one
  <2>7. h[e] = TokenSum(one, g)
    BY <2>2, <2>4, <2>5, <2>6
  <2> QED
    BY <2>7 DEF g
<1>4. TokenSum(h, Opened) = TokenSum(one, P)
  <2>1. (\A i \in P : k[i] \in Opened) /\ (\A i \in P : one[i] \in Nat)
    BY <1>2
  <2> HIDE DEF k, one, h, P
  <2> QED
    BY <1>1, <1>3, <2>1, SumOfGroups
<1>5. TokenSum(one, P) = Cardinality(P)
  <2>1. TokenSum(one, P) = Cardinality(P) * 1
    <3> HIDE DEF P
    <3> QED
      BY <1>1, SumConst
  <2>2. Cardinality(P) \in Nat
    BY <1>1, FS_CardinalityType
  <2> QED
    BY <2>1, <2>2
<1> QED
  BY <1>4, <1>5 DEF ParticipantCount

\* The conditions of the home page are those of the lists, and of the opened
\* events each meets one.
LEMMA CountsAddUp ==
    ASSUME BoardTypes
    PROVE  /\ CompletedCount \in Nat /\ OngoingCount \in Nat
           /\ Cardinality(Opened) \in Nat
           /\ CompletedCount = Cardinality({e \in Opened : IsCompleted(e, now)})
           /\ OngoingCount = Cardinality({e \in Opened : IsOngoing(e, now)})
           /\ OngoingCount + CompletedCount = Cardinality(Opened)
<1> DEFINE C == {e \in Opened : IsCompleted(e, now)}
           G == {e \in Opened : IsOngoing(e, now)}
<1>1. CompletedCount = Cardinality(C) /\ OngoingCount = Cardinality(G)
  BY DEF CompletedCount, OngoingCount, IsCompleted, IsOngoing
<1>2. G \cup C = Opened /\ G \cap C = {}
  BY OngoingOrCompleted DEF BoardTypes
<1>3. IsFiniteSet(Opened) /\ IsFiniteSet(C) /\ IsFiniteSet(G)
  <2>1. Opened \subseteq Events
    BY DEF Opened
  <2>2. IsFiniteSet(Opened)
    BY <2>1, FS_Subset, ListsAssumption
  <2> QED
    BY <2>2, FS_Subset
<1>4. /\ Cardinality(Opened) \in Nat /\ Cardinality(C) \in Nat
      /\ Cardinality(G) \in Nat
  BY <1>3, FS_CardinalityType
<1> HIDE DEF G, C
<1>5. /\ Cardinality(G \cup C) = Cardinality(G) + Cardinality(C) - Cardinality(G \cap C)
      /\ Cardinality(G \cap C) = 0
  BY <1>2, <1>3, FS_Union, FS_EmptySet
<1> DEFINE g == Cardinality(G)
           c == Cardinality(C)
           m == Cardinality(G \cap C)
           n == Cardinality(Opened)
<1>6. g \in Nat /\ c \in Nat /\ n = g + c - m /\ m = 0
  BY <1>2, <1>4, <1>5
<1> HIDE DEF g, c, m, n
<1>7. g + c = n
  BY <1>6
<1>8. Cardinality(G) + Cardinality(C) = Cardinality(Opened)
  BY <1>7 DEF g, c, n
<1> QED
  BY <1>1, <1>4, <1>8 DEF C, G

\* None of the counts goes down but that of the ongoing events.
LEMMA CountsGrow ==
    ASSUME BoardTypes, BoardTypes', GoesOn
    PROVE  /\ CompletedCount <= CompletedCount' /\ CompletedCount' \in Nat
           /\ Cardinality(Participations) \in Nat
           /\ Cardinality(Participations)' \in Nat
           /\ Cardinality(Participations) <= Cardinality(Participations)'
           /\ Cardinality(Opened) <= Cardinality(Opened)'
           /\ Cardinality(Opened)' \in Nat
<1> DEFINE C == {e \in Opened : IsCompleted(e, now)}
           P == Participations
<1>1. CompletedCount = Cardinality(C) /\ CompletedCount' = Cardinality(C')
  <2>1. CompletedCount = Cardinality(C)
    BY DEF CompletedCount, IsCompleted
  <2>2. CompletedCount' = Cardinality(C')
    BY DEF CompletedCount, IsCompleted
  <2> QED
    BY <2>1, <2>2
<1>2. now \in Nat /\ now' \in Nat /\ now <= now'
  BY DEF BoardTypes, GoesOn
<1>3. ASSUME NEW e \in Opened
      PROVE  e \in Opened' /\ (IsCompleted(e, now) => IsCompleted(e, now)')
  BY <1>2, <1>3, EventGoesOn
<1>4. C \subseteq C' /\ Opened \subseteq Opened'
  BY <1>3
<1>5. P \subseteq P'
  BY DEF GoesOn, Participations
<1>6. IsFiniteSet(C') /\ IsFiniteSet(P') /\ IsFiniteSet(Opened')
  <2>1. Opened' \subseteq Events /\ C' \subseteq Events /\ P' \subseteq Ids
    BY DEF Opened, Participations
  <2> QED
    BY <2>1, FS_Subset, ListsAssumption
<1>7. IsFiniteSet(P)
  BY <1>5, <1>6, FS_Subset
<1>8. /\ Cardinality(C) <= Cardinality(C') /\ Cardinality(C') \in Nat
      /\ Cardinality(P) <= Cardinality(P') /\ Cardinality(P') \in Nat
      /\ Cardinality(P) \in Nat
      /\ Cardinality(Opened) <= Cardinality(Opened') /\ Cardinality(Opened') \in Nat
  <2> HIDE DEF C, P
  <2> QED
    BY <1>4, <1>5, <1>6, <1>7, FS_Subset, FS_CardinalityType
<1> HIDE DEF C
<1> QED
  BY <1>1, <1>8

LEMMA SummaryStays ==
    ASSUME BoardTypes, BoardTypes', GoesOn, NEW s, SummaryWithin(s)
    PROVE  SummaryWithin(s)'
<1>1. SUFFICES ASSUME s # Null PROVE SummaryWithin(s)'
  BY DEF SummaryWithin
<1>2. /\ CompletedCount <= CompletedCount' /\ CompletedCount' \in Nat
      /\ Cardinality(Participations) <= Cardinality(Participations)'
      /\ Cardinality(Participations) \in Nat /\ Cardinality(Participations)' \in Nat
      /\ Cardinality(Opened) <= Cardinality(Opened)' /\ Cardinality(Opened)' \in Nat
  BY CountsGrow
<1>3. CompletedCount \in Nat /\ Cardinality(Opened) \in Nat
  BY CountsAddUp
<1>4. /\ s.ongoingVoteEventCount \in Nat /\ s.completedVoteEventCount \in Nat
      /\ s.participantCount \in Nat
      /\ s.completedVoteEventCount <= CompletedCount
      /\ s.ongoingVoteEventCount + s.completedVoteEventCount <= Cardinality(Opened)
      /\ s.participantCount <= Cardinality(Participations)
  BY <1>1 DEF SummaryWithin, Participations
<1>5. /\ s.completedVoteEventCount <= CompletedCount'
      /\ s.ongoingVoteEventCount + s.completedVoteEventCount <= Cardinality(Opened)'
      /\ s.participantCount <= Cardinality(Participations)'
  BY <1>2, <1>3, <1>4
<1> QED
  BY <1>4, <1>5 DEF SummaryWithin, Participations

\* A home page shows the counts of the tables.
LEMMA GetHomeCounts ==
    ASSUME BoardTypes, GetHome
    PROVE  \E s : summary' = s /\ SummaryWithin(s)
<1> DEFINE s == [ongoingVoteEventCount |-> OngoingCount,
                 completedVoteEventCount |-> CompletedCount,
                 participantCount |-> ParticipantCount]
<1>1. summary' = s
  BY DEF GetHome
<1>2. /\ s.ongoingVoteEventCount = OngoingCount /\ s.completedVoteEventCount = CompletedCount
      /\ s.participantCount = Cardinality(Participations)
  BY ParticipantsAddUp
<1> HIDE DEF s
<1>3. /\ CompletedCount \in Nat /\ OngoingCount \in Nat
      /\ OngoingCount + CompletedCount = Cardinality(Opened)
      /\ Cardinality(Opened) \in Nat
  BY CountsAddUp
<1>4. Cardinality(Participations) \in Nat
  <2>1. Participations \subseteq Ids
    BY DEF Participations
  <2> QED
    BY <2>1, FS_Subset, FS_CardinalityType, ListsAssumption
<1>5. SummaryWithin(s)
  BY <1>2, <1>3, <1>4 DEF SummaryWithin, Participations
<1> QED
  BY <1>1, <1>5

-----------------------------------------------------------------------------

LEMMA ListsInvInit == Init => ListsInv
<1> SUFFICES ASSUME Init PROVE ListsInv
  OBVIOUS
<1>2. BoardTypes
  <2>1. /\ bets = [i \in Ids |-> Null] /\ result = [e \in Events |-> Null]
        /\ events = InitialRows /\ createdAt = InitialCreatedAt /\ now = 0
    BY DEF Init, BoardInit, Ledger!Init
  <2> QED
    BY <2>1, ListsAssumption DEF BoardTypes
<1>3. Reading(walk)
  BY <1>2, NoWalkReads DEF Init
<1>4. SummaryWithin(summary)
  BY DEF Init, SummaryWithin
<1> QED
  BY <1>2, <1>3, <1>4 DEF ListsInv

\* A step leaves the tables and the client as they are, is one of the tables,
\* or one of the client; what a client does leaves a reading.
LEMMA WalkSteps ==
    ASSUME ListsInv, [Next]_vars
    PROVE  /\ BoardTypes' /\ GoesOn
           /\ \E v : walk' = v /\ Reading(v)
<1>1. BoardTypes /\ Reading(walk)
  BY DEF ListsInv
<1>2. PICK w : w = walk
  OBVIOUS
<1>3. Reading(w)
  BY <1>1, <1>2
<1>4. CASE AskFirst
  <2>1. UNCHANGED <<board, createdAt>> /\ walk.at = "idle"
    BY <1>4 DEF AskFirst
  <2>2. PICK q \in Queries :
           walk' = [walk EXCEPT !.at = IF q.list = "ongoing" THEN "main" ELSE "page",
                                !.query = q, !.stamp = now]
    BY <1>4 DEF AskFirst
  <2>3. PICK at \in {"main", "page"} :
           walk' = [w EXCEPT !.at = at, !.query = q, !.stamp = now]
    BY <1>2, <2>2
  <2>4. Reading([w EXCEPT !.at = at, !.query = q, !.stamp = now])
    BY <1>1, <1>2, <1>3, <2>1, AskFirstReads
  <2> QED
    BY <1>1, <2>1, <2>3, <2>4, BoardStays
<1>5. CASE AskNext
  <2>1. UNCHANGED <<board, createdAt>> /\ walk.at = "answered" /\ walk.hasNext
    BY <1>5 DEF AskNext
  <2>2. PICK q \in Queries :
           /\ q.list = walk.query.list /\ q.user = walk.query.user
           /\ walk' = IF AcceptsCursor(walk.cursor, q)
                      THEN [walk EXCEPT !.at = "page", !.query = q, !.stamp = now]
                      ELSE [walk EXCEPT !.at = "invalid_cursor"]
    BY <1>5 DEF AskNext
  <2>3. CASE AcceptsCursor(walk.cursor, q)
    <3>1. walk' = [w EXCEPT !.at = "page", !.query = q, !.stamp = now]
      BY <1>2, <2>2, <2>3
    <3>2. Reading([w EXCEPT !.at = "page", !.query = q, !.stamp = now])
      BY <1>1, <1>2, <1>3, <2>1, <2>2, <2>3, AskNextReads
    <3> QED
      BY <1>1, <2>1, <3>1, <3>2, BoardStays
  <2>4. CASE ~AcceptsCursor(walk.cursor, q)
    <3>1. walk' = [w EXCEPT !.at = "invalid_cursor"]
      BY <1>2, <2>2, <2>4
    <3>2. Reading([w EXCEPT !.at = "invalid_cursor"])
      BY <1>2, <1>3, <2>1, RefusedReads
    <3> QED
      BY <1>1, <2>1, <3>1, <3>2, BoardStays
  <2> QED
    BY <2>3, <2>4
<1>6. CASE FindMain
  <2>1. UNCHANGED <<board, createdAt>> /\ walk.at = "main"
    BY <1>6 DEF FindMain
  <2> DEFINE rows == Listed(w.query, w.stamp)
  <2> DEFINE lead == IF rows = {} THEN Null
                     ELSE CHOOSE e \in rows : \A f \in rows \ {e} : LeadsMain(e, f)
  <2>0. walk' = [w EXCEPT !.at = "page", !.main = lead]
    BY <1>2, <1>6 DEF FindMain
  <2> HIDE DEF lead
  <2>2. PICK m : m = lead /\ walk' = [w EXCEPT !.at = "page", !.main = m]
    BY <2>0
  <2>3. m \in Events \cup {Null}
    <3>1. rows \in SUBSET Opened
      BY DEF Listed
    <3> HIDE DEF rows
    <3>2. rows # {} => m \in rows
      BY <1>1, <2>2, <3>1, MainIsFirst DEF lead
    <3> QED
      BY <2>2, <3>1, <3>2 DEF Opened, lead
  <2>4. Reading([w EXCEPT !.at = "page", !.main = m])
    BY <1>1, <1>2, <1>3, <2>1, <2>3, FindMainReads
  <2> QED
    BY <1>1, <2>1, <2>2, <2>4, BoardStays
<1>7. CASE FindPage
  <2>1. UNCHANGED <<board, createdAt>> /\ walk.at = "page"
    BY <1>7 DEF FindPage
  <2>2. walk.query \in Query
    BY <1>1, <2>1 DEF Reading, WalkTypes
  <2>3. PICK items, more : PageOf(walk, items, more) /\ walk' = Answered(walk, items, more)
    BY <1>1, <1>7, <2>2, FindPageStep
  <2>4. more \in BOOLEAN
    BY <2>3 DEF PageOf
  <2>5. Reading(Answered(w, items, more))
    BY <1>1, <1>2, <1>3, <2>1, <2>3, <2>4, FindPageReads
  <2> QED
    BY <1>1, <1>2, <2>1, <2>3, <2>5, BoardStays
<1>8. CASE GetHome
  <2>1. UNCHANGED <<board, createdAt>> /\ walk' = walk
    BY <1>8 DEF GetHome
  <2> QED
    BY <1>1, <1>2, <1>3, <2>1, BoardStays
<1>9. CASE Traffic(Rows, Votes) /\ Dated /\ UNCHANGED <<walk, summary>>
  BY <1>1, <1>2, <1>3, <1>9, TrafficStep
<1>10. CASE UNCHANGED vars
  <2>1. UNCHANGED <<board, createdAt>> /\ walk' = walk
    BY <1>10 DEF vars, board
  <2> QED
    BY <1>1, <1>2, <1>3, <2>1, BoardStays
<1> QED
  BY <1>4, <1>5, <1>6, <1>7, <1>8, <1>9, <1>10 DEF Next

\* A step keeps the summary or reads it from the tables, which it leaves as they are.
LEMMA SummarySteps ==
    ASSUME ListsInv, [Next]_vars
    PROVE  \/ summary' = summary
           \/ GetHome /\ UNCHANGED <<board, createdAt>>
BY DEF Next, vars, AskFirst, AskNext, FindMain, FindPage, GetHome

LEMMA ListsInvStep == ListsInv /\ [Next]_vars => ListsInv'
<1> SUFFICES ASSUME ListsInv, [Next]_vars
             PROVE  ListsInv'
  OBVIOUS
<1>1. BoardTypes /\ SummaryWithin(summary)
  BY DEF ListsInv
<1>2. BoardTypes' /\ GoesOn
  BY WalkSteps
<1>3. Reading(walk)'
  <2>1. PICK v : walk' = v /\ Reading(v)
    BY WalkSteps
  <2>2. Reading(v)'
    BY <1>1, <1>2, <2>1, ReadingStays
  <2> QED
    BY <2>1, <2>2
<1>4. SummaryWithin(summary)'
  <2>1. PICK s : summary' = s /\ SummaryWithin(s)
    <3>1. CASE summary' = summary
      BY <1>1, <3>1
    <3>2. CASE GetHome
      BY <1>1, <3>2, GetHomeCounts
    <3> QED
      BY <3>1, <3>2, SummarySteps
  <2>2. SummaryWithin(s)'
    BY <1>1, <1>2, <2>1, SummaryStays
  <2> QED
    BY <2>1, <2>2
<1> QED
  BY <1>2, <1>3, <1>4 DEF ListsInv

\* The invariant of the reads: types, the phases of a reading, what is shown lies at
\* the cursor or before it, what is owed behind it, and the home page's counts.
THEOREM ListsInvHolds == Spec => []ListsInv
BY ListsInvInit, ListsInvStep, PTL DEF Spec

\* Whatever is opened, voted, confirmed or completed between the pages, none shows
\* an event in a place the main vote or a page before has shown it in.
THEOREM ListsShownOnce == Spec => []ShownOnce
<1>1. ListsInv => ShownOnce
  BY DEF ListsInv, Reading, ShownOnce
<1> QED
  BY <1>1, ListsInvHolds, PTL

\* Who reads a list to its end has seen all it owed: what was in it at the first
\* page, stayed in it and, by participants, got no vote meanwhile.
THEOREM ListsListComplete == Spec => []ListComplete
<1>1. ListsInv => ListComplete
  <2> SUFFICES ASSUME ListsInv, walk.at = "answered", ~walk.hasNext,
                      NEW e \in walk.owed
               PROVE  e \in {item[1] : item \in AllItems(walk)}
    BY DEF ListComplete
  <2>1. e \in Shown(walk)
    BY DEF ListsInv, Reading, OwedToCome
  <2> QED
    BY <2>1 DEF Shown
<1> QED
  BY <1>1, ListsInvHolds, PTL

\* A home page counts every event once, as ongoing or as completed like the list
\* that shows it, and every participation once; no event, completed event or
\* participation that the home page before it counted is missing.
THEOREM ListsSummaryAccounts == Spec => SummaryAccounts
<1>1. ListsInv /\ [Next]_vars => [summary' # summary => HomeAccounts]_vars
  <2> SUFFICES ASSUME ListsInv, [Next]_vars, summary' # summary PROVE HomeAccounts
    OBVIOUS
  <2>1. BoardTypes /\ SummaryWithin(summary)
    BY DEF ListsInv
  <2>2. GetHome
    BY SummarySteps
  <2>3. /\ summary'.ongoingVoteEventCount = OngoingCount
        /\ summary'.completedVoteEventCount = CompletedCount
        /\ summary'.participantCount = ParticipantCount
    BY <2>2 DEF GetHome
  <2>4. /\ OngoingCount = Cardinality({e \in Opened : IsOngoing(e, now)})
        /\ CompletedCount = Cardinality({e \in Opened : IsCompleted(e, now)})
        /\ OngoingCount + CompletedCount = Cardinality(Opened)
    BY <2>1, CountsAddUp
  <2>5. ListNow("ongoing") = {e \in Opened : IsOngoing(e, now)}
    BY DEF ListNow, Listed
  <2>6. ListNow("completed") = {e \in Opened : IsCompleted(e, now)}
    BY DEF ListNow, Listed
  <2>7. ParticipantCount = Cardinality({i \in Ids : bets[i] # Null})
    BY <2>1, ParticipantsAddUp DEF Participations
  <2>8. summary # Null =>
           /\ summary.completedVoteEventCount <= CompletedCount
           /\ summary.ongoingVoteEventCount + summary.completedVoteEventCount
                <= OngoingCount + CompletedCount
           /\ summary.participantCount <= ParticipantCount
    BY <2>1, <2>4, <2>7 DEF SummaryWithin
  <2> QED
    BY <2>3, <2>4, <2>5, <2>6, <2>7, <2>8 DEF HomeAccounts
<1> QED
  BY <1>1, ListsInvHolds, PTL DEF Spec, SummaryAccounts

LEMMA TrafficOnBoard ==
    ASSUME BoardTypes, Traffic(Rows, Votes)
    PROVE  BoardNext
<1>1. ASSUME NEW e \in Events, NEW row \in Rows, Open(e, row)
      PROVE  BoardNext
  <2>1. events'[e] = row
    BY <1>1 DEF Open, BoardTypes
  <2> QED
    BY <1>1, <2>1 DEF BoardNext
<1>2. ASSUME NEW i \in Ids, NEW b \in Votes, Cast(i, b)
      PROVE  BoardNext
  <2>1. bets'[i] = b
    BY <1>2 DEF Cast, Ledger!Place, BoardTypes
  <2> QED
    BY <1>2, <2>1 DEF BoardNext
<1> QED
  BY <1>1, <1>2 DEF Traffic, BoardNext

\* The lists and the home page are read from steps of EventBoard, none of them
\* the reader's.
THEOREM ListsReadBoard == Spec => BoardSpec
<1>1. Init => BoardInit
  BY DEF Init
<1>2. ListsInv /\ [Next]_vars => [BoardNext]_board
  <2> SUFFICES ASSUME ListsInv, [Next]_vars
               PROVE  BoardNext \/ UNCHANGED board
    OBVIOUS
  <2>1. BoardTypes
    BY DEF ListsInv
  <2>2. CASE Traffic(Rows, Votes)
    BY <2>1, <2>2, TrafficOnBoard
  <2>3. CASE AskFirst \/ AskNext \/ FindMain \/ FindPage \/ GetHome
    BY <2>3 DEF AskFirst, AskNext, FindMain, FindPage, GetHome
  <2>4. CASE UNCHANGED vars
    BY <2>4 DEF vars, board
  <2> QED
    BY <2>2, <2>3, <2>4 DEF Next
<1> QED
  BY <1>1, <1>2, ListsInvHolds, PTL DEF Spec, BoardSpec

=============================================================================
