----------------------------- MODULE EventBoard -----------------------------
(***************************************************************************)
(* What the committed tables show to whoever reads them: events that are   *)
(* opened, the bets of TokenLedger with the deadlines they were made       *)
(* before, results that complete an event early, and the clock.  VoteEvents*)
(* implements it, so the modules of the reads (VoteEventDetail and         *)
(* VoteEventLists) are built on it instead of on the transactions.         *)
(***************************************************************************)
EXTENDS BettingPayout

CONSTANTS Users, Events, Ids, Null, InitialVoteToken,
    InitialRows, \* the events there are at first
    MaxTime      \* bound: the clock stops there

VARIABLES wallet, bets, result, paid,  \* as in TokenLedger
          events,                      \* row of each event, Null while there is none
          now                          \* the clock

Ledger == INSTANCE TokenLedger

board == <<wallet, bets, result, paid, events, now>>

Row == [category : {"daily", "balance", "work", "betting"},
        organizerUserId : Users, deadlineAt : Nat]

Vote == [user : Users, event : Events, selectedOption : {"A", "B"},
         tokenAmount : Nat, createdAt : Nat]

Opened == {e \in Events : events[e] # Null}

\* completedCondition: the deadline has passed or the result is confirmed.
IsCompleted(e, date) == events[e].deadlineAt <= date \/ result[e] # Null

BoardInit ==
    /\ Ledger!Init
    /\ events = InitialRows
    /\ now = 0

\* The deadline is compared with a date taken before the commit, here and below.
Open(e, row) ==
    /\ events[e] = Null /\ row # Null
    /\ row.deadlineAt > 0
    /\ events' = [events EXCEPT ![e] = row]
    /\ UNCHANGED <<wallet, bets, result, paid, now>>

\* A participation, made before the deadline and recorded maybe after it; only
\* one in a betting event has a stake.
Cast(i, b) ==
    /\ b # Null /\ b.event \in Opened
    /\ b.createdAt <= now /\ b.createdAt < events[b.event].deadlineAt
    /\ (b.tokenAmount > 0) <=> (events[b.event].category = "betting")
    /\ Ledger!Place(i, b)
    /\ UNCHANGED <<events, now>>

Confirm(e, option) ==
    /\ e \in Opened
    /\ events[e].category = "betting"
    /\ Ledger!Settle(e, option)
    /\ UNCHANGED <<events, now>>

Claim(i) ==
    /\ Ledger!Pay(i)
    /\ UNCHANGED <<events, now>>

Tick ==
    /\ now < MaxTime
    /\ now' = now + 1
    /\ UNCHANGED <<wallet, bets, result, paid, events>>

BoardNext ==
    \/ \E e \in Events : Open(e, events'[e])
    \/ \E i \in Ids : Cast(i, bets'[i]) \/ Claim(i)
    \/ \E e \in Events, option \in {"A", "B"} : Confirm(e, option)
    \/ Tick

BoardSpec == BoardInit /\ [][BoardNext]_board

\* A step in which what is opened and cast is one of the given rows and bets.
Traffic(rows, participations) ==
    \/ \E e \in Events : \E row \in rows : Open(e, row)
    \/ \E i \in Ids : \E b \in participations : Cast(i, b)
    \/ \E i \in Ids : Claim(i)
    \/ \E e \in Events, option \in {"A", "B"} : Confirm(e, option)
    \/ Tick

-----------------------------------------------------------------------------
(* The counters of an event's row, which agree with its bets (CountersMatch  *)
(* of VoteEvents).                                                           *)

BetsOn(e) == Ledger!BetsOn(e)

participantCount(e, option) == Cardinality(Winners(BetsOn(e), option))

tokenAmount(e, option) == sumTokenAmounts(BetsOn(e), Winners(BetsOn(e), option))

totalParticipantCount(e) == Cardinality(DOMAIN BetsOn(e))

\* The bets of user u in event e: none or one.
OwnBets(e, u) == {i \in DOMAIN BetsOn(e) : bets[i].user = u}

=============================================================================
