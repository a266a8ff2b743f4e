-------------------------- MODULE MCVoteEventLists --------------------------
(* A scenario of VoteEventLists for TLC. *)
EXTENDS VoteEventLists

CONSTANTS alice, bob

MCUsers == {alice, bob}

EventRow(category, deadlineAt) ==
    [category |-> category, organizerUserId |-> alice, deadlineAt |-> deadlineAt]

\* Alice's events: a betting event, whose result may be confirmed before its
\* deadline, and a daily one of the same date; she may open a third.
MCInitialRows == <<EventRow("betting", 2), EventRow("daily", 1), Null>>
MCRows == {EventRow("daily", 2)}
MCCreatedAt == <<0, 0, 0>>

Bet(u, e, n, t) == [user |-> u, event |-> e, selectedOption |-> "A",
                    tokenAmount |-> n, createdAt |-> t]

\* Two votes, on one of them or on two, so that the counts change and differ.
MCVotes == {Bet(bob, 1, 1, 0), Bet(bob, 2, 0, 0), Bet(bob, 3, 0, 0),
            Bet(alice, 2, 0, 0)}

Lists(list, user, categories) ==
    {[list |-> list, sort |-> s, category |-> k, user |-> user] :
        s \in {"latest", "deadline", "participants"}, k \in categories}

MCQueries ==
    UNION {Lists("ongoing", Null, {Null, "daily"}), Lists("completed", Null, {Null}),
           Lists("created", alice, {Null}), Lists("participated", bob, {Null})}

=============================================================================
