-------------------------- MODULE MCVoteEventDetail --------------------------
(* A scenario of VoteEventDetail for TLC. *)
EXTENDS VoteEventDetail

CONSTANTS alice, bob, carol, e1, e2, office, shop

MCUsers == {alice, bob, carol}
MCAffiliationOf == [u \in MCUsers |-> IF u = carol THEN shop ELSE office]

\* A betting event of alice's and a daily one that bob may open.
MCInitialRows ==
    [e \in {e1, e2} |-> IF e = e1
        THEN [category |-> "betting", organizerUserId |-> alice, deadlineAt |-> 1]
        ELSE Null]
MCRows == {[category |-> "daily", organizerUserId |-> bob, deadlineAt |-> 1]}

Bet(u, e, o, n, t) == [user |-> u, event |-> e, selectedOption |-> o,
                       tokenAmount |-> n, createdAt |-> t]

\* Alice and bob stake one token each on A, carol one or 31 on B; alice and
\* carol also vote on the daily event.
MCVotes ==
    UNION {{Bet(alice, e1, "A", 1, t), Bet(bob, e1, "A", 1, t),
            Bet(carol, e1, "B", 1, t), Bet(carol, e1, "B", 31, t),
            Bet(alice, e2, "A", 0, t), Bet(carol, e2, "B", 0, t)} : t \in 0 .. 1}

=============================================================================
