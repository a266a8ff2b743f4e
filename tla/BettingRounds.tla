---------------------------- MODULE BettingRounds ----------------------------
(***************************************************************************)
(* Every sequence of bets on one betting event, one bet placed per step,   *)
(* and what calculateBettingPayouts pays for it: the bounded inputs over   *)
(* which the payout rule is checked.                                       *)
(***************************************************************************)
EXTENDS BettingPayout

CONSTANTS Ids,      \* participation ids, numbers ordered as the uuids are
          MaxStake, \* largest stake tried
          MaxTime   \* largest createdAt tried

ASSUME RoundsAssumption ==
    /\ Ids \subseteq Nat
    /\ MaxStake \in Nat \ {0}
    /\ MaxTime \in Nat

Options == {"A", "B"}

VARIABLE bets

Bet == [selectedOption : Options, tokenAmount : 1 .. MaxStake,
        createdAt : 0 .. MaxTime]

Init == bets = [i \in {} |-> 0]

\* A participation is added.  Its id is random, so it may sort anywhere; its
\* createdAt is no earlier than that of the bets placed before.
Place ==
    \E i \in Ids \ DOMAIN bets, b \in Bet :
        /\ \A j \in DOMAIN bets : bets[j].createdAt <= b.createdAt
        /\ bets' = [j \in DOMAIN bets \cup {i} |-> IF j = i THEN b ELSE bets[j]]

Spec == Init /\ [][Place]_bets

-----------------------------------------------------------------------------

Payouts(o) == calculateBettingPayouts(bets, o)

\* When somebody wins, the payouts add up to the whole pool: no token is
\* created or lost by the rounding ("the total of the points has to match").
PayoutsExhaustPool ==
    \A o \in Options :
        Winners(bets, o) # {} =>
            TokenSum(Payouts(o), Winners(bets, o))
              = sumTokenAmounts(bets, DOMAIN bets)

\* Every winner is paid the stake back and the exact proportional share of the
\* losing pool, rounded down or up to a whole token.
PayoutsWithinQuota ==
    \A o \in Options : \A i \in Winners(bets, o) :
        LET profit == Payouts(o)[i] - bets[i].tokenAmount
            pool   == WinningPool(bets, o)
        IN  /\ profit * pool <= Numerator(bets, o, i) + pool - 1
            /\ profit * pool >= Numerator(bets, o, i) - pool + 1

\* A winner who staked no less than another and bet earlier is paid no less.
LargerAndEarlierPaysNoLess ==
    \A o \in Options : \A i, j \in Winners(bets, o) :
        (/\ bets[i].tokenAmount >= bets[j].tokenAmount
         /\ bets[i].createdAt < bets[j].createdAt)
            => Payouts(o)[i] >= Payouts(o)[j]

\* The places of the drafts after a sort by comparePayoutDrafts: each its own, and
\* any that the comparison allows, for a sort leaves what compares as equal in the
\* order the rows were read in.
Sortings(o) ==
    LET winners == Winners(bets, o)
    IN  {place \in [winners -> 1 .. Cardinality(winners)] :
            \A i, j \in winners :
                /\ i # j => place[i] # place[j]
                /\ comparePayoutDrafts(bets, o, i, j) => place[i] < place[j]}

\* In whatever order the database returned the participations, the tokens left over
\* go to those that are paid one by calculateBettingPayouts: what a claim answered
\* once is what every later one computes.
RowOrderIrrelevant ==
    \A o \in Options : \A place \in Sortings(o) : \A i \in Winners(bets, o) :
        Payouts(o)[i] = bets[i].tokenAmount + Profit(bets, o, i)
                          + (IF place[i] <= Remaining(bets, o) THEN 1 ELSE 0)

\* Who gets a token left over by the rounding depends on the bets alone: on their
\* stakes and dates, with nobody behind one who staked no more and bet later, and not
\* on the order a query happened to return them in.
LeftoversFollowBets == LargerAndEarlierPaysNoLess /\ RowOrderIrrelevant

=============================================================================
