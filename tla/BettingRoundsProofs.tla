------------------------- MODULE BettingRoundsProofs -------------------------
(***************************************************************************)
(* What calculateBettingPayouts promises holds of every round of bets, for *)
(* any number of participations, any stakes and any dates.                 *)
(***************************************************************************)
EXTENDS BettingRounds, BettingPayoutProofs

\* Every sequence of bets is a round that the lemmas on the rule speak of.
LEMMA RoundInit == Init => Round(bets)
BY FS_EmptySet DEF Init, Round

LEMMA RoundStep == Round(bets) /\ [Place]_bets => Round(bets)'
<1> SUFFICES ASSUME Round(bets), Place PROVE Round(bets)'
  BY DEF Round
<1>1. PICK i \in Ids \ DOMAIN bets, b \in Bet :
        bets' = [j \in DOMAIN bets \cup {i} |-> IF j = i THEN b ELSE bets[j]]
  BY DEF Place
<1>2. DOMAIN bets' = DOMAIN bets \cup {i}
  BY <1>1
<1>3. IsFiniteSet(DOMAIN bets')
  BY <1>2, FS_AddElement DEF Round
<1>4. DOMAIN bets' \subseteq Nat
  BY <1>2, RoundsAssumption DEF Round
<1>5. b.tokenAmount \in Nat \ {0} /\ b.createdAt \in Nat
  BY RoundsAssumption DEF Bet
<1> QED
  BY <1>1, <1>2, <1>3, <1>4, <1>5 DEF Round

\* Whatever is placed, the bets are a round: finitely many, each with a positive
\* stake and a date.
THEOREM Rounds == Spec => []Round(bets)
BY RoundInit, RoundStep, PTL DEF Spec

\* However the shares are rounded, the payouts of an event with a winner add up
\* to all that was staked on it: calculateBettingPayouts neither creates nor
\* loses a token, for any number of bets and any stakes.
THEOREM PoolIsExhausted == Spec => []PayoutsExhaustPool
<1>1. Round(bets) => PayoutsExhaustPool
  BY PayoutsAddUp DEF PayoutsExhaustPool, Payouts
<1> QED
  BY <1>1, Rounds, PTL

\* Every winner gets the stake and the exact share of the losing pool, rounded
\* down or up: who gets a token left over had a remainder.
THEOREM PayoutsKeepQuota == Spec => []PayoutsWithinQuota
<1>1. Round(bets) => PayoutsWithinQuota
  BY PayoutWithinQuota DEF PayoutsWithinQuota, Payouts
<1> QED
  BY <1>1, Rounds, PTL

\* Who staked no less and bet earlier is paid no less.
THEOREM LargerAndEarlierIsPaidNoLess == Spec => []LargerAndEarlierPaysNoLess
<1>1. Round(bets) => LargerAndEarlierPaysNoLess
  BY NoLessForMoreAndEarlier DEF LargerAndEarlierPaysNoLess, Payouts
<1> QED
  BY <1>1, Rounds, PTL

\* comparePayoutDrafts tells any two winners apart.
LEMMA DraftsDiffer ==
    ASSUME Round(bets), NEW o, NEW i \in Winners(bets, o), NEW j \in Winners(bets, o),
           i # j
    PROVE  comparePayoutDrafts(bets, o, i, j) \/ comparePayoutDrafts(bets, o, j, i)
<1>1. /\ i \in Nat /\ bets[i].createdAt \in Nat /\ Remainder(bets, o, i) \in Nat
      /\ j \in Nat /\ bets[j].createdAt \in Nat /\ Remainder(bets, o, j) \in Nat
  <2>1. i \in DOMAIN bets /\ j \in DOMAIN bets
    BY DEF Winners
  <2>2. Winners(bets, o) # {}
    OBVIOUS
  <2> QED
    BY <2>1, <2>2, Shares DEF Round
<1> QED
  BY <1>1 DEF comparePayoutDrafts

\* Only one order is sorted: everyone's place is that of the rank.
LEMMA PlaceIsRank ==
    ASSUME Round(bets), NEW o \in Options, NEW place \in Sortings(o),
           NEW i \in Winners(bets, o)
    PROVE  place[i] = Rank(bets, o, i) + 1 /\ Rank(bets, o, i) \in Nat
<1> DEFINE W == Winners(bets, o)
           n == Cardinality(W)
           rank == [j \in W |-> Rank(bets, o, j)]
           before == [j \in W |-> place[j] - 1]
<1>1. IsFiniteSet(W) /\ n \in Nat /\ W # {}
  <2>1. W \subseteq DOMAIN bets /\ W # {}
    BY DEF Winners
  <2> QED
    BY <2>1, FS_Subset, FS_CardinalityType DEF Round
<1>2. /\ \A j \in W : place[j] \in 1 .. n
      /\ \A j, k \in W : /\ j # k => place[j] # place[k]
                         /\ comparePayoutDrafts(bets, o, j, k) => place[j] < place[k]
  BY DEF Sortings
<1>3. /\ \A j \in W : rank[j] \in 0 .. (n - 1) /\ rank[j] \in Nat
      /\ \A j, k \in W : /\ comparePayoutDrafts(bets, o, j, k) => rank[j] < rank[k]
                         /\ j # k => rank[j] # rank[k]
  BY <1>1, Ranks
<1>4. \A j, k \in W : j # k => \/ comparePayoutDrafts(bets, o, j, k)
                               \/ comparePayoutDrafts(bets, o, k, j)
  BY DraftsDiffer
<1> HIDE DEF n, rank
<1>5. /\ \A j \in W : before[j] \in 0 .. (n - 1) /\ before[j] = place[j] - 1
      /\ \A j, k \in W : j # k => before[j] # before[k]
  <2>1. \A j \in W : before[j] \in 0 .. (n - 1) /\ before[j] = place[j] - 1
    BY <1>1, <1>2
  <2>2. ASSUME NEW j \in W, NEW k \in W, j # k
        PROVE  before[j] # before[k]
    <3>1. place[j] \in Nat /\ place[k] \in Nat /\ place[j] # place[k]
      BY <1>1, <1>2, <2>2
    <3> QED
      BY <2>1, <3>1
  <2> QED
    BY <2>1, <2>2
<1>6. \A j \in W : before[j] < before[i] <=> rank[j] < rank[i]
  <2> TAKE j \in W
  <2>1. /\ place[j] \in Nat /\ place[i] \in Nat
        /\ before[j] = place[j] - 1 /\ before[i] = place[i] - 1
        /\ rank[j] \in Nat /\ rank[i] \in Nat
    BY <1>1, <1>2, <1>3, <1>5
  <2>2. CASE j = i
    BY <2>1, <2>2
  <2>3. CASE comparePayoutDrafts(bets, o, j, i)
    <3>1. place[j] < place[i] /\ rank[j] < rank[i]
      BY <1>2, <1>3, <2>3
    <3> QED
      BY <2>1, <3>1
  <2>4. CASE comparePayoutDrafts(bets, o, i, j)
    <3>1. place[i] < place[j] /\ rank[i] < rank[j]
      BY <1>2, <1>3, <2>4
    <3> QED
      BY <2>1, <3>1
  <2> QED
    BY <1>4, <2>2, <2>3, <2>4
<1> HIDE DEF W, before
<1>7. i \in W
  BY DEF W
<1>8. Cardinality({j \in W : rank[j] < rank[i]}) = rank[i]
  <2>1. rank[i] \in 0 .. Cardinality(W)
    BY <1>1, <1>3, <1>7 DEF n
  <2>2. \A j \in W : rank[j] \in 0 .. (Cardinality(W) - 1)
    BY <1>3 DEF n
  <2> QED
    BY <1>1, <1>3, <2>1, <2>2, RanksBelow
<1>9. Cardinality({j \in W : before[j] < before[i]}) = before[i]
  <2>1. before[i] \in 0 .. Cardinality(W)
    BY <1>1, <1>5, <1>7 DEF n
  <2>2. \A j \in W : before[j] \in 0 .. (Cardinality(W) - 1)
    BY <1>5 DEF n
  <2> QED
    BY <1>1, <1>5, <2>1, <2>2, RanksBelow
<1>10. before[i] = rank[i]
  <2>1. {j \in W : before[j] < before[i]} = {j \in W : rank[j] < rank[i]}
    BY <1>6
  <2> QED
    BY <1>8, <1>9, <2>1
<1>11. place[i] = rank[i] + 1 /\ rank[i] \in Nat
  BY <1>1, <1>2, <1>3, <1>5, <1>7, <1>10
<1> QED
  BY <1>7, <1>11 DEF rank

\* The payouts do not depend on the order the database returned the rows in: only
\* one order of the drafts is sorted.
THEOREM RowOrderIsIrrelevant == Spec => []RowOrderIrrelevant
<1>1. Round(bets) => RowOrderIrrelevant
  <2> SUFFICES ASSUME Round(bets), NEW o \in Options, NEW place \in Sortings(o),
                      NEW i \in Winners(bets, o)
               PROVE  Payouts(o)[i] = bets[i].tokenAmount + Profit(bets, o, i)
                        + (IF place[i] <= Remaining(bets, o) THEN 1 ELSE 0)
    BY DEF RowOrderIrrelevant
  <2>1. place[i] = Rank(bets, o, i) + 1 /\ Rank(bets, o, i) \in Nat
    BY PlaceIsRank
  <2>2. Remaining(bets, o) \in Nat
    <3>1. Winners(bets, o) # {}
      OBVIOUS
    <3> QED
      BY <3>1, Leftover
  <2>3. place[i] <= Remaining(bets, o) <=> Rank(bets, o, i) < Remaining(bets, o)
    BY <2>1, <2>2
  <2> QED
    BY <2>3 DEF Payouts, calculateBettingPayouts
<1> QED
  BY <1>1, Rounds, PTL

\* Stakes, dates and ids decide who gets the leftover tokens, for any number of bets:
\* a claim computes what every other claim of the event does.
THEOREM LeftoversFollowTheBets == Spec => []LeftoversFollowBets
BY LargerAndEarlierIsPaidNoLess, RowOrderIsIrrelevant, PTL DEF LeftoversFollowBets

=============================================================================
