---------------------------- MODULE BettingPayout ----------------------------
(***************************************************************************)
(* calculateBettingPayouts (vote-events.betting.ts): the losing pool of a  *)
(* betting event is divided among the winners in proportion to what they   *)
(* staked, each share rounded down; the tokens left over by the rounding   *)
(* go, one each, to the winners with the largest remainders.               *)
(*                                                                         *)
(* The participations of one event are a function bets from participation  *)
(* ids, which are numbers here so that they are ordered as localeCompare   *)
(* orders the uuids, to records with the fields selectedOption,            *)
(* tokenAmount and createdAt.                                              *)
(*                                                                         *)
(* A definition named D_How is a slip of D that a check has to notice; the *)
(* rule does not use it.                                                   *)
(***************************************************************************)
EXTENDS TokenSum

Winners(bets, winningOption) ==
    {i \in DOMAIN bets : bets[i].selectedOption = winningOption}

Losers(bets, winningOption) == DOMAIN bets \ Winners(bets, winningOption)

sumTokenAmounts(bets, ids) ==
    TokenSum([i \in ids |-> bets[i].tokenAmount], ids)

WinningPool(bets, winningOption) ==
    sumTokenAmounts(bets, Winners(bets, winningOption))

LosingPool(bets, winningOption) ==
    sumTokenAmounts(bets, Losers(bets, winningOption))

Numerator(bets, winningOption, i) ==
    LosingPool(bets, winningOption) * bets[i].tokenAmount

\* The winner's share of the losing pool, rounded down, and what is lost by it.
Profit(bets, winningOption, i) ==
    Numerator(bets, winningOption, i) \div WinningPool(bets, winningOption)

Remainder(bets, winningOption, i) ==
    Numerator(bets, winningOption, i) % WinningPool(bets, winningOption)

Remaining_Dropped(bets, winningOption) == 0

\* Tokens of the losing pool that the rounded shares leave unallocated.
Remaining(bets, winningOption) ==
    LET winners == Winners(bets, winningOption)
    IN  LosingPool(bets, winningOption)
          - TokenSum([i \in winners |-> Profit(bets, winningOption, i)], winners)

comparePayoutDrafts_NoId(bets, winningOption, i, j) ==
    LET left  == Remainder(bets, winningOption, i)
        right == Remainder(bets, winningOption, j)
    IN  \/ left > right
        \/ left = right /\ bets[i].createdAt < bets[j].createdAt

comparePayoutDrafts_NewestFirst(bets, winningOption, i, j) ==
    LET left  == Remainder(bets, winningOption, i)
        right == Remainder(bets, winningOption, j)
    IN  \/ left > right
        \/ left = right /\ bets[i].createdAt > bets[j].createdAt
        \/ left = right /\ bets[i].createdAt = bets[j].createdAt /\ i < j

\* The sort order of the drafts: larger remainder, then older, then smaller id.
comparePayoutDrafts(bets, winningOption, i, j) ==
    LET left  == Remainder(bets, winningOption, i)
        right == Remainder(bets, winningOption, j)
    IN  \/ left > right
        \/ left = right /\ bets[i].createdAt < bets[j].createdAt
        \/ left = right /\ bets[i].createdAt = bets[j].createdAt /\ i < j

Rank_Unbounded(bets, winningOption, i) == 0

\* How many drafts are sorted before that of i.
Rank(bets, winningOption, i) ==
    Cardinality({j \in Winners(bets, winningOption) :
                    comparePayoutDrafts(bets, winningOption, j, i)})

\* What each winner is paid, the stake included; the losers are not in it.
calculateBettingPayouts(bets, winningOption) ==
    [i \in Winners(bets, winningOption) |->
        bets[i].tokenAmount
          + Profit(bets, winningOption, i)
          + (IF Rank(bets, winningOption, i) < Remaining(bets, winningOption)
             THEN 1 ELSE 0)]

=============================================================================
