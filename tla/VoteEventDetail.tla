--------------------------- MODULE VoteEventDetail ---------------------------
(***************************************************************************)
(* GET vote-events/:id (VoteEventsService.getDetail): one statement reads  *)
(* the event with its counters and the caller's own participation, a later *)
(* one the participations of everybody, outside a transaction, and the     *)
(* answer combines the two.  Between them the event goes on (EventBoard).  *)
(* One request is enough: requests that only read do not meet.             *)
(***************************************************************************)
EXTENDS EventBoard

CONSTANTS
    Rows, Votes,   \* the events that may be opened, the bets that may be made
    AffiliationOf  \* each user's affiliation, which nothing changes

Options == {"A", "B"}

ASSUME DetailAssumption ==
    /\ IsFiniteSet(Ids) /\ InitialVoteToken \in Nat
    /\ InitialRows \in [Events -> Row \cup {Null}]
    /\ Rows \subseteq Row /\ Votes \subseteq Vote

ASSUME DetailNullAssumption == Null \notin Options /\ Null \notin BOOLEAN

VARIABLE view  \* the request: where it is, its parameters and what it has read

vars == <<wallet, bets, result, paid, events, now, view>>

NoView == [at |-> "idle", user |-> Null, event |-> Null, date |-> 0,
           row |-> Null, choices |-> <<>>]

\* getDetail takes its date.  A caller without a token has no user.
GetDetail ==
    /\ view.at = "idle"
    /\ \E u \in Users \cup {Null}, e \in Events :
          view' = [NoView EXCEPT !.at = "findDetail", !.user = u, !.event = e,
                                 !.date = now]
    /\ UNCHANGED board

\* toVoteEventDetailRecord: the event and the caller's own participation.
DetailRow(e, u, date) ==
    LET own == OwnBets(e, u)
        bet == CHOOSE i \in own : TRUE
    IN  [category |-> events[e].category,
         isCompleted |-> IsCompleted(e, date),
         isParticipated |-> own # {},
         selectedOption |-> IF own = {} THEN Null ELSE bets[bet].selectedOption,
         myTokenAmount |-> IF own = {} THEN Null ELSE bets[bet].tokenAmount,
         rewardClaimed |-> own \cap paid # {},
         bettingResultOption |-> result[e],
         participantCount |-> [o \in Options |-> participantCount(e, o)],
         tokenAmount |-> [o \in Options |-> tokenAmount(e, o)]]

\* Results are shown once they are final, or to who has voted.
RevealResults(row) == row.isCompleted \/ row.isParticipated

FindDetail ==
    /\ view.at = "findDetail"
    /\ IF view.event \notin Opened
       THEN view' = [view EXCEPT !.at = "not_found"]
       ELSE LET row == DetailRow(view.event, view.user, view.date)
            IN  view' = [view EXCEPT !.row = row,
                    !.at = IF RevealResults(row) THEN "choices" ELSE "answered"]
    /\ UNCHANGED board

\* The participations, and the affiliations of their users (which do not change).
FindParticipationChoices ==
    /\ view.at = "choices"
    /\ view' = [view EXCEPT !.at = "answered", !.choices = BetsOn(view.event)]
    /\ UNCHANGED board

-----------------------------------------------------------------------------
(* mapVoteEventDetail: the answer *)

percentage_Floor(value, total) ==
    IF total > 0 THEN (10000 * value) \div total ELSE 0

\* In hundredths of a percent: Math.round rounds halves up.
percentage(value, total) ==
    IF total > 0 THEN (20000 * value + total) \div (2 * total) ELSE 0

\* The amounts by which options are compared.
calculateResultAmounts(row) ==
    IF row.category = "betting" THEN row.tokenAmount ELSE row.participantCount

calculateRatios(row) ==
    LET amounts == calculateResultAmounts(row)
    IN  [o \in Options |-> percentage(amounts[o], amounts["A"] + amounts["B"])]

StatAmount_Heads(row, choices, a, o) ==
    Cardinality({i \in DOMAIN choices : /\ AffiliationOf[choices[i].user] = a
                                        /\ choices[i].selectedOption = o})

\* The amount affiliation a has given to option o among the choices; the answer
\* shows its percentage, for the affiliations that have a choice.
StatAmount(row, choices, a, o) ==
    LET ids == {i \in DOMAIN choices : /\ AffiliationOf[choices[i].user] = a
                                       /\ choices[i].selectedOption = o}
    IN  IF row.category = "betting" THEN sumTokenAmounts(choices, ids)
        ELSE Cardinality(ids)

buildAffiliationStats(row, choices) ==
    LET present == {AffiliationOf[choices[i].user] : i \in DOMAIN choices}
    IN  [a \in present |-> [o \in Options |-> StatAmount(row, choices, a, o)]]

IsWinner(row) ==
    row.bettingResultOption # Null /\ row.selectedOption = row.bettingResultOption

EarnedTokenAmount_Proportional(row, choices, u) ==
    IF IsWinner(row)
    THEN (row.myTokenAmount * (row.tokenAmount["A"] + row.tokenAmount["B"]))
           \div row.tokenAmount[row.bettingResultOption]
    ELSE Null

\* bettingInfo.earnedTokenAmount: the payout found for the caller.
EarnedTokenAmount(row, choices, u) ==
    IF IsWinner(row)
    THEN LET payouts == calculateBettingPayouts(choices, row.bettingResultOption)
         IN  payouts[CHOOSE i \in DOMAIN payouts : choices[i].user = u]
    ELSE Null

RewardClaimed_Unconfirmed(row) ==
    IF ~row.isParticipated THEN Null ELSE IsWinner(row) => row.rewardClaimed

\* bettingInfo.rewardClaimed: a loser has nothing left to claim.
RewardClaimed(row) ==
    IF row.bettingResultOption = Null \/ ~row.isParticipated THEN Null
    ELSE IsWinner(row) => row.rewardClaimed

\* bettingInfo.payoutRate: the caller's share of the stakes on his option.
PayoutRate(row) ==
    IF ~row.isParticipated THEN Null
    ELSE percentage(row.myTokenAmount, row.tokenAmount[row.selectedOption])

-----------------------------------------------------------------------------

Init == BoardInit /\ view = NoView

Next ==
    \/ GetDetail \/ FindDetail \/ FindParticipationChoices
    \/ Traffic(Rows, Votes) /\ UNCHANGED view

Spec == Init /\ [][Next]_vars

-----------------------------------------------------------------------------

Answered == view.at = "answered"

\* The results are in the answer.
Revealed == Answered /\ RevealResults(view.row)

\* The earned amount a winner is shown, whenever he looks and although the
\* participations are read after the result, is what his claim credits.
EarnedIsCredited ==
    [][\A i \in paid' \ paid :
          (Revealed /\ view.event = bets[i].event /\ view.user = bets[i].user
             /\ view.row.bettingResultOption # Null)
            => wallet'[view.user] = wallet[view.user]
                 + EarnedTokenAmount(view.row, view.choices, view.user)]_vars

\* Once somebody has been told that his reward is claimed, or that there is
\* none, no claim of his credits anything any more.
ClaimedIsFinal ==
    [][\A i \in paid' \ paid :
          ~(/\ Answered /\ view.row # Null /\ view.event = bets[i].event
            /\ view.user = bets[i].user /\ RewardClaimed(view.row) = TRUE)]_vars

\* The statistics, read later, leave out no vote that the totals of the same
\* answer count, and when the result is confirmed the two agree exactly.
StatsCoverTotals ==
    Revealed =>
        LET stats == buildAffiliationStats(view.row, view.choices)
            sum(o) == TokenSum([a \in DOMAIN stats |-> stats[a][o]], DOMAIN stats)
            amounts == calculateResultAmounts(view.row)
        IN  \A o \in Options :
              /\ sum(o) >= amounts[o]
              /\ view.row.bettingResultOption # Null => sum(o) = amounts[o]

\* The ratios of a row add up to 100, or to 100.01 when both are rounded up.
RatiosFit(row) ==
    LET ratios  == calculateRatios(row)
        sum     == ratios["A"] + ratios["B"]
        amounts == calculateResultAmounts(row)
    IN  /\ sum \in {0, 10000, 10001}
        /\ sum = 0 <=> amounts["A"] + amounts["B"] = 0

\* The two percentages of an answer add up, and nobody's payout rate is above 100.
RatiosAddUp ==
    Revealed =>
        /\ RatiosFit(view.row)
        /\ (view.row.category = "betting" /\ view.row.isParticipated)
              => PayoutRate(view.row) <= 10000

=============================================================================
