------------------------ MODULE VoteEventsProperties ------------------------
(***************************************************************************)
(* What the commands on vote events guarantee however their requests       *)
(* interleave, deadlock and fail.                                          *)
(***************************************************************************)
EXTENDS VoteEvents

Steps == {"idle", "insertEvent", "findDetail", "debit", "eventKey", "uniqueKey",
          "userKey", "count", "findEvent", "findParticipation", "credit",
          "commit", "commitReward", "done"}

Locks == [row : UNION {{UserRow(u) : u \in Users}, {EventRow(e) : e \in Events},
                       {ParticipationKey(e, u) : e \in Events, u \in Users}},
          mode : {"S", "X"}]

Refusals == {"vote_event_not_found", "vote_event_closed",
    "vote_event_already_participated", "vote_event_result_forbidden",
    "vote_event_result_already_confirmed", "vote_event_result_not_allowed",
    "betting_reward_forbidden", "betting_result_not_confirmed",
    "betting_reward_not_allowed", "invalid_vote_event_deadline",
    "insufficient_vote_token", "token_amount_required",
    "token_amount_not_allowed"}

\* The tables and the requests hold what they should; in particular no user's
\* vote_token goes below zero, whatever votes and claims run at once.
TypeOK ==
    /\ voteToken \in [Users -> Nat]
    /\ voteEvents \in [Events -> VoteEvent \cup {Null}]
    /\ participations \in [Requests -> Participation \cup {Null}]
    /\ now \in 0 .. MaxTime
    /\ call \in [Requests -> Calls \cup {Null}]
    /\ pc \in [Requests -> Steps]
    /\ stamp \in [Requests -> Nat]
    /\ createdAt \in [Requests -> Nat]
    /\ reward \in [Requests -> Nat \cup {Null}]
    /\ held \in [Requests -> SUBSET Locks]
    /\ answer \in [Requests -> Refusals \cup {OK, InternalError, Null}]
    /\ faults \in 0 .. MaxFaults

\* The ids of the winning participations of e whose reward was credited.
Paid(e) == {i \in DOMAIN ParticipationsOf(e) :
                participations[i].bettingRewardClaimedAt # Null}

\* Tokens are neither created nor lost: what users can spend and what was staked
\* in the pools add up to what users were given and the rewards credited, each
\* of which came out of a pool.
TokensConserved ==
    LET pools   == [e \in Created |-> voteEvents[e].totalTokenAmount]
        payouts == [e \in Created |->
                      TokenSum([i \in Paid(e) |-> Payout(e, i)], Paid(e))]
    IN  TokenSum(voteToken, Users) + TokenSum(pools, Created)
          = InitialVoteToken * Cardinality(Users) + TokenSum(payouts, Created)

\* Nobody takes part twice in an event, although every check of that the
\* service makes may be stale when the participation is inserted.
OneParticipationPerUser ==
    \A i, j \in Inserted :
        (/\ participations[i].event = participations[j].event
         /\ participations[i].user = participations[j].user) => i = j

\* The counters kept in vote_events agree with the participations recorded, so
\* a list and a detail that read either show the same result.
CountersMatch ==
    \A e \in Created :
        LET bets == ParticipationsOf(e)
            row  == voteEvents[e]
        IN  /\ \A o \in Options :
                 /\ row.participantCount[o] = Cardinality(Winners(bets, o))
                 /\ row.tokenAmount[o] = sumTokenAmounts(bets, Winners(bets, o))
            /\ row.totalParticipantCount
                 = row.participantCount["A"] + row.participantCount["B"]
            /\ row.totalTokenAmount = row.tokenAmount["A"] + row.tokenAmount["B"]

\* Once the result of an event is confirmed, no vote that was under way gets in
\* any more and the result stays, so every payout is computed from one pool.
PoolFrozenByResult ==
    [][\A e \in Created : voteEvents[e].bettingResultOption # Null =>
          /\ DOMAIN ParticipationsOf(e)' = DOMAIN ParticipationsOf(e)
          /\ voteEvents'[e] = voteEvents[e]]_vars

\* A user's tokens grow only by the payout of a winning participation that was
\* not paid before and counts as paid from then on, and it stays paid.
RewardPaidOnce ==
    [][/\ \A u \in Users : voteToken'[u] > voteToken[u] =>
            \E i \in Inserted :
              /\ participations[i].user = u
              /\ participations[i].bettingRewardClaimedAt = Null
              /\ participations'[i].bettingRewardClaimedAt # Null
              /\ voteToken'[u] = voteToken[u] + Payout(participations[i].event, i)
       /\ \A i \in Inserted : participations[i].bettingRewardClaimedAt # Null =>
              participations'[i] = participations[i]]_vars

\* Claiming again is safe: every claim of one user on one event that succeeds
\* answers the same earnedTokenAmount, and it answers an amount only when that
\* amount has been credited.
ClaimsAgree ==
    \A r \in Requests : (answer[r] = OK /\ call[r].kind = "claim") =>
        \E i \in OwnParticipations(call[r].event, call[r].user) :
            LET e   == call[r].event
                won == participations[i].selectedOption
                         = voteEvents[e].bettingResultOption
            IN  IF won
                THEN /\ reward[r] = Payout(e, i)
                     /\ participations[i].bettingRewardClaimedAt # Null
                ELSE reward[r] = Null

\* A vote answered with success is recorded and one that was refused is not; of
\* the confirmations of one event at most one succeeds, and the event's result
\* is the one it was given.
AnswersMatchTables ==
    \A r \in Requests :
        /\ (answer[r] = OK /\ call[r].kind = "vote") => r \in Inserted
        /\ (answer[r] \in Refusals /\ call[r].kind = "vote") => r \notin Inserted
        /\ (answer[r] = OK /\ call[r].kind = "confirm") =>
              /\ voteEvents[call[r].event].bettingResultOption = call[r].option
              /\ voteEvents[call[r].event].organizerUserId = call[r].user
              /\ \A t \in Requests \ {r} :
                   ~(/\ answer[t] = OK /\ call[t].kind = "confirm"
                     /\ call[t].event = call[r].event)

\* Every participation was made before the deadline of its event, however long
\* its transaction waited.
VotesInTime ==
    \A i \in Inserted :
        participations[i].createdAt < voteEvents[participations[i].event].deadlineAt

\* Whatever waits, a request that has arrived is eventually answered: waits
\* that would last for ever are cycles, and a cycle loses a transaction.
EveryRequestAnswered ==
    \A r \in Requests : pc[r] # "idle" ~> pc[r] = "done"

-----------------------------------------------------------------------------

(* What the tables show, in the words of TokenLedger and EventBoard.         *)

BetOf(row) == [event |-> row.event, user |-> row.user,
               selectedOption |-> row.selectedOption,
               tokenAmount |-> row.tokenAmount, createdAt |-> row.createdAt]

Bets == [i \in Requests |-> IF participations[i] = Null THEN Null
                            ELSE BetOf(participations[i])]

Results == [e \in Events |-> IF voteEvents[e] = Null THEN Null
                              ELSE voteEvents[e].bettingResultOption]

PaidBets == {i \in Inserted : participations[i].bettingRewardClaimedAt # Null}

RowOf(row) == [category |-> row.category,
               organizerUserId |-> row.organizerUserId,
               deadlineAt |-> row.deadlineAt]

RowsOf(rows) ==
    [e \in Events |-> IF rows[e] = Null THEN Null ELSE RowOf(rows[e])]

\* Null is not taken for a bet, a row or the code of an answer either.
ASSUME AbstractNullAssumption ==
    /\ Null \notin Refusals \cup {OK, InternalError}
    /\ Null \notin [event : Events, user : Users, selectedOption : Options,
                     tokenAmount : Nat, createdAt : Nat]
    /\ Null \notin [category : Categories, organizerUserId : Users,
                     deadlineAt : Nat]

Ledger == INSTANCE TokenLedger WITH
    Ids <- Requests, wallet <- voteToken, bets <- Bets, result <- Results,
    paid <- PaidBets

\* The transactions implement the indivisible betting operations: each commit
\* is one of them, and no other step shows.
ImplementsLedger == Ledger!Spec

Board == INSTANCE EventBoard WITH
    Ids <- Requests, wallet <- voteToken, bets <- Bets, result <- Results,
    paid <- PaidBets, InitialRows <- RowsOf(InitialEvents),
    events <- RowsOf(voteEvents)

\* What the transactions commit, whichever of them interleave or fail, is what
\* the reads of the details and the lists are built on: an event is opened with
\* a deadline ahead, a vote is in time and its stake fits the event, a result
\* is only given to a betting event, and nothing else shows.
ImplementsBoard == Board!BoardSpec

-----------------------------------------------------------------------------

\* A user who votes twice on an event is told so: when one of the two votes is
\* recorded and nothing is broken, the other is refused ("409 and
\* vote_event_already_participated").  The transactions deadlock instead: the
\* second INSERT waits for the first one's key with a shared lock on the event
\* that the first one's update of the event waits for.
SecondVoteIsRefused ==
    \A r, t \in Requests :
        (/\ r # t /\ faults = 0
         /\ answer[r] = OK /\ answer[t] # Null
         /\ call[r].kind = "vote" /\ call[t].kind = "vote"
         /\ call[r].user = call[t].user /\ call[r].event = call[t].event)
            => answer[t] \in Refusals

=============================================================================
