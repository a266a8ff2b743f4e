------------------------- MODULE VoteEventsInvariant -------------------------
(***************************************************************************)
(* The inductive invariant behind the safety properties of VoteEvents:     *)
(* which locks a request holds at each of its steps, and what those locks  *)
(* keep true of the tables until its commit.                               *)
(***************************************************************************)
EXTENDS VoteEventsProperties

\* A vote that has debited its stake and may still be recorded.
VoteSteps == {"eventKey", "uniqueKey", "userKey", "count", "commit"}

\* The steps of a claim after it locked the event.
ClaimSteps == {"findParticipation", "credit", "commitReward"}

IsBetting(e) == voteEvents[e].category = "betting"

\* No two transactions hold conflicting locks.
LocksExclude ==
    \A r, t \in Requests :
        r # t => \A k \in held[r], l \in held[t] : ~Conflict(k, l)

\* A request that has arrived has a call, of the kind whose steps it takes.
CallMatchesStep(r) ==
    /\ pc[r] # "idle" => call[r] \in Calls
    /\ pc[r] = "insertEvent" => call[r].kind = "create"
    /\ pc[r] \in {"debit", "eventKey", "uniqueKey", "userKey", "count"} =>
          call[r].kind = "vote"
    /\ pc[r] = "findEvent" => call[r].kind \in {"confirm", "claim"}
    /\ pc[r] \in ClaimSteps => call[r].kind = "claim"

\* A request in its transaction works on an event that exists, and a vote there
\* stakes tokens if and only if the event is a betting event.
EventFound(r) ==
    pc[r] \notin {"idle", "insertEvent", "findDetail", "done"} =>
        /\ voteEvents[call[r].event] # Null
        /\ call[r].kind = "vote" =>
              (IsBetting(call[r].event) <=> call[r].tokenAmount > 0)

\* A vote on a betting event has its user's row locked from the debit on, so
\* the tokens it found are still there at the commit.
StakeReserved(r) ==
    (/\ pc[r] \in VoteSteps /\ call[r].kind = "vote"
     /\ IsBetting(call[r].event)) =>
        /\ Exclusive(UserRow(call[r].user)) \in held[r]
        /\ voteToken[call[r].user] >= call[r].tokenAmount

\* From its INSERT on, a vote has the key of its user and event locked, and no
\* participation with that key is recorded.
KeyReserved(r) ==
    (pc[r] \in {"userKey", "count", "commit"} /\ call[r].kind = "vote") =>
        /\ Exclusive(ParticipationKey(call[r].event, call[r].user)) \in held[r]
        /\ OwnParticipations(call[r].event, call[r].user) = {}

\* A vote, a confirmation or a claim that has locked its event still finds it
\* as its checks found it.
EventReserved(r) ==
    /\ (pc[r] = "commit" /\ call[r].kind = "vote") =>
          /\ Exclusive(EventRow(call[r].event)) \in held[r]
          /\ AcceptsVotes(voteEvents[call[r].event], stamp[r])
          /\ createdAt[r] <= stamp[r]
    /\ (pc[r] = "commit" /\ call[r].kind = "confirm") =>
          /\ Exclusive(EventRow(call[r].event)) \in held[r]
          /\ ConfirmRefusal(call[r]) = OK
    /\ (pc[r] \in ClaimSteps \/ (pc[r] = "commit" /\ call[r].kind = "claim")) =>
          /\ Exclusive(EventRow(call[r].event)) \in held[r]
          /\ voteEvents[call[r].event].bettingResultOption # Null

\* A claim about to credit has its user's participation locked; it has won, is
\* not paid yet, and the reward computed is its payout.
RewardReserved(r) ==
    /\ pc[r] \in {"credit", "commitReward"} =>
          LET e   == call[r].event
              own == OwnParticipations(e, call[r].user)
          IN  /\ Exclusive(ParticipationKey(e, call[r].user)) \in held[r]
              /\ reward[r] \in Nat
              /\ \E i \in own :
                    /\ participations[i].selectedOption
                         = voteEvents[e].bettingResultOption
                    /\ participations[i].bettingRewardClaimedAt = Null
                    /\ reward[r] = Payout(e, i)
    /\ pc[r] = "commitReward" => Exclusive(UserRow(call[r].user)) \in held[r]

\* A vote's dates are in order and not in the future.
DatesInOrder(r) ==
    /\ stamp[r] <= now /\ createdAt[r] <= now
    /\ pc[r] \in {"count", "commit"} /\ call[r].kind = "vote" =>
          createdAt[r] <= stamp[r]

\* Only betting events have a result, and it comes with its date.
ResultsMatchDates ==
    \A e \in Created :
        /\ voteEvents[e].bettingResultOption = Null
             <=> voteEvents[e].bettingResultConfirmedAt = Null
        /\ voteEvents[e].bettingResultOption # Null => IsBetting(e)

\* A participation comes from a request that has ended, belongs to an event
\* that exists, has a stake if and only if that is a betting event, and was
\* made before the deadline.
ParticipationsFit ==
    \A i \in Inserted :
        LET row == participations[i]
        IN  /\ pc[i] = "done"
            /\ voteEvents[row.event] # Null
            /\ IsBetting(row.event) <=> row.tokenAmount > 0
            /\ row.createdAt < voteEvents[row.event].deadlineAt

RequestOK(r) ==
    /\ CallMatchesStep(r)
    /\ EventFound(r)
    /\ StakeReserved(r)
    /\ KeyReserved(r)
    /\ EventReserved(r)
    /\ RewardReserved(r)
    /\ DatesInOrder(r)

IInv ==
    /\ TypeOK
    /\ LocksExclude
    /\ ResultsMatchDates
    /\ ParticipationsFit
    /\ OneParticipationPerUser
    /\ \A r \in Requests : RequestOK(r)

-----------------------------------------------------------------------------
(* What the answers promise, on top of IInv.                                 *)

AnsweredWhenDone == \A r \in Requests : answer[r] # Null <=> pc[r] = "done"

\* The event a confirmation succeeded on exists.
ConfirmedExists ==
    \A r \in Requests : (answer[r] = OK /\ call[r].kind = "confirm") =>
        voteEvents[call[r].event] # Null

\* What is paid has won.
PaidHaveWon ==
    \A i \in Inserted : participations[i].bettingRewardClaimedAt # Null =>
        LET row == voteEvents[participations[i].event]
        IN  /\ row.bettingResultOption # Null
            /\ participations[i].selectedOption = row.bettingResultOption

\* The amount request r answers a claim of participation i in event e with: its
\* payout, credited before, or nothing.
Settled(r, e, i) ==
    IF participations[i].selectedOption = voteEvents[e].bettingResultOption
    THEN /\ reward[r] = Payout(e, i)
         /\ participations[i].bettingRewardClaimedAt # Null
    ELSE reward[r] = Null

\* A claim that has nothing to write, and one that was answered with success,
\* found a participation in an event with a result.
ClaimSettled(r) ==
    (/\ call[r] # Null /\ call[r].kind = "claim"
     /\ pc[r] = "commit" \/ answer[r] = OK) =>
        /\ voteEvents[call[r].event] # Null
        /\ voteEvents[call[r].event].bettingResultOption # Null
        /\ \E i \in OwnParticipations(call[r].event, call[r].user) :
              Settled(r, call[r].event, i)

AnswersInv ==
    /\ IInv
    /\ AnsweredWhenDone
    /\ ConfirmedExists
    /\ PaidHaveWon
    /\ AnswersMatchTables
    /\ \A r \in Requests : ClaimSettled(r)

=============================================================================
