----------------------------- MODULE VoteEvents -----------------------------
(***************************************************************************)
(* The commands on vote events (vote-events.service.ts and the             *)
(* transactions of vote-events.repository.ts): create, vote, confirm the   *)
(* result of a betting event, claim the reward.                            *)
(*                                                                         *)
(* A request is a thread of awaited statements.  The service first reads   *)
(* the committed event (findDetail) and answers from what it read; then a  *)
(* transaction executes its statements one at a time, waiting for row      *)
(* locks, while other requests run in between.  A transaction's writes are *)
(* protected by its locks and invisible to the others, so they are applied *)
(* to the tables by the commit.                                            *)
(*                                                                         *)
(* A definition named D_How is a slip of D that a check has to notice; the *)
(* specification does not use it.                                          *)
(***************************************************************************)
EXTENDS BettingPayout, RowLocks

CONSTANTS
    Users, Events,
    Requests,         \* one id per HTTP request; also the participation's uuid
    Inbox,            \* Inbox[r]: the calls request r may turn out to be
    InitialEvents,    \* vote_events as the requests find it, without votes
    InitialVoteToken, \* tokens of a new user, 1000 in the code
    MaxDuration,      \* VOTE_EVENT_MAX_DURATION_MS
    MaxTime,          \* bound: the clock stops there
    MaxFaults,        \* bound: statements and commits lost to faults
    Null

Options    == {"A", "B"}
Categories == {"daily", "balance", "work", "betting"}
Kinds      == {"create", "vote", "confirm", "claim"}

\* A request's user, from the access token, and body.  tokenAmount is 0 when
\* the body has none; deadlineAt is Null when its text is no date or no full hour;
\* a field the kind does not use has any value.
Calls == [kind : Kinds, user : Users, event : Events, option : Options,
          tokenAmount : Nat, category : Categories, deadlineAt : Nat \cup {Null}]

\* A new row of vote_events.
NewEvent(category, organizer, deadlineAt) ==
    [category |-> category, organizerUserId |-> organizer,
     deadlineAt |-> deadlineAt,
     bettingResultOption |-> Null, bettingResultConfirmedAt |-> Null,
     participantCount |-> [o \in Options |-> 0], totalParticipantCount |-> 0,
     tokenAmount |-> [o \in Options |-> 0], totalTokenAmount |-> 0]

\* The columns of vote_events and vote_event_participations.
VoteEvent ==
    [category : Categories, organizerUserId : Users, deadlineAt : Nat,
     bettingResultOption : Options \cup {Null},
     bettingResultConfirmedAt : Nat \cup {Null},
     participantCount : [Options -> Nat], totalParticipantCount : Nat,
     tokenAmount : [Options -> Nat], totalTokenAmount : Nat]

Participation ==
    [event : Events, user : Users, selectedOption : Options, tokenAmount : Nat,
     createdAt : Nat, bettingRewardClaimedAt : Nat \cup {Null}]

ASSUME VoteEventsAssumption ==
    /\ IsFiniteSet(Users) /\ IsFiniteSet(Events)
    /\ IsFiniteSet(Requests) /\ Requests \subseteq Nat
    /\ Inbox \in [Requests -> SUBSET Calls]
    /\ InitialEvents \in [Events -> VoteEvent \cup {Null}]
    /\ \A e \in Events : InitialEvents[e] # Null =>
          InitialEvents[e] = NewEvent(InitialEvents[e].category,
             InitialEvents[e].organizerUserId, InitialEvents[e].deadlineAt)
    /\ InitialVoteToken \in Nat /\ MaxDuration \in Nat
    /\ MaxTime \in Nat /\ MaxFaults \in Nat

ASSUME NullAssumption ==
    /\ Null \notin Nat /\ Null \notin Options /\ Null \notin Calls
    /\ Null \notin VoteEvent /\ Null \notin Participation

VARIABLES
    voteToken,      \* users.vote_token
    voteEvents,     \* vote_events: the row of each id, Null while there is none
    participations, \* vote_event_participations, by the request that inserted it
    now,            \* the clock of the API and of the database
    call,           \* the call each request is, Null before it arrives
    pc,             \* what each request does next
    stamp,          \* the new Date() a request last took
    createdAt,      \* the createdAt of the participation a request inserts
    reward,         \* the earnedTokenAmount a claim answers
    held,           \* row locks of each request's transaction
    answer,         \* code of each request's response, Null before it
    faults          \* statements and commits lost so far

tables == <<voteToken, voteEvents, participations>>
locals == <<call, stamp, createdAt, reward>>
vars   == <<voteToken, voteEvents, participations, now, call, pc, stamp,
            createdAt, reward, held, answer, faults>>

OK            == "ok"
InternalError == "internal_server_error"

Created == {e \in Events : voteEvents[e] # Null}

Inserted == {i \in Requests : participations[i] # Null}

\* The rows of vote_event_participations of event e.
ParticipationsOf(e) ==
    [i \in {j \in Inserted : participations[j].event = e} |-> participations[i]]

\* The ids of user u's participations in event e.
OwnParticipations(e, u) ==
    {i \in Inserted : participations[i].event = e /\ participations[i].user = u}

\* What the winning participation i is paid when event e has the given result.
Payout(e, i) ==
    calculateBettingPayouts(ParticipationsOf(e),
                            voteEvents[e].bettingResultOption)[i]

-----------------------------------------------------------------------------
(* Checks made by the service on the row findDetail returned, in its order. *)

\* completedCondition, the isCompleted column of findDetail.
IsCompleted(row, date) ==
    row.deadlineAt <= date \/ row.bettingResultConfirmedAt # Null

VoteRefusal_AnyStake(c, date) ==
    LET row == voteEvents[c.event]
    IN  IF row = Null THEN "vote_event_not_found"
        ELSE IF IsCompleted(row, date) THEN "vote_event_closed"
        ELSE IF OwnParticipations(c.event, c.user) # {}
             THEN "vote_event_already_participated"
        ELSE IF row.category = "betting" /\ c.tokenAmount = 0
             THEN "token_amount_required"
        ELSE OK

VoteRefusal(c, date) ==
    LET row == voteEvents[c.event]
    IN  IF row = Null THEN "vote_event_not_found"
        ELSE IF IsCompleted(row, date) THEN "vote_event_closed"
        ELSE IF OwnParticipations(c.event, c.user) # {}
             THEN "vote_event_already_participated"
        ELSE IF row.category = "betting" /\ c.tokenAmount = 0
             THEN "token_amount_required"
        ELSE IF row.category # "betting" /\ c.tokenAmount # 0
             THEN "token_amount_not_allowed"
        ELSE OK

ConfirmRefusal(c) ==
    LET row == voteEvents[c.event]
    IN  IF row = Null THEN "vote_event_not_found"
        ELSE IF row.organizerUserId # c.user THEN "vote_event_result_forbidden"
        ELSE IF row.category # "betting" THEN "vote_event_result_not_allowed"
        ELSE IF row.bettingResultOption # Null
             THEN "vote_event_result_already_confirmed"
        ELSE OK

ClaimRefusal(c) ==
    LET row == voteEvents[c.event]
    IN  IF row = Null THEN "vote_event_not_found"
        ELSE IF row.category # "betting" THEN "betting_reward_not_allowed"
        ELSE IF OwnParticipations(c.event, c.user) = {}
             THEN "betting_reward_forbidden"
        ELSE IF row.bettingResultOption = Null
             THEN "betting_result_not_confirmed"
        ELSE OK

-----------------------------------------------------------------------------
(* Row locks *)

\* Confirmation and claim find their event without for update.
Wanted_PlainFind(r) ==
    LET c == call[r]
    IN  IF pc[r] \in {"insertEvent", "userKey"} THEN {Shared(UserRow(c.user))}
        ELSE IF pc[r] = "eventKey" THEN {Shared(EventRow(c.event))}
        ELSE IF pc[r] = "count" THEN {Exclusive(EventRow(c.event))}
        ELSE IF pc[r] \in {"uniqueKey", "findParticipation"}
             THEN {Exclusive(ParticipationKey(c.event, c.user))}
        ELSE IF \/ pc[r] = "credit"
                \/ pc[r] = "debit" /\ voteEvents[c.event].category = "betting"
             THEN {Exclusive(UserRow(c.user))}
        ELSE {}

\* The locks of the statement request r executes next.  INSERT checks the
\* foreign key of the unique index, the unique index, then the other key.
Wanted(r) ==
    LET c == call[r]
    IN  IF pc[r] \in {"insertEvent", "userKey"} THEN {Shared(UserRow(c.user))}
        ELSE IF pc[r] = "eventKey" THEN {Shared(EventRow(c.event))}
        ELSE IF pc[r] \in {"count", "findEvent"} THEN {Exclusive(EventRow(c.event))}
        ELSE IF pc[r] \in {"uniqueKey", "findParticipation"}
             THEN {Exclusive(ParticipationKey(c.event, c.user))}
        ELSE IF \/ pc[r] = "credit"
                \/ pc[r] = "debit" /\ voteEvents[c.event].category = "betting"
             THEN {Exclusive(UserRow(c.user))}
        ELSE {}

AllWanted == [r \in Requests |-> Wanted(r)]

\* The locks of r's statement are granted and r goes on with what is next.
Granted(r) ==
    /\ ~Blocked(held, AllWanted, r)
    /\ held' = [held EXCEPT ![r] = @ \cup Wanted(r)]

Goto(r, next) == pc' = [pc EXCEPT ![r] = next]

\* The transaction is neither committed nor rolled back.
Answer_Unreleased(r, code) ==
    /\ Goto(r, "done")
    /\ answer' = [answer EXCEPT ![r] = code]
    /\ UNCHANGED <<now, call, stamp, createdAt, held>>

\* The response is sent; the transaction, if any, has ended and let its locks go.
Answer(r, code) ==
    /\ Goto(r, "done")
    /\ answer' = [answer EXCEPT ![r] = code]
    /\ held' = [held EXCEPT ![r] = {}]
    /\ stamp' = [stamp EXCEPT ![r] = 0]
    /\ createdAt' = [createdAt EXCEPT ![r] = 0]
    /\ UNCHANGED <<now, call>>

\* An exception ends the transaction without its writes.
Refuse(r, code) ==
    /\ Answer(r, code)
    /\ reward' = [reward EXCEPT ![r] = Null]
    /\ UNCHANGED <<tables, faults>>

\* The database has committed; the acknowledgement reaches the API or is lost.
Committed(r) ==
    \/ /\ Answer(r, OK)
       /\ UNCHANGED <<reward, faults>>
    \/ /\ faults < MaxFaults
       /\ faults' = faults + 1
       /\ Answer(r, InternalError)
       /\ reward' = [reward EXCEPT ![r] = Null]

-----------------------------------------------------------------------------
(* Every request *)

\* The request arrives; the service's first statement is new Date().
Receive(r) ==
    /\ pc[r] = "idle"
    /\ \E c \in Inbox[r] :
          /\ call' = [call EXCEPT ![r] = c]
          /\ Goto(r, IF c.kind = "create" THEN "insertEvent" ELSE "findDetail")
    /\ stamp' = [stamp EXCEPT ![r] = now]
    /\ UNCHANGED <<tables, now, createdAt, reward, held, answer, faults>>

\* The service reads the committed event and answers from it, or begins the
\* transaction whose first statement is next, with date as its last new Date().
FindDetail(r, refusal, next, date) ==
    IF refusal # OK
    THEN Refuse(r, refusal)
    ELSE /\ Goto(r, next)
         /\ stamp' = [stamp EXCEPT ![r] = date]
         /\ UNCHANGED <<tables, now, call, createdAt, reward, held, answer, faults>>

\* InnoDB rolls a transaction on a cycle of waits back; nothing retries it.
RollBackVictim(r) ==
    /\ r \in Deadlocked(held, AllWanted)
    /\ Refuse(r, InternalError)

\* The stake was debited for good before the transaction began.
Fail_DebitKept(r) ==
    /\ pc[r] \notin {"idle", "done"}
    /\ faults < MaxFaults
    /\ faults' = faults + 1
    /\ Answer(r, InternalError)
    /\ reward' = [reward EXCEPT ![r] = Null]
    /\ voteToken' = IF pc[r] \in {"eventKey", "uniqueKey", "userKey", "count"}
                    THEN [voteToken EXCEPT ![call[r].user] = @ - call[r].tokenAmount]
                    ELSE voteToken
    /\ UNCHANGED <<voteEvents, participations>>

\* Before its commit a request is lost to a fault: a broken connection, a lock
\* wait timeout, a restart of the database or of the API.
Fail(r) ==
    /\ pc[r] \notin {"idle", "done"}
    /\ faults < MaxFaults
    /\ faults' = faults + 1
    /\ Answer(r, InternalError)
    /\ reward' = [reward EXCEPT ![r] = Null]
    /\ UNCHANGED tables

-----------------------------------------------------------------------------
(* create *)

IsValidDeadline(deadlineAt, date) ==
    deadlineAt # Null /\ date < deadlineAt /\ deadlineAt <= date + MaxDuration

\* The INSERT checks the organizer's foreign key, which waits for a transaction
\* that holds the organizer's row.
Create(r) ==
    /\ pc[r] = "insertEvent"
    /\ LET c == call[r]
       IN  IF ~IsValidDeadline(c.deadlineAt, stamp[r])
           THEN Refuse(r, "invalid_vote_event_deadline")
           ELSE /\ voteEvents[c.event] = Null
                /\ ~Blocked(held, AllWanted, r)
                /\ voteEvents' = [voteEvents EXCEPT ![c.event] =
                                     NewEvent(c.category, c.user, c.deadlineAt)]
                /\ UNCHANGED <<voteToken, participations>>
                /\ Committed(r)

-----------------------------------------------------------------------------
(* vote: VoteEventsRepository.participate *)

VoteFindDetail(r) ==
    /\ pc[r] = "findDetail" /\ call[r].kind = "vote"
    /\ FindDetail(r, VoteRefusal(call[r], stamp[r]), "debit", stamp[r])

CanAfford_Unchecked(u, tokenAmount) == TRUE

\* The where clause of the update of users that debits the stake.
CanAfford(u, tokenAmount) == voteToken[u] >= tokenAmount

\* The update of users, for a betting event only; then the participation is
\* built with the date it is built at.
Debit(r) ==
    /\ pc[r] = "debit"
    /\ ~Blocked(held, AllWanted, r)
    /\ LET c == call[r]
       IN  IF Wanted(r) # {} /\ ~CanAfford(c.user, c.tokenAmount)
           THEN Refuse(r, "insufficient_vote_token")
           ELSE /\ Granted(r)
                /\ Goto(r, "eventKey")
                /\ createdAt' = [createdAt EXCEPT ![r] = now]
                /\ UNCHANGED <<tables, now, call, stamp, reward, answer, faults>>

\* The INSERT of the participation: foreign key to vote_events.
ReferenceEvent(r) ==
    /\ pc[r] = "eventKey"
    /\ Granted(r)
    /\ Goto(r, "uniqueKey")
    /\ UNCHANGED <<tables, now, locals, answer, faults>>

DuplicateKey_NoIndex(c) == FALSE

\* isDuplicateKeyError: the unique index on vote_event_id and user_id has it.
DuplicateKey(c) == OwnParticipations(c.event, c.user) # {}

\* A duplicate is taken for a retry of what was done.
InsertKey_Ignored(r) ==
    /\ pc[r] = "uniqueKey"
    /\ ~Blocked(held, AllWanted, r)
    /\ IF DuplicateKey(call[r])
       THEN Refuse(r, OK)
       ELSE /\ Granted(r)
            /\ Goto(r, "userKey")
            /\ UNCHANGED <<tables, now, locals, answer, faults>>

\* The unique index waits for a transaction that inserted the key.
InsertKey(r) ==
    /\ pc[r] = "uniqueKey"
    /\ ~Blocked(held, AllWanted, r)
    /\ IF DuplicateKey(call[r])
       THEN Refuse(r, "vote_event_already_participated")
       ELSE /\ Granted(r)
            /\ Goto(r, "userKey")
            /\ UNCHANGED <<tables, now, locals, answer, faults>>

\* The foreign key to users ends the INSERT; the next statement's date is taken.
ReferenceUser(r) ==
    /\ pc[r] = "userKey"
    /\ Granted(r)
    /\ Goto(r, "count")
    /\ stamp' = [stamp EXCEPT ![r] = now]
    /\ UNCHANGED <<tables, now, call, createdAt, reward, answer, faults>>

AcceptsVotes_DeadlineOnly(row, date) == row.deadlineAt > date

AcceptsVotes_ResultOnly(row, date) == row.bettingResultConfirmedAt = Null

\* The where clause of the update of vote_events that counts a vote.
AcceptsVotes(row, date) ==
    row.bettingResultConfirmedAt = Null /\ row.deadlineAt > date

Count(r) ==
    /\ pc[r] = "count"
    /\ ~Blocked(held, AllWanted, r)
    /\ IF ~AcceptsVotes(voteEvents[call[r].event], stamp[r])
       THEN Refuse(r, "vote_event_closed")
       ELSE /\ Granted(r)
            /\ Goto(r, "commit")
            /\ UNCHANGED <<tables, now, locals, answer, faults>>

AggregateUpdate_OptionsSwapped(row, option, tokenAmount) ==
    [row EXCEPT !.participantCount[IF option = "A" THEN "B" ELSE "A"] = @ + 1,
                !.totalParticipantCount = @ + 1,
                !.tokenAmount[IF option = "A" THEN "B" ELSE "A"] = @ + tokenAmount,
                !.totalTokenAmount = @ + tokenAmount]

\* voteEventAggregateUpdate.
AggregateUpdate(row, option, tokenAmount) ==
    [row EXCEPT !.participantCount[option] = @ + 1,
                !.totalParticipantCount = @ + 1,
                !.tokenAmount[option] = @ + tokenAmount,
                !.totalTokenAmount = @ + tokenAmount]

CommitVote(r) ==
    /\ pc[r] = "commit" /\ call[r].kind = "vote"
    /\ LET c == call[r]
       IN  /\ voteToken' = [voteToken EXCEPT ![c.user] = @ - c.tokenAmount]
           /\ participations' = [participations EXCEPT ![r] =
                 [event |-> c.event, user |-> c.user,
                  selectedOption |-> c.option, tokenAmount |-> c.tokenAmount,
                  createdAt |-> createdAt[r],
                  bettingRewardClaimedAt |-> Null]]
           /\ voteEvents' = [voteEvents EXCEPT ![c.event] =
                               AggregateUpdate(@, c.option, c.tokenAmount)]
    /\ Committed(r)

-----------------------------------------------------------------------------
(* confirmBettingResult *)

ConfirmFindDetail(r) ==
    /\ pc[r] = "findDetail" /\ call[r].kind = "confirm"
    /\ FindDetail(r, ConfirmRefusal(call[r]), "findEvent", now)

\* select ... for update, and the same checks on the locked row.  Only the last
\* can fail where the first read's did not (nothing changes the others), so the
\* repository's order among them does not show.
ConfirmFindEvent(r) ==
    /\ pc[r] = "findEvent" /\ call[r].kind = "confirm"
    /\ ~Blocked(held, AllWanted, r)
    /\ IF ConfirmRefusal(call[r]) # OK
       THEN Refuse(r, ConfirmRefusal(call[r]))
       ELSE /\ Granted(r)
            /\ Goto(r, "commit")
            /\ UNCHANGED <<tables, now, locals, answer, faults>>

\* The where clause of the update that sets the result.
AcceptsResult(row, user) ==
    /\ row.bettingResultOption = Null
    /\ row.category = "betting" /\ row.organizerUserId = user

\* The update and the commit.  The locked row passed the checks, so the where
\* clause finds it again.
CommitConfirm(r) ==
    /\ pc[r] = "commit" /\ call[r].kind = "confirm"
    /\ LET e == call[r].event
       IN  IF ~AcceptsResult(voteEvents[e], call[r].user)
           THEN Refuse(r, "vote_event_result_already_confirmed")
           ELSE /\ voteEvents' = [voteEvents EXCEPT
                                     ![e].bettingResultOption = call[r].option,
                                     ![e].bettingResultConfirmedAt = stamp[r]]
                /\ UNCHANGED <<voteToken, participations>>
                /\ Committed(r)

-----------------------------------------------------------------------------
(* claimBettingReward *)

ClaimFindDetail(r) ==
    /\ pc[r] = "findDetail" /\ call[r].kind = "claim"
    /\ FindDetail(r, ClaimRefusal(call[r]), "findEvent", now)

\* select ... for update of the event, and the service's checks again on the
\* locked row; the participation is locked next.
ClaimFindEvent(r) ==
    /\ pc[r] = "findEvent" /\ call[r].kind = "claim"
    /\ ~Blocked(held, AllWanted, r)
    /\ IF voteEvents[call[r].event].category # "betting"
       THEN Refuse(r, "betting_reward_not_allowed")
       ELSE IF voteEvents[call[r].event].bettingResultOption = Null
       THEN Refuse(r, "betting_result_not_confirmed")
       ELSE /\ Granted(r)
            /\ Goto(r, "findParticipation")
            /\ UNCHANGED <<tables, now, locals, answer, faults>>

EarnedTokenAmount_UnlessClaimed(e, i) ==
    IF /\ participations[i].selectedOption = voteEvents[e].bettingResultOption
       /\ participations[i].bettingRewardClaimedAt = Null
    THEN Payout(e, i) ELSE Null

\* The payout found for the user's own participation i, from a consistent read
\* of the participations; a loser has none.
EarnedTokenAmount(e, i) ==
    IF participations[i].selectedOption = voteEvents[e].bettingResultOption
    THEN Payout(e, i) ELSE Null

IsUnclaimed_Always(i) == TRUE

IsUnclaimed(i) == participations[i].bettingRewardClaimedAt = Null

\* select ... for update of the user's participation.  A loser's claim, or one
\* of what was claimed before, writes nothing.  The read of all participations
\* follows at once: none can be added or changed while the event is locked.
ClaimFindParticipation(r) ==
    /\ pc[r] = "findParticipation"
    /\ ~Blocked(held, AllWanted, r)
    /\ LET own    == OwnParticipations(call[r].event, call[r].user)
           i      == CHOOSE j \in own : TRUE
           earned == EarnedTokenAmount(call[r].event, i)
       IN  IF own = {}
           THEN Refuse(r, "betting_reward_forbidden")
           ELSE /\ Granted(r)
                /\ reward' = [reward EXCEPT ![r] = earned]
                /\ Goto(r, IF earned # Null /\ IsUnclaimed(i) THEN "credit"
                           ELSE "commit")
                /\ UNCHANGED <<tables, now, call, stamp, createdAt, answer, faults>>

\* update users set vote_token = vote_token + ?
Credit(r) ==
    /\ pc[r] = "credit"
    /\ Granted(r)
    /\ Goto(r, "commitReward")
    /\ UNCHANGED <<tables, now, locals, answer, faults>>

CommitReward_DateNotFlushed(r) ==
    /\ pc[r] = "commitReward"
    /\ voteToken' = [voteToken EXCEPT ![call[r].user] = @ + reward[r]]
    /\ UNCHANGED <<voteEvents, participations>>
    /\ Committed(r)

\* The tokens and the participation's claimed date are written.
CommitReward(r) ==
    /\ pc[r] = "commitReward"
    /\ LET c   == call[r]
           own == OwnParticipations(c.event, c.user)
       IN  /\ voteToken' = [voteToken EXCEPT ![c.user] = @ + reward[r]]
           /\ participations' = [i \in Requests |->
                 IF i \in own
                 THEN [participations[i] EXCEPT !.bettingRewardClaimedAt = stamp[r]]
                 ELSE participations[i]]
    /\ UNCHANGED voteEvents
    /\ Committed(r)

\* A loser's claim, or one whose reward was credited before, writes nothing.
CommitClaim(r) ==
    /\ pc[r] = "commit" /\ call[r].kind = "claim"
    /\ UNCHANGED tables
    /\ Committed(r)

-----------------------------------------------------------------------------

Init ==
    /\ voteToken = [u \in Users |-> InitialVoteToken]
    /\ voteEvents = InitialEvents
    /\ participations = [i \in Requests |-> Null]
    /\ now = 0
    /\ call = [r \in Requests |-> Null]
    /\ pc = [r \in Requests |-> "idle"]
    /\ stamp = [r \in Requests |-> 0]
    /\ createdAt = [r \in Requests |-> 0]
    /\ reward = [r \in Requests |-> Null]
    /\ held = [r \in Requests |-> {}]
    /\ answer = [r \in Requests |-> Null]
    /\ faults = 0

Tick ==
    /\ now < MaxTime
    /\ now' = now + 1
    /\ UNCHANGED <<tables, locals, pc, held, answer, faults>>

\* The steps of the vote requests, of the confirmations and of the claims.
VoteStep(r) ==
    \/ VoteFindDetail(r) \/ Debit(r) \/ ReferenceEvent(r) \/ InsertKey(r)
    \/ ReferenceUser(r) \/ Count(r) \/ CommitVote(r)

ConfirmStep(r) == ConfirmFindDetail(r) \/ ConfirmFindEvent(r) \/ CommitConfirm(r)

ClaimStep(r) ==
    \/ ClaimFindDetail(r) \/ ClaimFindEvent(r) \/ ClaimFindParticipation(r)
    \/ Credit(r) \/ CommitReward(r) \/ CommitClaim(r)

\* What the API and the database do for request r once it has arrived.
Step(r) ==
    \/ Create(r) \/ VoteStep(r) \/ ConfirmStep(r) \/ ClaimStep(r)
    \/ RollBackVictim(r)

\* Every request is answered and the clock has stopped at its bound.
Finished ==
    /\ now = MaxTime
    /\ \A r \in Requests : pc[r] = "done"
    /\ UNCHANGED vars

Next ==
    \/ \E r \in Requests : Receive(r) \/ Step(r) \/ Fail(r)
    \/ Tick
    \/ Finished

Spec == Init /\ [][Next]_vars

\* The Node process keeps running its promises and the database its
\* transactions; clients and the clock owe nothing.
FairSpec == Spec /\ \A r \in Requests : WF_vars(Step(r))

=============================================================================
