-------------------------- MODULE VoteEventsProofs --------------------------
(***************************************************************************)
(* The invariant IInv of VoteEvents is inductive, for any users, events,   *)
(* requests and calls; the safety properties rest on it.                   *)
(*                                                                         *)
(* The argument has two halves.  A request keeps its own promise: one step *)
(* of it establishes RequestOK for the step it goes to.  And it keeps the  *)
(* promises of the others: a commit only writes rows it has locked, and a  *)
(* lock that another request's promise rests on is one it cannot hold.     *)
(*                                                                         *)
(* From it follows that the answers agree with the tables (AnswersInv): an *)
(* answer is given by the step that commits, so it is true when it is      *)
(* given, and what it speaks of does not change any more.  The tables      *)
(* agree with each other: each commit changes one term of each sum, and by *)
(* the same amount on both sides.  And the transactions implement          *)
(* TokenLedger and EventBoard: each commit is one of their operations,     *)
(* whose guards hold because the locks have kept true what was checked.    *)
(***************************************************************************)
EXTENDS VoteEventsInvariant, BettingPayoutProofs

-----------------------------------------------------------------------------
(* TypeOK: the conjuncts of IInv that matter for it keep a debit within the  *)
(* user's tokens until its commit, and a payout's division defined.          *)

\* The constants the steps count and compare with.
LEMMA Bounds ==
    /\ InitialVoteToken \in Nat /\ MaxDuration \in Nat
    /\ MaxTime \in Nat /\ MaxFaults \in Nat
BY VoteEventsAssumption

USE Bounds

\* The answers a request may get.
Codes == Refusals \cup {OK, InternalError}

LEMMA RefusalsAreCodes ==
    /\ \A c, date : VoteRefusal(c, date) \in Codes
    /\ \A c : ConfirmRefusal(c) \in Codes
    /\ \A c : ClaimRefusal(c) \in Codes
BY DEF Codes, Refusals, OK, VoteRefusal, ConfirmRefusal, ClaimRefusal

\* What a request that is answered leaves behind.
LEMMA AnswerType ==
    ASSUME TypeOK, NEW r \in Requests, NEW code \in Codes, Answer(r, code)
    PROVE  /\ pc' \in [Requests -> Steps] /\ answer' \in [Requests -> Codes \cup {Null}]
           /\ held' \in [Requests -> SUBSET Locks]
           /\ stamp' \in [Requests -> Nat] /\ createdAt' \in [Requests -> Nat]
           /\ now' = now /\ call' = call
BY DEF TypeOK, Answer, Goto, Codes, Steps

LEMMA RefuseType ==
    ASSUME TypeOK, NEW r \in Requests, NEW code \in Codes, Refuse(r, code)
    PROVE  TypeOK'
<1>1. Answer(r, code)
  BY DEF Refuse
<1>2. /\ reward' \in [Requests -> Nat \cup {Null}] /\ faults' = faults
      /\ voteToken' = voteToken /\ voteEvents' = voteEvents
      /\ participations' = participations
  BY DEF Refuse, TypeOK, tables
<1> QED
  BY <1>1, <1>2, AnswerType DEF TypeOK, Codes

LEMMA CommittedType ==
    ASSUME TypeOK, NEW r \in Requests, Committed(r),
           voteToken' \in [Users -> Nat],
           voteEvents' \in [Events -> VoteEvent \cup {Null}],
           participations' \in [Requests -> Participation \cup {Null}]
    PROVE  TypeOK'
<1>1. CASE Answer(r, OK) /\ UNCHANGED <<reward, faults>>
  BY <1>1, AnswerType DEF TypeOK, Codes
<1>2. CASE /\ faults < MaxFaults /\ faults' = faults + 1
           /\ Answer(r, InternalError)
           /\ reward' = [reward EXCEPT ![r] = Null]
  <2>1. reward' \in [Requests -> Nat \cup {Null}]
    BY <1>2 DEF TypeOK
  <2>2. faults' \in 0 .. MaxFaults
    BY <1>2 DEF TypeOK
  <2>3. InternalError \in Codes
    BY DEF Codes
  <2> QED
    BY <1>2, <2>1, <2>2, <2>3, AnswerType DEF TypeOK, Codes
<1> QED
  BY <1>1, <1>2 DEF Committed

\* A lock that a step asks for is one of the locks there are.
LEMMA WantedType ==
    ASSUME TypeOK, NEW r \in Requests, CallMatchesStep(r)
    PROVE  Wanted(r) \in SUBSET Locks
<1>1. CASE pc[r] = "idle"
  BY <1>1 DEF Wanted
<1>2. CASE pc[r] # "idle"
  <2>1. call[r].user \in Users /\ call[r].event \in Events
    BY <1>2 DEF CallMatchesStep, Calls
  <2>2. \A row : row \in {UserRow(call[r].user), EventRow(call[r].event),
                          ParticipationKey(call[r].event, call[r].user)} =>
           Shared(row) \in Locks /\ Exclusive(row) \in Locks
    BY <2>1 DEF Locks, Shared, Exclusive
  <2> QED
    BY <2>2 DEF Wanted
<1> QED
  BY <1>1, <1>2

LEMMA GrantedType ==
    ASSUME TypeOK, NEW r \in Requests, CallMatchesStep(r), Granted(r),
           NEW next \in Steps, Goto(r, next)
    PROVE  /\ held' \in [Requests -> SUBSET Locks]
           /\ pc' \in [Requests -> Steps]
BY WantedType DEF TypeOK, Granted, Goto

\* Init satisfies the type invariant.
LEMMA TypeInit == Init => TypeOK
<1> SUFFICES ASSUME Init PROVE TypeOK
  OBVIOUS
<1>1. voteToken \in [Users -> Nat] /\ voteEvents \in [Events -> VoteEvent \cup {Null}]
  BY VoteEventsAssumption DEF Init
<1> QED
  BY <1>1 DEF Init, TypeOK, Steps

LEMMA ReceiveType ==
    ASSUME TypeOK, NEW r \in Requests, Receive(r)
    PROVE  TypeOK'
<1>1. PICK c \in Inbox[r] :
         /\ call' = [call EXCEPT ![r] = c]
         /\ Goto(r, IF c.kind = "create" THEN "insertEvent" ELSE "findDetail")
  BY DEF Receive
<1>2. c \in Calls
  BY <1>1, VoteEventsAssumption
<1>3. pc' \in [Requests -> Steps]
  BY <1>1 DEF Goto, TypeOK, Steps
<1>4. call' \in [Requests -> Calls \cup {Null}]
  BY <1>1, <1>2 DEF TypeOK
<1>5. stamp' \in [Requests -> Nat]
  BY DEF Receive, TypeOK
<1> QED
  BY <1>3, <1>4, <1>5 DEF Receive, TypeOK, tables

LEMMA FindDetailType ==
    ASSUME TypeOK, NEW r \in Requests, NEW refusal \in Codes,
           NEW next \in Steps, NEW date \in Nat,
           FindDetail(r, refusal, next, date)
    PROVE  TypeOK'
<1>1. CASE refusal # OK
  BY <1>1, RefuseType DEF FindDetail
<1>2. CASE refusal = OK
  <2>1. pc' \in [Requests -> Steps] /\ stamp' \in [Requests -> Nat]
    BY <1>2 DEF FindDetail, Goto, TypeOK
  <2> QED
    BY <1>2, <2>1 DEF FindDetail, TypeOK, tables
<1> QED
  BY <1>1, <1>2

LEMMA CreateType ==
    ASSUME TypeOK, NEW r \in Requests, CallMatchesStep(r), Create(r)
    PROVE  TypeOK'
<1> DEFINE c == call[r]
<1>1. CASE ~IsValidDeadline(c.deadlineAt, stamp[r])
  BY <1>1, RefuseType DEF Create, Codes, Refusals
<1>2. CASE IsValidDeadline(c.deadlineAt, stamp[r])
  <2>1. c \in Calls
    BY DEF CallMatchesStep, Create
  <2>2. c.deadlineAt \in Nat
    BY <1>2, <2>1 DEF IsValidDeadline, Calls
  <2>3. NewEvent(c.category, c.user, c.deadlineAt) \in VoteEvent
    BY <2>1, <2>2 DEF NewEvent, VoteEvent, Calls
  <2>4. voteEvents' \in [Events -> VoteEvent \cup {Null}]
    BY <1>2, <2>1, <2>3 DEF Create, TypeOK
  <2> QED
    BY <1>2, <2>4, CommittedType DEF Create, TypeOK
<1> QED
  BY <1>1, <1>2

LEMMA FailType ==
    ASSUME TypeOK, NEW r \in Requests, Fail(r)
    PROVE  TypeOK'
<1>1. InternalError \in Codes
  BY DEF Codes
<1>2. reward' \in [Requests -> Nat \cup {Null}] /\ faults' \in 0 .. MaxFaults
  BY DEF Fail, TypeOK
<1> QED
  BY <1>1, <1>2, AnswerType DEF Fail, TypeOK, Codes, tables

\* The statements of a vote before its commit.
LEMMA VoteStatementType ==
    ASSUME TypeOK, NEW r \in Requests, CallMatchesStep(r),
           \/ VoteFindDetail(r) \/ Debit(r) \/ ReferenceEvent(r)
           \/ InsertKey(r) \/ ReferenceUser(r) \/ Count(r)
    PROVE  TypeOK'
<1>1. CASE VoteFindDetail(r)
  BY <1>1, RefusalsAreCodes, FindDetailType DEF VoteFindDetail, TypeOK, Steps
<1>2. CASE Debit(r)
  <2>1. CASE Refuse(r, "insufficient_vote_token")
    BY <2>1, RefuseType DEF Codes, Refusals
  <2>2. CASE ~Refuse(r, "insufficient_vote_token")
    <3>1. Granted(r) /\ Goto(r, "eventKey")
      BY <1>2, <2>2 DEF Debit
    <3>2. createdAt' = [createdAt EXCEPT ![r] = now]
      BY <1>2, <2>2 DEF Debit
    <3>3. createdAt' \in [Requests -> Nat]
      BY <3>2 DEF TypeOK
    <3> QED
      BY <1>2, <2>2, <3>1, <3>3, GrantedType DEF Debit, TypeOK, Steps, tables
  <2> QED
    BY <2>1, <2>2
<1>3. CASE ReferenceEvent(r)
  BY <1>3, GrantedType DEF ReferenceEvent, TypeOK, Steps, tables, locals
<1>4. CASE InsertKey(r)
  <2>1. CASE DuplicateKey(call[r])
    BY <1>4, <2>1, RefuseType DEF InsertKey, Codes, Refusals
  <2>2. CASE ~DuplicateKey(call[r])
    BY <1>4, <2>2, GrantedType DEF InsertKey, TypeOK, Steps, tables, locals
  <2> QED
    BY <2>1, <2>2
<1>5. CASE ReferenceUser(r)
  <2>1. stamp' \in [Requests -> Nat]
    BY <1>5 DEF ReferenceUser, TypeOK
  <2> QED
    BY <1>5, <2>1, GrantedType DEF ReferenceUser, TypeOK, Steps, tables
<1>6. CASE Count(r)
  <2> DEFINE accepted == AcceptsVotes(voteEvents[call[r].event], stamp[r])
  <2>1. CASE ~accepted
    BY <1>6, <2>1, RefuseType DEF Count, Codes, Refusals
  <2>2. CASE accepted
    BY <1>6, <2>2, GrantedType DEF Count, TypeOK, Steps, tables, locals
  <2> QED
    BY <2>1, <2>2
<1> QED
  BY <1>1, <1>2, <1>3, <1>4, <1>5, <1>6

\* The columns that a vote leaves alone.
KeepsColumns(new, old) ==
    /\ new.category = old.category /\ new.organizerUserId = old.organizerUserId
    /\ new.deadlineAt = old.deadlineAt
    /\ new.bettingResultOption = old.bettingResultOption
    /\ new.bettingResultConfirmedAt = old.bettingResultConfirmedAt

\* Counting a vote leaves a row of vote_events, whose other columns are kept.
LEMMA AggregateType ==
    ASSUME NEW row \in VoteEvent, NEW option \in Options, NEW tokenAmount \in Nat
    PROVE  /\ AggregateUpdate(row, option, tokenAmount) \in VoteEvent
           /\ KeepsColumns(AggregateUpdate(row, option, tokenAmount), row)
<1> DEFINE counts == [row.participantCount EXCEPT ![option] = @ + 1]
           stakes == [row.tokenAmount EXCEPT ![option] = @ + tokenAmount]
           count  == row.totalParticipantCount + 1
           stake  == row.totalTokenAmount + tokenAmount
           new    == [row EXCEPT !.participantCount = counts,
                                 !.totalParticipantCount = count,
                                 !.tokenAmount = stakes,
                                 !.totalTokenAmount = stake]
<1>1. /\ counts \in [Options -> Nat] /\ stakes \in [Options -> Nat]
      /\ count \in Nat /\ stake \in Nat
  BY DEF VoteEvent
<1>2. AggregateUpdate(row, option, tokenAmount) = new
  BY DEF AggregateUpdate, VoteEvent
<1> HIDE DEF counts, stakes, count, stake
<1>3. new \in VoteEvent /\ KeepsColumns(new, row)
  BY <1>1 DEF VoteEvent, KeepsColumns
<1> QED
  BY <1>2, <1>3

LEMMA CommitVoteType ==
    ASSUME TypeOK, NEW r \in Requests, CallMatchesStep(r), EventFound(r),
           StakeReserved(r), CommitVote(r)
    PROVE  TypeOK'
<1> DEFINE c == call[r]
<1>1. c \in Calls /\ voteEvents[c.event] # Null
  BY DEF CallMatchesStep, EventFound, CommitVote
<1>2. c.user \in Users /\ c.event \in Events /\ c.option \in Options
      /\ c.tokenAmount \in Nat
  BY <1>1 DEF Calls
<1>3. voteToken[c.user] \in Nat /\ voteToken[c.user] >= c.tokenAmount
  BY <1>2 DEF StakeReserved, EventFound, CommitVote, VoteSteps, TypeOK
<1>4. voteToken' \in [Users -> Nat]
  BY <1>2, <1>3 DEF CommitVote, TypeOK
<1>5. participations' \in [Requests -> Participation \cup {Null}]
  <2>1. createdAt[r] \in Nat
    BY DEF TypeOK
  <2> QED
    BY <1>2, <2>1 DEF CommitVote, TypeOK, Participation
<1>6. voteEvents' \in [Events -> VoteEvent \cup {Null}]
  <2>1. voteEvents[c.event] \in VoteEvent
    BY <1>1, <1>2 DEF TypeOK
  <2>2. AggregateUpdate(voteEvents[c.event], c.option, c.tokenAmount) \in VoteEvent
    BY <1>2, <2>1, AggregateType
  <2> QED
    BY <1>2, <2>2 DEF CommitVote, TypeOK
<1> QED
  BY <1>4, <1>5, <1>6, CommittedType DEF CommitVote

\* The steps of a confirmation.
LEMMA ConfirmStepType ==
    ASSUME TypeOK, NEW r \in Requests, CallMatchesStep(r), EventFound(r),
           ConfirmStep(r)
    PROVE  TypeOK'
<1>1. CASE ConfirmFindDetail(r)
  <2>1. FindDetail(r, ConfirmRefusal(call[r]), "findEvent", now)
    BY <1>1 DEF ConfirmFindDetail
  <2>2. now \in Nat /\ "findEvent" \in Steps
    BY DEF TypeOK, Steps
  <2> QED
    BY <2>1, <2>2, RefusalsAreCodes, FindDetailType
<1>2. CASE ConfirmFindEvent(r)
  <2>1. CASE ConfirmRefusal(call[r]) # OK
    BY <1>2, <2>1, RefusalsAreCodes, RefuseType DEF ConfirmFindEvent
  <2>2. CASE ConfirmRefusal(call[r]) = OK
    BY <1>2, <2>2, GrantedType DEF ConfirmFindEvent, TypeOK, Steps, tables, locals
  <2> QED
    BY <2>1, <2>2
<1>3. CASE CommitConfirm(r) /\ ~AcceptsResult(voteEvents[call[r].event], call[r].user)
  BY <1>3, RefuseType DEF CommitConfirm, Codes, Refusals
<1>4. CASE CommitConfirm(r) /\ AcceptsResult(voteEvents[call[r].event], call[r].user)
  <2> DEFINE c == call[r]
  <2>1. c \in Calls /\ voteEvents[c.event] # Null
    BY <1>4 DEF CallMatchesStep, EventFound, CommitConfirm
  <2>2. c.event \in Events /\ c.option \in Options
    BY <2>1 DEF Calls
  <2>3. voteEvents[c.event] \in VoteEvent /\ stamp[r] \in Nat
    BY <2>1, <2>2 DEF TypeOK
  <2>4. voteEvents' \in [Events -> VoteEvent \cup {Null}]
    BY <1>4, <2>2, <2>3 DEF CommitConfirm, TypeOK, VoteEvent
  <2> QED
    BY <1>4, <2>4, CommittedType DEF CommitConfirm, TypeOK
<1> QED
  BY <1>1, <1>2, <1>3, <1>4 DEF ConfirmStep

\* A winner's payout is a number of tokens: the winners staked something.
LEMMA RewardType ==
    ASSUME TypeOK, ParticipationsFit, ResultsMatchDates,
           NEW e \in Events, NEW i \in Inserted, participations[i].event = e,
           participations[i].selectedOption = voteEvents[e].bettingResultOption
    PROVE  Payout(e, i) \in Nat
<1> DEFINE bets == ParticipationsOf(e)
           o == voteEvents[e].bettingResultOption
<1>1. \A j \in Inserted : participations[j] \in Participation
  BY DEF TypeOK, Inserted
<1>2. DOMAIN bets \subseteq Requests /\ IsFiniteSet(DOMAIN bets)
  BY FS_Subset, VoteEventsAssumption DEF ParticipationsOf, Inserted
<1>3. \A j \in DOMAIN bets : bets[j] = participations[j] /\ j \in Inserted
  BY DEF ParticipationsOf
<1>4. \A j \in DOMAIN bets : bets[j].tokenAmount \in Nat
  BY <1>1, <1>3 DEF Participation
<1>5. i \in DOMAIN bets
  BY DEF ParticipationsOf
<1>6. i \in Winners(bets, o)
  BY <1>3, <1>5 DEF Winners
<1>7. o # Null
  BY <1>1, NullAssumption DEF Participation
<1>8. bets[i].tokenAmount > 0
  BY <1>3, <1>5, <1>7 DEF ParticipationsFit, ResultsMatchDates, Created
<1> HIDE DEF bets, o
<1>9. calculateBettingPayouts(bets, o)[i] \in Nat
  BY <1>2, <1>4, <1>6, <1>8, PayoutType
<1> QED
  BY <1>9 DEF Payout, bets, o

LEMMA ClaimStepType ==
    ASSUME TypeOK, ParticipationsFit, ResultsMatchDates, NEW r \in Requests,
           CallMatchesStep(r), EventFound(r), RewardReserved(r), ClaimStep(r)
    PROVE  TypeOK'
<1>1. CASE ClaimFindDetail(r)
  <2>1. FindDetail(r, ClaimRefusal(call[r]), "findEvent", now)
    BY <1>1 DEF ClaimFindDetail
  <2>2. now \in Nat /\ "findEvent" \in Steps
    BY DEF TypeOK, Steps
  <2> QED
    BY <2>1, <2>2, RefusalsAreCodes, FindDetailType
<1>2. CASE ClaimFindEvent(r)
  <2>1. CASE Refuse(r, "betting_reward_not_allowed")
    BY <2>1, RefuseType DEF Codes, Refusals
  <2>2. CASE Refuse(r, "betting_result_not_confirmed")
    BY <2>2, RefuseType DEF Codes, Refusals
  <2>3. CASE /\ Granted(r) /\ Goto(r, "findParticipation")
             /\ UNCHANGED <<tables, now, locals, answer, faults>>
    BY <2>3, GrantedType DEF TypeOK, Steps, tables, locals
  <2> QED
    BY <1>2, <2>1, <2>2, <2>3 DEF ClaimFindEvent
<1>3. CASE ClaimFindParticipation(r)
  <2> DEFINE own    == OwnParticipations(call[r].event, call[r].user)
             i      == CHOOSE j \in own : TRUE
             earned == EarnedTokenAmount(call[r].event, i)
  <2>1. CASE own = {}
    BY <1>3, <2>1, RefuseType DEF ClaimFindParticipation, Codes, Refusals
  <2>2. CASE own # {}
    <3>1. i \in Inserted /\ participations[i].event = call[r].event
      BY <2>2 DEF OwnParticipations
    <3>2. call[r].event \in Events
      BY <1>3 DEF CallMatchesStep, ClaimFindParticipation, Calls
    <3>3. earned \in Nat \cup {Null}
      BY <3>1, <3>2, RewardType DEF EarnedTokenAmount
    <3>4. reward' \in [Requests -> Nat \cup {Null}]
      BY <1>3, <2>2, <3>3 DEF ClaimFindParticipation, TypeOK
    <3>5. Granted(r) /\ \E next \in {"credit", "commit"} : Goto(r, next)
      BY <1>3, <2>2 DEF ClaimFindParticipation
    <3>6. /\ held' \in [Requests -> SUBSET Locks]
          /\ pc' \in [Requests -> Steps]
      BY <3>5, GrantedType DEF Steps
    <3> QED
      BY <1>3, <2>2, <3>4, <3>6 DEF ClaimFindParticipation, TypeOK, tables
  <2> QED
    BY <2>1, <2>2
<1>4. CASE Credit(r)
  BY <1>4, GrantedType DEF Credit, TypeOK, Steps, tables, locals
<1>5. CASE CommitReward(r)
  <2> DEFINE c == call[r]
  <2>1. c.user \in Users /\ reward[r] \in Nat
    BY <1>5 DEF CallMatchesStep, RewardReserved, CommitReward, Calls
  <2>2. voteToken' \in [Users -> Nat]
    BY <1>5, <2>1 DEF CommitReward, TypeOK
  <2>3. ASSUME NEW i \in Requests
        PROVE  participations'[i] \in Participation \cup {Null}
    <3>1. CASE i \in OwnParticipations(c.event, c.user)
      <4>1. participations[i] \in Participation /\ stamp[r] \in Nat
        BY <3>1 DEF OwnParticipations, Inserted, TypeOK
      <4>2. participations'[i] =
               [participations[i] EXCEPT !.bettingRewardClaimedAt = stamp[r]]
        BY <1>5, <3>1 DEF CommitReward
      <4> QED
        BY <4>1, <4>2 DEF Participation
    <3>2. CASE i \notin OwnParticipations(c.event, c.user)
      BY <1>5, <3>2 DEF CommitReward, TypeOK
    <3> QED
      BY <3>1, <3>2
  <2>4. participations' \in [Requests -> Participation \cup {Null}]
    BY <1>5, <2>3 DEF CommitReward
  <2> QED
    BY <1>5, <2>2, <2>4, CommittedType DEF CommitReward, TypeOK
<1>6. CASE CommitClaim(r)
  BY <1>6, CommittedType DEF CommitClaim, TypeOK, tables
<1> QED
  BY <1>1, <1>2, <1>3, <1>4, <1>5, <1>6 DEF ClaimStep

\* No step breaks the type invariant.
LEMMA TypeStep ==
    ASSUME IInv, [Next]_vars
    PROVE  TypeOK'
<1> USE DEF IInv, RequestOK
<1>1. CASE \E r \in Requests : Receive(r) \/ Step(r) \/ Fail(r)
  <2>1. PICK r \in Requests : Receive(r) \/ Step(r) \/ Fail(r)
    BY <1>1
  <2>2. CASE Receive(r)
    BY <2>2, ReceiveType
  <2>3. CASE Create(r)
    BY <2>3, CreateType
  <2>4. CASE VoteStep(r)
    BY <2>4, VoteStatementType, CommitVoteType DEF VoteStep
  <2>5. CASE ConfirmStep(r)
    BY <2>5, ConfirmStepType
  <2>6. CASE ClaimStep(r)
    BY <2>6, ClaimStepType
  <2>7. CASE RollBackVictim(r)
    BY <2>7, RefuseType DEF RollBackVictim, Codes
  <2>8. CASE Fail(r)
    BY <2>8, FailType
  <2> QED
    BY <2>1, <2>2, <2>3, <2>4, <2>5, <2>6, <2>7, <2>8 DEF Step
<1>2. CASE Tick
  BY <1>2 DEF Tick, TypeOK, tables, locals
<1>3. CASE Finished \/ UNCHANGED vars
  BY <1>3 DEF Finished, TypeOK, vars
<1> QED
  BY <1>1, <1>2, <1>3 DEF Next

HIDE Bounds

-----------------------------------------------------------------------------
(* The steps of a request and what they write                                *)

\* The steps of a request inside its transaction.
InTransaction == Steps \ {"idle", "insertEvent", "findDetail", "done"}

\* Nothing of request t but the tables it reads can have changed.
LocalsKept(t) ==
    /\ pc'[t] = pc[t] /\ call'[t] = call[t] /\ stamp'[t] = stamp[t]
    /\ createdAt'[t] = createdAt[t] /\ reward'[t] = reward[t]
    /\ held'[t] = held[t]

\* What a step writes to the tables: nothing, or one of the four commits.
CreateWrites(c) ==
    /\ voteEvents[c.event] = Null /\ c.deadlineAt \in Nat
    /\ voteEvents' = [voteEvents EXCEPT ![c.event] =
                         NewEvent(c.category, c.user, c.deadlineAt)]
    /\ UNCHANGED <<voteToken, participations>>

Writes(r) ==
    \/ UNCHANGED tables
    \/ Create(r) /\ CreateWrites(call[r]) /\ call[r] \in Calls
    \/ CommitVote(r)
    \/ CommitConfirm(r)
    \/ CommitReward(r)

\* A step of r for a request that has arrived, or its loss.
RequestStep(r) == Receive(r) \/ Step(r) \/ Fail(r)

-----------------------------------------------------------------------------
(* What a step leaves alone *)

LEMMA AnswerKeeps ==
    ASSUME TypeOK, NEW r \in Requests, NEW code, Answer(r, code),
           \/ reward' = [reward EXCEPT ![r] = Null]
           \/ UNCHANGED reward
    PROVE  now' = now /\ \A t \in Requests \ {r} : LocalsKept(t)
BY DEF Answer, Goto, TypeOK, LocalsKept

LEMMA RefuseKeeps ==
    ASSUME TypeOK, NEW r \in Requests, NEW code, Refuse(r, code)
    PROVE  now' = now /\ \A t \in Requests \ {r} : LocalsKept(t)
BY AnswerKeeps DEF Refuse

LEMMA CommittedKeeps ==
    ASSUME TypeOK, NEW r \in Requests, Committed(r)
    PROVE  now' = now /\ \A t \in Requests \ {r} : LocalsKept(t)
BY AnswerKeeps DEF Committed

LEMMA FindDetailKeeps ==
    ASSUME TypeOK, NEW r \in Requests, NEW refusal, NEW next, NEW date,
           FindDetail(r, refusal, next, date)
    PROVE  /\ now' = now /\ \A t \in Requests \ {r} : LocalsKept(t)
           /\ UNCHANGED tables
<1>1. CASE refusal # OK
  BY <1>1, RefuseKeeps DEF FindDetail, Refuse
<1>2. CASE refusal = OK
  BY <1>2 DEF FindDetail, Goto, TypeOK, LocalsKept
<1> QED
  BY <1>1, <1>2

\* A statement whose locks are granted.
LEMMA GrantedKeeps ==
    ASSUME TypeOK, NEW r \in Requests, NEW next, Granted(r), Goto(r, next),
           UNCHANGED call,
           \/ UNCHANGED stamp
           \/ \E date : stamp' = [stamp EXCEPT ![r] = date],
           \/ UNCHANGED createdAt
           \/ \E date : createdAt' = [createdAt EXCEPT ![r] = date],
           \/ UNCHANGED reward
           \/ \E amount : reward' = [reward EXCEPT ![r] = amount]
    PROVE  \A t \in Requests \ {r} : LocalsKept(t)
BY DEF Granted, Goto, TypeOK, LocalsKept

LEMMA ReceiveKeeps ==
    ASSUME TypeOK, NEW r \in Requests, Receive(r)
    PROVE  /\ now' = now /\ \A t \in Requests \ {r} : LocalsKept(t)
           /\ UNCHANGED tables
BY DEF Receive, Goto, TypeOK, LocalsKept

LEMMA CreateKeeps ==
    ASSUME TypeOK, NEW r \in Requests, CallMatchesStep(r), Create(r)
    PROVE  now' = now /\ (\A t \in Requests \ {r} : LocalsKept(t)) /\ Writes(r)
<1>1. CASE Refuse(r, "invalid_vote_event_deadline")
  BY <1>1, RefuseKeeps DEF Refuse, Writes
<1>2. CASE ~Refuse(r, "invalid_vote_event_deadline")
  <2>1. call[r] \in Calls
    BY DEF CallMatchesStep, Create
  <2>2. Committed(r) /\ CreateWrites(call[r])
    BY <1>2, <2>1 DEF Create, CreateWrites, IsValidDeadline, Calls
  <2> QED
    BY <2>1, <2>2, CommittedKeeps DEF Writes
<1> QED
  BY <1>1, <1>2

LEMMA VoteKeeps ==
    ASSUME TypeOK, NEW r \in Requests, VoteStep(r)
    PROVE  now' = now /\ (\A t \in Requests \ {r} : LocalsKept(t)) /\ Writes(r)
<1>1. CASE VoteFindDetail(r)
  BY <1>1, FindDetailKeeps DEF VoteFindDetail, Writes
<1>2. CASE Debit(r)
  BY <1>2, RefuseKeeps, GrantedKeeps DEF Debit, Refuse, Writes, tables
<1>3. CASE ReferenceEvent(r)
  BY <1>3, GrantedKeeps DEF ReferenceEvent, Writes, locals
<1>4. CASE InsertKey(r)
  BY <1>4, RefuseKeeps, GrantedKeeps DEF InsertKey, Refuse, Writes, tables, locals
<1>5. CASE ReferenceUser(r)
  BY <1>5, GrantedKeeps DEF ReferenceUser, Writes
<1>6. CASE Count(r)
  BY <1>6, RefuseKeeps, GrantedKeeps DEF Count, Refuse, Writes, tables, locals
<1>7. CASE CommitVote(r)
  BY <1>7, CommittedKeeps DEF CommitVote, Writes
<1> QED
  BY <1>1, <1>2, <1>3, <1>4, <1>5, <1>6, <1>7 DEF VoteStep

LEMMA ConfirmKeeps ==
    ASSUME TypeOK, NEW r \in Requests, ConfirmStep(r)
    PROVE  now' = now /\ (\A t \in Requests \ {r} : LocalsKept(t)) /\ Writes(r)
<1>1. CASE ConfirmFindDetail(r)
  BY <1>1, FindDetailKeeps DEF ConfirmFindDetail, Writes
<1>2. CASE ConfirmFindEvent(r)
  BY <1>2, RefuseKeeps, GrantedKeeps
     DEF ConfirmFindEvent, Refuse, Writes, tables, locals
<1>3. CASE CommitConfirm(r)
  BY <1>3, CommittedKeeps, RefuseKeeps DEF CommitConfirm, Writes
<1> QED
  BY <1>1, <1>2, <1>3 DEF ConfirmStep

LEMMA ClaimKeeps ==
    ASSUME TypeOK, NEW r \in Requests, ClaimStep(r)
    PROVE  now' = now /\ (\A t \in Requests \ {r} : LocalsKept(t)) /\ Writes(r)
<1>1. CASE ClaimFindDetail(r)
  BY <1>1, FindDetailKeeps DEF ClaimFindDetail, Writes
<1>2. CASE ClaimFindEvent(r)
  BY <1>2, RefuseKeeps, GrantedKeeps
     DEF ClaimFindEvent, Refuse, Writes, tables, locals
<1>3. CASE ClaimFindParticipation(r)
  BY <1>3, RefuseKeeps, GrantedKeeps
     DEF ClaimFindParticipation, Refuse, Writes, tables
<1>4. CASE Credit(r)
  BY <1>4, GrantedKeeps DEF Credit, Writes, locals
<1>5. CASE CommitReward(r)
  BY <1>5, CommittedKeeps DEF CommitReward, Writes
<1>6. CASE CommitClaim(r)
  BY <1>6, CommittedKeeps DEF CommitClaim, Writes
<1> QED
  BY <1>1, <1>2, <1>3, <1>4, <1>5, <1>6 DEF ClaimStep

\* A step of r keeps the locals of the others, and writes only as it commits.
LEMMA StepKeeps ==
    ASSUME TypeOK, NEW r \in Requests, CallMatchesStep(r), RequestStep(r)
    PROVE  now' = now /\ (\A t \in Requests \ {r} : LocalsKept(t)) /\ Writes(r)
<1>1. CASE Receive(r)
  BY <1>1, ReceiveKeeps DEF Writes
<1>2. CASE RollBackVictim(r)
  BY <1>2, RefuseKeeps DEF RollBackVictim, Refuse, Writes
<1>3. CASE Fail(r)
  BY <1>3, AnswerKeeps DEF Fail, Writes
<1> QED
  BY <1>1, <1>2, <1>3, CreateKeeps, VoteKeeps, ConfirmKeeps, ClaimKeeps
     DEF RequestStep, Step

-----------------------------------------------------------------------------
(* Locks *)

\* A step of r lets locks go, or adds those its statement waited for.
LocksStep(r) ==
    \/ held'[r] \subseteq held[r]
    \/ ~Blocked(held, AllWanted, r) /\ held'[r] = held[r] \cup Wanted(r)

LEMMA AnswerUnlocks ==
    ASSUME TypeOK, NEW r \in Requests, NEW code, Answer(r, code)
    PROVE  LocksStep(r)
BY DEF Answer, LocksStep, TypeOK

LEMMA GrantedLocks ==
    ASSUME TypeOK, NEW r \in Requests, Granted(r)
    PROVE  LocksStep(r)
BY DEF Granted, LocksStep, TypeOK

LEMMA StepLocks ==
    ASSUME TypeOK, NEW r \in Requests, RequestStep(r)
    PROVE  LocksStep(r)
<1> USE AnswerUnlocks, GrantedLocks DEF Refuse, Committed
<1>1. CASE Receive(r) \/ RollBackVictim(r) \/ Fail(r)
  BY <1>1 DEF Receive, RollBackVictim, Fail, LocksStep
<1>2. CASE Create(r)
  BY <1>2 DEF Create
<1>3. ASSUME NEW refusal, NEW next, NEW date, FindDetail(r, refusal, next, date)
      PROVE  LocksStep(r)
  BY <1>3 DEF FindDetail, LocksStep
<1>4. CASE VoteStep(r)
  BY <1>3, <1>4 DEF VoteStep, VoteFindDetail, Debit, ReferenceEvent, InsertKey,
                    ReferenceUser, Count, CommitVote
<1>5. CASE ConfirmStep(r)
  BY <1>3, <1>5 DEF ConfirmStep, ConfirmFindDetail, ConfirmFindEvent, CommitConfirm
<1>6. CASE ClaimStep(r)
  BY <1>3, <1>6 DEF ClaimStep, ClaimFindDetail, ClaimFindEvent,
                    ClaimFindParticipation, Credit, CommitReward, CommitClaim
<1> QED
  BY <1>1, <1>2, <1>4, <1>5, <1>6 DEF RequestStep, Step

LEMMA LocksExcludeStep ==
    ASSUME TypeOK, LocksExclude, NEW r \in Requests, CallMatchesStep(r),
           RequestStep(r)
    PROVE  LocksExclude'
<1>1. \A t \in Requests \ {r} : held'[t] = held[t]
  BY StepKeeps DEF LocalsKept
<1>2. ASSUME NEW t \in Requests \ {r}, NEW k \in held'[r], NEW l \in held[t]
      PROVE  ~Conflict(k, l) /\ ~Conflict(l, k)
  <2>1. Conflict(k, l) <=> Conflict(l, k)
    BY DEF Conflict
  <2>2. CASE k \in held[r]
    BY <2>1, <2>2 DEF LocksExclude
  <2>3. CASE k \notin held[r]
    <3>1. ~Blocked(held, AllWanted, r) /\ k \in Wanted(r)
      BY <2>3, StepLocks DEF LocksStep
    <3>2. k \in AllWanted[r] /\ t \in DOMAIN held
      BY <3>1 DEF AllWanted, TypeOK
    <3> QED
      BY <2>1, <3>1, <3>2 DEF Blocked, WaitsFor
  <2> QED
    BY <2>2, <2>3
<1> QED
  BY <1>1, <1>2 DEF LocksExclude

\* A row locked exclusively by one request is not locked by another.
LEMMA Exclusion ==
    ASSUME LocksExclude, NEW r \in Requests, NEW t \in Requests, r # t,
           NEW row, Exclusive(row) \in held[r]
    PROVE  Exclusive(row) \notin held[t]
BY DEF LocksExclude, Exclusive, Conflict

-----------------------------------------------------------------------------
(* A request keeps the promises of the others *)

\* What another's step leaves to request t of what it has found in the tables.
ViewKept(t) ==
    \A e \in Events, u \in Users :
        (pc[t] \in InTransaction /\ call[t].event = e /\ call[t].user = u) =>
            /\ voteEvents'[e] # Null
            /\ voteEvents'[e].category = voteEvents[e].category
            /\ Exclusive(EventRow(e)) \in held[t] =>
                  /\ voteEvents'[e] = voteEvents[e]
                  /\ ParticipationsOf(e)' = ParticipationsOf(e)
            /\ Exclusive(UserRow(u)) \in held[t] => voteToken'[u] >= voteToken[u]
            /\ Exclusive(ParticipationKey(e, u)) \in held[t] =>
                  OwnParticipations(e, u)' = OwnParticipations(e, u)

LEMMA CreateView ==
    ASSUME IInv, NEW r \in Requests, NEW t \in Requests, r # t,
           CreateWrites(call[r]), call[r] \in Calls
    PROVE  ViewKept(t)
<1> SUFFICES ASSUME NEW e \in Events, NEW u \in Users, pc[t] \in InTransaction,
                    call[t].event = e, call[t].user = u
             PROVE  /\ voteEvents[e] # Null /\ voteEvents'[e] = voteEvents[e]
                    /\ voteToken' = voteToken /\ participations' = participations
                    /\ voteToken[u] \in Nat
  BY DEF ViewKept, ParticipationsOf, OwnParticipations, Inserted
<1>1. voteEvents[e] # Null
  BY DEF IInv, RequestOK, EventFound, InTransaction
<1>2. call[r].event \in Events /\ voteEvents[call[r].event] = Null
  BY DEF CreateWrites, Calls
<1> QED
  BY <1>1, <1>2 DEF CreateWrites, IInv, TypeOK

\* What a vote knows as it commits.
LEMMA VoteAtCommit ==
    ASSUME IInv, NEW r \in Requests, CommitVote(r)
    PROVE  LET c == call[r]
           IN  /\ c \in Calls /\ r \notin Inserted
               /\ voteEvents[c.event] \in VoteEvent
               /\ AcceptsVotes(voteEvents[c.event], stamp[r])
               /\ Exclusive(EventRow(c.event)) \in held[r]
               /\ Exclusive(ParticipationKey(c.event, c.user)) \in held[r]
               /\ OwnParticipations(c.event, c.user) = {}
               /\ IsBetting(c.event) <=> c.tokenAmount > 0
               /\ IsBetting(c.event) => Exclusive(UserRow(c.user)) \in held[r]
<1> USE DEF IInv, RequestOK, CommitVote
<1>1. call[r] \in Calls
  BY DEF CallMatchesStep
<1>2. r \notin Inserted
  BY DEF ParticipationsFit
<1>3. voteEvents[call[r].event] # Null
      /\ (IsBetting(call[r].event) <=> call[r].tokenAmount > 0)
  BY DEF EventFound
<1>4. voteEvents[call[r].event] \in VoteEvent
  BY <1>1, <1>3 DEF TypeOK, Calls
<1> QED
  BY <1>1, <1>2, <1>3, <1>4
     DEF StakeReserved, VoteSteps, KeyReserved, EventReserved

LEMMA CommitVoteView ==
    ASSUME IInv, NEW r \in Requests, NEW t \in Requests, r # t, CommitVote(r)
    PROVE  ViewKept(t)
<1> DEFINE c == call[r]
<1> SUFFICES ASSUME NEW e \in Events, NEW u \in Users, pc[t] \in InTransaction,
                    call[t].event = e, call[t].user = u
             PROVE  /\ voteEvents'[e] # Null
                    /\ voteEvents'[e].category = voteEvents[e].category
                    /\ Exclusive(EventRow(e)) \in held[t] =>
                          /\ voteEvents'[e] = voteEvents[e]
                          /\ ParticipationsOf(e)' = ParticipationsOf(e)
                    /\ Exclusive(UserRow(u)) \in held[t] =>
                          voteToken'[u] >= voteToken[u]
                    /\ Exclusive(ParticipationKey(e, u)) \in held[t] =>
                          OwnParticipations(e, u)' = OwnParticipations(e, u)
  BY DEF ViewKept
<1>1. /\ c \in Calls /\ r \notin Inserted /\ c.event \in Events
      /\ c.option \in Options /\ c.tokenAmount \in Nat /\ c.user \in Users
  BY VoteAtCommit DEF Calls
<1>2. voteEvents[c.event] \in VoteEvent
  BY VoteAtCommit
<1>3. voteEvents[e] # Null
  BY DEF IInv, RequestOK, EventFound, InTransaction
<1>4. /\ AggregateUpdate(voteEvents[c.event], c.option, c.tokenAmount) \in VoteEvent
      /\ AggregateUpdate(voteEvents[c.event], c.option, c.tokenAmount).category
           = voteEvents[c.event].category
  BY <1>1, <1>2, AggregateType DEF KeepsColumns
<1>5. voteEvents'[e] # Null /\ voteEvents'[e].category = voteEvents[e].category
  BY <1>1, <1>3, <1>4, NullAssumption DEF CommitVote, IInv, TypeOK
<1>6. /\ \A i \in Requests \ {r} : participations'[i] = participations[i]
      /\ Inserted' \subseteq Inserted \cup {r} /\ Inserted \subseteq Inserted'
      /\ participations'[r].event = c.event /\ participations'[r].user = c.user
  BY <1>1 DEF CommitVote, IInv, TypeOK, Inserted
<1>7. ASSUME Exclusive(EventRow(e)) \in held[t]
      PROVE  voteEvents'[e] = voteEvents[e]
             /\ ParticipationsOf(e)' = ParticipationsOf(e)
  <2>1. e # c.event
    BY <1>7, VoteAtCommit, Exclusion DEF IInv
  <2>2. voteEvents'[e] = voteEvents[e]
    BY <2>1 DEF CommitVote, IInv, TypeOK
  <2>3. {j \in Inserted : participations[j].event = e}'
          = {j \in Inserted : participations[j].event = e}
    BY <1>1, <1>6, <2>1 DEF Inserted
  <2> QED
    BY <1>1, <1>6, <2>2, <2>3 DEF ParticipationsOf, Inserted
<1>8. ASSUME Exclusive(UserRow(u)) \in held[t]
      PROVE  voteToken'[u] >= voteToken[u]
  <2>1. c.user = u => c.tokenAmount = 0
    BY <1>1, <1>8, VoteAtCommit, Exclusion DEF IInv
  <2> QED
    BY <1>1, <2>1 DEF CommitVote, IInv, TypeOK
<1>9. ASSUME Exclusive(ParticipationKey(e, u)) \in held[t]
      PROVE  OwnParticipations(e, u)' = OwnParticipations(e, u)
  <2>1. ~(e = c.event /\ u = c.user)
    BY <1>9, VoteAtCommit, Exclusion DEF IInv
  <2> QED
    BY <1>1, <1>6, <2>1 DEF OwnParticipations, Inserted
<1> QED
  BY <1>5, <1>7, <1>8, <1>9

\* What a confirmation knows as it commits.
LEMMA ConfirmAtCommit ==
    ASSUME IInv, NEW r \in Requests, CommitConfirm(r)
    PROVE  LET c == call[r]
           IN  /\ c \in Calls /\ c.event \in Events
               /\ voteEvents[c.event] \in VoteEvent
               /\ ConfirmRefusal(c) = OK
               /\ Exclusive(EventRow(c.event)) \in held[r]
<1> USE DEF IInv, RequestOK
<1>1. call[r] \in Calls /\ call[r].event \in Events
  BY DEF CallMatchesStep, CommitConfirm, Calls
<1>2. voteEvents[call[r].event] # Null
  BY DEF EventFound, CommitConfirm
<1> QED
  BY <1>1, <1>2 DEF EventReserved, CommitConfirm, TypeOK

\* The where clause of its update finds the row it has locked.
LEMMA ConfirmSets ==
    ASSUME IInv, NEW r \in Requests, CommitConfirm(r)
    PROVE  /\ voteEvents' = [voteEvents EXCEPT
                 ![call[r].event].bettingResultOption = call[r].option,
                 ![call[r].event].bettingResultConfirmedAt = stamp[r]]
           /\ UNCHANGED <<voteToken, participations>>
           /\ Committed(r)
<1>1. AcceptsResult(voteEvents[call[r].event], call[r].user)
  <2>1. ConfirmRefusal(call[r]) = OK
    BY ConfirmAtCommit
  <2> QED
    BY <2>1 DEF ConfirmRefusal, AcceptsResult, OK
<1> QED
  BY <1>1 DEF CommitConfirm

LEMMA CommitConfirmView ==
    ASSUME IInv, NEW r \in Requests, NEW t \in Requests, r # t, CommitConfirm(r)
    PROVE  ViewKept(t)
<1> DEFINE c == call[r]
<1> SUFFICES ASSUME NEW e \in Events, NEW u \in Users, pc[t] \in InTransaction,
                    call[t].event = e, call[t].user = u
             PROVE  /\ voteEvents'[e] # Null
                    /\ voteEvents'[e].category = voteEvents[e].category
                    /\ Exclusive(EventRow(e)) \in held[t] =>
                          voteEvents'[e] = voteEvents[e]
                    /\ voteToken' = voteToken /\ voteToken[u] \in Nat
                    /\ participations' = participations
  BY DEF ViewKept, ParticipationsOf, OwnParticipations, Inserted
<1>1. c.event \in Events /\ voteEvents[c.event] \in VoteEvent
      /\ c.option \in Options /\ stamp[r] \in Nat
  BY ConfirmAtCommit DEF Calls, IInv, TypeOK
<1>2. voteEvents[e] # Null
  BY DEF IInv, RequestOK, EventFound, InTransaction
<1>3. /\ voteEvents'[c.event] \in VoteEvent
      /\ voteEvents'[c.event].category = voteEvents[c.event].category
      /\ e # c.event => voteEvents'[e] = voteEvents[e]
  <2>1. voteEvents' = [voteEvents EXCEPT
          ![call[r].event].bettingResultOption = call[r].option,
          ![call[r].event].bettingResultConfirmedAt = stamp[r]]
    BY ConfirmSets
  <2> QED
    BY <1>1, <2>1 DEF IInv, TypeOK, VoteEvent
<1>4. voteEvents'[e] # Null /\ voteEvents'[e].category = voteEvents[e].category
  BY <1>2, <1>3, NullAssumption
<1>5. Exclusive(EventRow(e)) \in held[t] => e # c.event
  BY ConfirmAtCommit, Exclusion DEF IInv
<1> QED
  BY <1>3, <1>4, <1>5, ConfirmSets DEF IInv, TypeOK

\* What a claim knows as it commits its reward.
LEMMA RewardAtCommit ==
    ASSUME IInv, NEW r \in Requests, CommitReward(r)
    PROVE  LET c == call[r]
           IN  /\ c \in Calls /\ reward[r] \in Nat
               /\ Exclusive(EventRow(c.event)) \in held[r]
               /\ Exclusive(UserRow(c.user)) \in held[r]
BY DEF IInv, RequestOK, CommitReward, CallMatchesStep, EventReserved,
       RewardReserved, ClaimSteps

\* The participations that a reward's commit marks keep everything but the
\* date they were claimed at.
LEMMA CommitRewardMarks ==
    ASSUME IInv, NEW r \in Requests, CommitReward(r)
    PROVE  LET c   == call[r]
               own == OwnParticipations(c.event, c.user)
           IN  /\ Inserted' = Inserted
               /\ \A i \in Inserted \ own : participations'[i] = participations[i]
               /\ \A i \in Inserted :
                    /\ participations'[i] \in Participation
                    /\ participations'[i].event = participations[i].event
                    /\ participations'[i].user = participations[i].user
                    /\ participations'[i].selectedOption
                         = participations[i].selectedOption
                    /\ participations'[i].tokenAmount = participations[i].tokenAmount
                    /\ participations'[i].createdAt = participations[i].createdAt
<1> DEFINE own == OwnParticipations(call[r].event, call[r].user)
<1>1. \A i \in Requests \ own : participations'[i] = participations[i]
  BY DEF CommitReward
<1>2. stamp[r] \in Nat /\ \A i \in Inserted : participations[i] \in Participation
  BY DEF IInv, TypeOK, Inserted
<1>3. own \subseteq Inserted
  BY DEF OwnParticipations
<1>4. ASSUME NEW i \in own
      PROVE  participations'[i] =
               [participations[i] EXCEPT !.bettingRewardClaimedAt = stamp[r]]
  BY <1>3 DEF CommitReward, Inserted
<1>5. ASSUME NEW i \in Inserted
      PROVE  /\ participations'[i] \in Participation
             /\ participations'[i].event = participations[i].event
             /\ participations'[i].user = participations[i].user
             /\ participations'[i].selectedOption = participations[i].selectedOption
             /\ participations'[i].tokenAmount = participations[i].tokenAmount
             /\ participations'[i].createdAt = participations[i].createdAt
  <2>1. CASE i \in own
    BY <1>2, <1>4, <2>1 DEF Participation
  <2>2. CASE i \notin own
    BY <1>1, <1>2, <2>2 DEF Inserted
  <2> QED
    BY <2>1, <2>2
<1>6. Inserted' = Inserted
  BY <1>1, <1>3, <1>5, NullAssumption DEF Inserted
<1> HIDE DEF own
<1>7. \A i \in Inserted \ own : participations'[i] = participations[i]
  BY <1>1 DEF Inserted
<1> QED
  BY <1>5, <1>6, <1>7 DEF own

LEMMA CommitRewardView ==
    ASSUME IInv, NEW r \in Requests, NEW t \in Requests, r # t, CommitReward(r)
    PROVE  ViewKept(t)
<1> DEFINE c == call[r]
<1> SUFFICES ASSUME NEW e \in Events, NEW u \in Users, pc[t] \in InTransaction,
                    call[t].event = e, call[t].user = u
             PROVE  /\ voteEvents[e] # Null /\ voteEvents' = voteEvents
                    /\ Exclusive(EventRow(e)) \in held[t] =>
                          ParticipationsOf(e)' = ParticipationsOf(e)
                    /\ voteToken'[u] >= voteToken[u]
                    /\ OwnParticipations(e, u)' = OwnParticipations(e, u)
  BY DEF ViewKept
<1>1. voteEvents[e] # Null /\ voteEvents' = voteEvents
  BY DEF IInv, RequestOK, EventFound, InTransaction, CommitReward
<1>2. Inserted' = Inserted /\ \A i \in Inserted :
          /\ participations'[i].event = participations[i].event
          /\ participations'[i].user = participations[i].user
  BY CommitRewardMarks
<1>3. ASSUME Exclusive(EventRow(e)) \in held[t]
      PROVE  ParticipationsOf(e)' = ParticipationsOf(e)
  <2>1. e # c.event
    BY <1>3, RewardAtCommit, Exclusion DEF IInv
  <2>2. {j \in Inserted : participations[j].event = e}'
          = {j \in Inserted : participations[j].event = e}
    BY <1>2
  <2>3. \A i \in Inserted : participations[i].event = e =>
            participations'[i] = participations[i]
    BY <2>1, CommitRewardMarks DEF OwnParticipations
  <2> QED
    BY <2>2, <2>3 DEF ParticipationsOf
<1>4. voteToken'[u] >= voteToken[u]
  <2>1. reward[r] \in Nat /\ voteToken \in [Users -> Nat]
    BY RewardAtCommit DEF IInv, TypeOK
  <2>2. voteToken' = [voteToken EXCEPT ![c.user] = @ + reward[r]]
    BY DEF CommitReward
  <2> QED
    BY <2>1, <2>2
<1>5. OwnParticipations(e, u)' = OwnParticipations(e, u)
  BY <1>2 DEF OwnParticipations
<1> QED
  BY <1>1, <1>3, <1>4, <1>5

LEMMA WritesView ==
    ASSUME IInv, NEW r \in Requests, NEW t \in Requests, r # t, Writes(r)
    PROVE  ViewKept(t)
<1>1. CASE UNCHANGED tables
  BY <1>1 DEF tables, ViewKept, ParticipationsOf, OwnParticipations, Inserted,
              IInv, TypeOK, RequestOK, EventFound, InTransaction
<1> QED
  BY <1>1, CreateView, CommitVoteView, CommitConfirmView, CommitRewardView
     DEF Writes

\* What a request relies on survives as long as its view of the tables does.
LEMMA PromiseKept ==
    ASSUME TypeOK, NEW t \in Requests, RequestOK(t), LocalsKept(t), ViewKept(t),
           now' >= now, TypeOK'
    PROVE  RequestOK(t)'
<1> DEFINE e == call[t].event
           u == call[t].user
<1>1. CallMatchesStep(t)' /\ DatesInOrder(t)'
  <2>1. stamp[t] \in Nat /\ createdAt[t] \in Nat /\ now \in Nat /\ now' \in Nat
    BY DEF TypeOK
  <2> QED
    BY <2>1 DEF RequestOK, CallMatchesStep, DatesInOrder, LocalsKept
<1>2. CASE pc[t] \notin InTransaction
  BY <1>1, <1>2 DEF RequestOK, LocalsKept, InTransaction, EventFound, StakeReserved,
     KeyReserved, EventReserved, RewardReserved, VoteSteps, ClaimSteps, TypeOK
<1>3. CASE pc[t] \in InTransaction
  <2>1. /\ e \in Events /\ u \in Users /\ voteEvents[e] # Null
        /\ call[t] \in Calls
    BY <1>3 DEF RequestOK, CallMatchesStep, EventFound, InTransaction, Calls
  <2>2. PICK f \in Events, v \in Users : f = e /\ v = u
    BY <2>1
  <2>3. /\ voteEvents'[f] # Null
        /\ voteEvents'[f].category = voteEvents[f].category
        /\ Exclusive(EventRow(f)) \in held[t] =>
              /\ voteEvents'[f] = voteEvents[f]
              /\ ParticipationsOf(f)' = ParticipationsOf(f)
        /\ Exclusive(UserRow(v)) \in held[t] => voteToken'[v] >= voteToken[v]
        /\ Exclusive(ParticipationKey(f, v)) \in held[t] =>
              OwnParticipations(f, v)' = OwnParticipations(f, v)
    BY <1>3, <2>2 DEF ViewKept
  <2>4. e' = f /\ u' = v
    BY <2>2 DEF LocalsKept
  <2>5. EventFound(t)'
    BY <2>2, <2>3, <2>4 DEF RequestOK, EventFound, LocalsKept, IsBetting
  <2>6. StakeReserved(t)'
    <3>1. voteToken[v] \in Nat /\ voteToken'[v] \in Nat /\ call[t].tokenAmount \in Nat
      BY <2>1 DEF TypeOK, Calls
    <3> QED
      BY <2>2, <2>3, <2>4, <3>1 DEF RequestOK, StakeReserved, LocalsKept, IsBetting
  <2>7. KeyReserved(t)'
    BY <2>2, <2>3, <2>4 DEF RequestOK, KeyReserved, LocalsKept
  <2>8. EventReserved(t)'
    BY <2>2, <2>3, <2>4
       DEF RequestOK, EventReserved, LocalsKept, AcceptsVotes, ConfirmRefusal
  <2>9. RewardReserved(t)'
    <3>1. CASE pc[t] \notin {"credit", "commitReward"}
      BY <3>1 DEF RewardReserved, LocalsKept
    <3>2. CASE pc[t] \in {"credit", "commitReward"}
      <4>1. /\ Exclusive(EventRow(f)) \in held[t]
            /\ Exclusive(ParticipationKey(f, v)) \in held[t]
        BY <2>2, <3>2 DEF RequestOK, EventReserved, RewardReserved, ClaimSteps
      <4>2. PICK i \in OwnParticipations(f, v) :
              /\ participations[i].selectedOption = voteEvents[f].bettingResultOption
              /\ participations[i].bettingRewardClaimedAt = Null
              /\ reward[t] = Payout(f, i)
        BY <2>2, <3>2 DEF RequestOK, RewardReserved
      <4>3. i \in OwnParticipations(f, v)'
        BY <2>3, <4>1
      <4>4. participations'[i] = participations[i]
        <5>1. /\ i \in {j \in Inserted : participations[j].event = f}
              /\ i \in {j \in Inserted : participations[j].event = f}'
          BY <4>2, <4>3 DEF OwnParticipations
        <5>2. /\ ParticipationsOf(f)[i] = participations[i]
              /\ ParticipationsOf(f)'[i] = participations'[i]
          BY <5>1 DEF ParticipationsOf
        <5> QED
          BY <2>3, <4>1, <5>2
      <4>5. Payout(f, i)' = Payout(f, i)
        BY <2>3, <4>1 DEF Payout
      <4>6. voteEvents'[f] = voteEvents[f]
        BY <2>3, <4>1
      <4> QED
        BY <2>2, <2>4, <3>2, <4>1, <4>2, <4>3, <4>4, <4>5, <4>6
           DEF RequestOK, RewardReserved, LocalsKept
    <3> QED
      BY <3>1, <3>2
  <2> QED
    BY <1>1, <2>5, <2>6, <2>7, <2>8, <2>9 DEF RequestOK
<1> QED
  BY <1>2, <1>3

-----------------------------------------------------------------------------
(* A request keeps its own promise *)

LEMMA AnsweredOK ==
    ASSUME TypeOK, NEW r \in Requests, RequestOK(r), pc[r] # "idle",
           NEW code, Answer(r, code)
    PROVE  RequestOK(r)'
<1>1. /\ pc'[r] = "done" /\ stamp'[r] = 0 /\ createdAt'[r] = 0
      /\ call'[r] \in Calls /\ now' \in Nat
  BY DEF Answer, Goto, TypeOK, RequestOK, CallMatchesStep
<1> QED
  BY <1>1 DEF RequestOK, CallMatchesStep, EventFound, StakeReserved, KeyReserved,
     EventReserved, RewardReserved, DatesInOrder, VoteSteps, ClaimSteps

LEMMA RefusedOK ==
    ASSUME TypeOK, NEW r \in Requests, RequestOK(r), pc[r] # "idle",
           NEW code, Refuse(r, code)
    PROVE  RequestOK(r)'
BY AnsweredOK DEF Refuse

LEMMA CommittedOK ==
    ASSUME TypeOK, NEW r \in Requests, RequestOK(r), pc[r] # "idle", Committed(r)
    PROVE  RequestOK(r)'
BY AnsweredOK DEF Committed

LEMMA ReceivedOK ==
    ASSUME TypeOK, NEW r \in Requests, RequestOK(r), Receive(r)
    PROVE  RequestOK(r)'
<1>1. PICK c \in Inbox[r] :
         /\ call' = [call EXCEPT ![r] = c]
         /\ Goto(r, IF c.kind = "create" THEN "insertEvent" ELSE "findDetail")
  BY DEF Receive
<1>2. c \in Calls /\ call'[r] = c
  BY <1>1, VoteEventsAssumption DEF TypeOK
<1>3. \/ pc'[r] = "insertEvent" /\ c.kind = "create"
      \/ pc'[r] = "findDetail"
  BY <1>1 DEF Goto, TypeOK
<1>4. DatesInOrder(r)'
  BY <1>3 DEF Receive, TypeOK, RequestOK, DatesInOrder
<1> QED
  BY <1>2, <1>3, <1>4 DEF RequestOK, CallMatchesStep, EventFound, StakeReserved,
     KeyReserved, EventReserved, RewardReserved, VoteSteps, ClaimSteps

\* The table a request checks before it begins its transaction.
LEMMA FoundOK ==
    ASSUME TypeOK, NEW r \in Requests, RequestOK(r), pc[r] = "findDetail",
           NEW refusal, NEW next \in {"debit", "findEvent"}, NEW date \in 0 .. now,
           FindDetail(r, refusal, next, date),
           next = "debit" => call[r].kind = "vote",
           next = "findEvent" => call[r].kind \in {"confirm", "claim"},
           refusal = OK =>
              /\ voteEvents[call[r].event] # Null
              /\ call[r].kind = "vote" =>
                    (IsBetting(call[r].event) <=> call[r].tokenAmount > 0)
    PROVE  RequestOK(r)'
<1>1. CASE refusal # OK
  BY <1>1, RefusedOK DEF FindDetail
<1>2. CASE refusal = OK
  <2>1. /\ pc'[r] = next /\ stamp'[r] = date /\ call' = call /\ now' = now
        /\ createdAt' = createdAt /\ voteEvents' = voteEvents
    BY <1>2 DEF FindDetail, Goto, TypeOK, tables
  <2>2. DatesInOrder(r)'
    BY <2>1 DEF RequestOK, DatesInOrder, TypeOK
  <2> QED
    BY <1>2, <2>1, <2>2 DEF RequestOK, CallMatchesStep, EventFound, IsBetting,
       StakeReserved, KeyReserved, EventReserved, RewardReserved, VoteSteps,
       ClaimSteps
<1> QED
  BY <1>1, <1>2

LEMMA VoteFindDetailOK ==
    ASSUME TypeOK, NEW r \in Requests, RequestOK(r), VoteFindDetail(r)
    PROVE  RequestOK(r)'
<1> DEFINE c == call[r]
           refusal == VoteRefusal(c, stamp[r])
<1>1. c \in Calls /\ c.tokenAmount \in Nat
  BY DEF RequestOK, CallMatchesStep, VoteFindDetail, Calls
<1>2. refusal = OK =>
        /\ voteEvents[c.event] # Null
        /\ IsBetting(c.event) <=> c.tokenAmount > 0
  BY <1>1 DEF VoteRefusal, OK, IsBetting
<1>3. stamp[r] \in 0 .. now
  BY DEF TypeOK, RequestOK, DatesInOrder
<1> HIDE DEF refusal
<1>4. FindDetail(r, refusal, "debit", stamp[r])
  BY DEF VoteFindDetail, refusal
<1> QED
  BY <1>2, <1>3, <1>4, FoundOK DEF VoteFindDetail

LEMMA ConfirmFindDetailOK ==
    ASSUME TypeOK, NEW r \in Requests, RequestOK(r), ConfirmFindDetail(r)
    PROVE  RequestOK(r)'
<1> DEFINE refusal == ConfirmRefusal(call[r])
<1>1. refusal = OK => voteEvents[call[r].event] # Null
  BY DEF ConfirmRefusal, OK
<1>2. now \in 0 .. now
  BY DEF TypeOK
<1> HIDE DEF refusal
<1>3. FindDetail(r, refusal, "findEvent", now)
  BY DEF ConfirmFindDetail, refusal
<1> QED
  BY <1>1, <1>2, <1>3, FoundOK DEF ConfirmFindDetail

LEMMA ClaimFindDetailOK ==
    ASSUME TypeOK, NEW r \in Requests, RequestOK(r), ClaimFindDetail(r)
    PROVE  RequestOK(r)'
<1> DEFINE refusal == ClaimRefusal(call[r])
<1>1. refusal = OK => voteEvents[call[r].event] # Null
  BY DEF ClaimRefusal, OK
<1>2. now \in 0 .. now
  BY DEF TypeOK
<1> HIDE DEF refusal
<1>3. FindDetail(r, refusal, "findEvent", now)
  BY DEF ClaimFindDetail, refusal
<1> QED
  BY <1>1, <1>2, <1>3, FoundOK DEF ClaimFindDetail

\* The statement's locks are added, and what the tables say is the same.
LEMMA GrantedView ==
    ASSUME TypeOK, NEW r \in Requests, NEW next, Granted(r), Goto(r, next),
           UNCHANGED tables
    PROVE  /\ pc'[r] = next
           /\ held[r] \subseteq held'[r] /\ Wanted(r) \subseteq held'[r]
           /\ voteEvents' = voteEvents /\ voteToken' = voteToken
           /\ participations' = participations
           /\ \A e, u : OwnParticipations(e, u)' = OwnParticipations(e, u)
           /\ \A e, i : Payout(e, i)' = Payout(e, i)
BY DEF Granted, Goto, TypeOK, tables, OwnParticipations, Payout, ParticipationsOf,
       Inserted

LEMMA DebitOK ==
    ASSUME TypeOK, NEW r \in Requests, RequestOK(r), Debit(r)
    PROVE  RequestOK(r)'
<1> DEFINE c == call[r]
<1>1. CASE Refuse(r, "insufficient_vote_token")
  BY <1>1, RefusedOK DEF Debit
<1>2. CASE ~Refuse(r, "insufficient_vote_token")
  <2>1. /\ Granted(r) /\ Goto(r, "eventKey") /\ pc[r] = "debit"
        /\ createdAt' = [createdAt EXCEPT ![r] = now]
        /\ UNCHANGED <<tables, now, call, stamp, reward, answer, faults>>
        /\ Wanted(r) # {} => CanAfford(c.user, c.tokenAmount)
    BY <1>2 DEF Debit
  <2>2. c \in Calls /\ c.kind = "vote" /\ voteEvents[c.event] # Null
        /\ (IsBetting(c.event) <=> c.tokenAmount > 0)
    BY <2>1 DEF RequestOK, CallMatchesStep, EventFound
  <2>3. IsBetting(c.event) => Exclusive(UserRow(c.user)) \in Wanted(r)
    BY <2>1 DEF Wanted, IsBetting
  <2>4. /\ pc'[r] = "eventKey" /\ call'[r] = c
        /\ voteEvents' = voteEvents /\ voteToken' = voteToken
        /\ Wanted(r) \subseteq held'[r]
    BY <2>1, GrantedView
  <2>5. StakeReserved(r)'
    BY <2>1, <2>3, <2>4 DEF StakeReserved, CanAfford, IsBetting
  <2>6. DatesInOrder(r)'
    BY <2>1, <2>4 DEF DatesInOrder, RequestOK, TypeOK
  <2> QED
    BY <2>1, <2>2, <2>4, <2>5, <2>6 DEF RequestOK, CallMatchesStep, EventFound,
       IsBetting, KeyReserved, EventReserved, RewardReserved, ClaimSteps
<1> QED
  BY <1>1, <1>2

LEMMA ReferenceEventOK ==
    ASSUME TypeOK, NEW r \in Requests, RequestOK(r), ReferenceEvent(r)
    PROVE  RequestOK(r)'
<1>1. /\ pc[r] = "eventKey" /\ pc'[r] = "uniqueKey" /\ held[r] \subseteq held'[r]
      /\ voteEvents' = voteEvents /\ voteToken' = voteToken
      /\ call' = call /\ stamp' = stamp /\ createdAt' = createdAt /\ now' = now
  BY GrantedView DEF ReferenceEvent, locals
<1> QED
  BY <1>1 DEF RequestOK, CallMatchesStep, EventFound, IsBetting, StakeReserved,
     KeyReserved, EventReserved, RewardReserved, DatesInOrder, VoteSteps, ClaimSteps

LEMMA InsertKeyOK ==
    ASSUME TypeOK, NEW r \in Requests, RequestOK(r), InsertKey(r)
    PROVE  RequestOK(r)'
<1> DEFINE c == call[r]
<1>1. CASE DuplicateKey(c)
  BY <1>1, RefusedOK DEF InsertKey
<1>2. CASE ~DuplicateKey(c)
  <2>1. /\ pc[r] = "uniqueKey" /\ pc'[r] = "userKey" /\ held[r] \subseteq held'[r]
        /\ Wanted(r) \subseteq held'[r]
        /\ voteEvents' = voteEvents /\ voteToken' = voteToken
        /\ OwnParticipations(c.event, c.user)' = OwnParticipations(c.event, c.user)
        /\ call' = call /\ stamp' = stamp /\ createdAt' = createdAt /\ now' = now
    BY <1>2, GrantedView DEF InsertKey, locals, OwnParticipations, Inserted
  <2>2. Exclusive(ParticipationKey(c.event, c.user)) \in Wanted(r)
    BY <2>1 DEF Wanted
  <2>3. KeyReserved(r)'
    BY <1>2, <2>1, <2>2 DEF KeyReserved, DuplicateKey
  <2> QED
    BY <2>1, <2>3 DEF RequestOK, CallMatchesStep, EventFound, IsBetting,
       StakeReserved, EventReserved, RewardReserved, DatesInOrder, VoteSteps,
       ClaimSteps
<1> QED
  BY <1>1, <1>2

LEMMA ReferenceUserOK ==
    ASSUME TypeOK, NEW r \in Requests, RequestOK(r), ReferenceUser(r)
    PROVE  RequestOK(r)'
<1> DEFINE c == call[r]
<1>1. /\ pc[r] = "userKey" /\ pc'[r] = "count" /\ held[r] \subseteq held'[r]
      /\ voteEvents' = voteEvents /\ voteToken' = voteToken
      /\ OwnParticipations(c.event, c.user)' = OwnParticipations(c.event, c.user)
      /\ call' = call /\ stamp'[r] = now /\ createdAt' = createdAt /\ now' = now
  BY GrantedView DEF ReferenceUser, TypeOK, OwnParticipations, Inserted
<1>2. DatesInOrder(r)'
  BY <1>1 DEF RequestOK, DatesInOrder, TypeOK
<1> QED
  BY <1>1, <1>2 DEF RequestOK, CallMatchesStep, EventFound, IsBetting, StakeReserved,
     KeyReserved, EventReserved, RewardReserved, VoteSteps, ClaimSteps

LEMMA CountOK ==
    ASSUME TypeOK, NEW r \in Requests, RequestOK(r), Count(r)
    PROVE  RequestOK(r)'
<1> DEFINE c == call[r]
           accepted == AcceptsVotes(voteEvents[c.event], stamp[r])
<1>1. CASE ~accepted
  BY <1>1, RefusedOK DEF Count
<1>2. CASE accepted
  <2>1. /\ pc[r] = "count" /\ pc'[r] = "commit" /\ held[r] \subseteq held'[r]
        /\ Wanted(r) \subseteq held'[r]
        /\ voteEvents' = voteEvents /\ voteToken' = voteToken
        /\ OwnParticipations(c.event, c.user)' = OwnParticipations(c.event, c.user)
        /\ call' = call /\ stamp' = stamp /\ createdAt' = createdAt /\ now' = now
    BY <1>2, GrantedView DEF Count, locals, OwnParticipations, Inserted
  <2>2. Exclusive(EventRow(c.event)) \in Wanted(r)
    BY <2>1 DEF Wanted
  <2>3. c.kind = "vote"
    BY <2>1 DEF RequestOK, CallMatchesStep
  <2>4. DatesInOrder(r)' /\ createdAt[r] <= stamp[r]
    BY <2>1, <2>3 DEF RequestOK, DatesInOrder
  <2>5. EventReserved(r)'
    BY <1>2, <2>1, <2>2, <2>3, <2>4 DEF EventReserved, ClaimSteps
  <2> QED
    BY <2>1, <2>3, <2>4, <2>5 DEF RequestOK, CallMatchesStep, EventFound, IsBetting,
       StakeReserved, KeyReserved, RewardReserved, VoteSteps, ClaimSteps
<1> QED
  BY <1>1, <1>2

LEMMA ConfirmFindEventOK ==
    ASSUME TypeOK, NEW r \in Requests, RequestOK(r), ConfirmFindEvent(r)
    PROVE  RequestOK(r)'
<1> DEFINE c == call[r]
<1>1. CASE ConfirmRefusal(c) # OK
  BY <1>1, RefusedOK DEF ConfirmFindEvent
<1>2. CASE ConfirmRefusal(c) = OK
  <2>1. /\ pc[r] = "findEvent" /\ pc'[r] = "commit" /\ c.kind = "confirm"
        /\ Wanted(r) \subseteq held'[r] /\ voteEvents' = voteEvents
        /\ call' = call /\ stamp' = stamp /\ createdAt' = createdAt /\ now' = now
    BY <1>2, GrantedView DEF ConfirmFindEvent, locals
  <2>2. Exclusive(EventRow(c.event)) \in Wanted(r)
    BY <2>1 DEF Wanted
  <2>3. EventReserved(r)'
    BY <1>2, <2>1, <2>2 DEF EventReserved, ConfirmRefusal, ClaimSteps
  <2> QED
    BY <2>1, <2>3 DEF RequestOK, CallMatchesStep, EventFound, StakeReserved,
       KeyReserved, RewardReserved, DatesInOrder, ClaimSteps
<1> QED
  BY <1>1, <1>2

LEMMA ClaimFindEventOK ==
    ASSUME TypeOK, NEW r \in Requests, RequestOK(r), ClaimFindEvent(r)
    PROVE  RequestOK(r)'
<1> DEFINE c == call[r]
<1>1. CASE \E code : Refuse(r, code)
  BY <1>1, RefusedOK DEF ClaimFindEvent
<1>2. CASE ~ \E code : Refuse(r, code)
  <2>1. /\ pc[r] = "findEvent" /\ pc'[r] = "findParticipation" /\ c.kind = "claim"
        /\ voteEvents[c.event].bettingResultOption # Null
        /\ Wanted(r) \subseteq held'[r] /\ voteEvents' = voteEvents
        /\ call' = call /\ stamp' = stamp /\ createdAt' = createdAt /\ now' = now
    BY <1>2, GrantedView DEF ClaimFindEvent, locals
  <2>2. Exclusive(EventRow(c.event)) \in Wanted(r)
    BY <2>1 DEF Wanted
  <2>3. EventReserved(r)'
    BY <2>1, <2>2 DEF EventReserved
  <2> QED
    BY <2>1, <2>3 DEF RequestOK, CallMatchesStep, EventFound, StakeReserved,
       KeyReserved, RewardReserved, DatesInOrder, ClaimSteps, VoteSteps
<1> QED
  BY <1>1, <1>2

LEMMA ClaimFindParticipationOK ==
    ASSUME TypeOK, ParticipationsFit, ResultsMatchDates, NEW r \in Requests,
           RequestOK(r), ClaimFindParticipation(r)
    PROVE  RequestOK(r)'
<1> DEFINE e      == call[r].event
           own    == OwnParticipations(e, call[r].user)
           i      == CHOOSE j \in own : TRUE
           earned == EarnedTokenAmount(e, i)
<1>1. CASE own = {}
  BY <1>1, RefusedOK DEF ClaimFindParticipation
<1>2. CASE own # {}
  <2>1. /\ Granted(r) /\ pc[r] = "findParticipation"
        /\ reward' = [reward EXCEPT ![r] = earned]
        /\ Goto(r, IF earned # Null /\ IsUnclaimed(i) THEN "credit" ELSE "commit")
        /\ UNCHANGED <<tables, now, call, stamp, createdAt, answer, faults>>
    BY <1>2 DEF ClaimFindParticipation
  <2>2. /\ held[r] \subseteq held'[r] /\ Wanted(r) \subseteq held'[r]
        /\ voteEvents' = voteEvents /\ participations' = participations
        /\ \A f, u : OwnParticipations(f, u)' = OwnParticipations(f, u)
        /\ \A f, j : Payout(f, j)' = Payout(f, j)
        /\ reward'[r] = earned /\ call' = call
        /\ pc'[r] = IF earned # Null /\ IsUnclaimed(i) THEN "credit" ELSE "commit"
    BY <2>1, GrantedView DEF TypeOK
  <2>3. call[r] \in Calls /\ call[r].kind = "claim" /\ e \in Events
    BY <2>1 DEF RequestOK, CallMatchesStep, ClaimSteps, Calls
  <2>4. EventReserved(r)'
    BY <2>1, <2>2, <2>3 DEF RequestOK, EventReserved, ClaimSteps
  <2>5. RewardReserved(r)'
    <3>1. CASE pc'[r] = "commit"
      BY <3>1 DEF RewardReserved
    <3>2. CASE pc'[r] # "commit"
      <4>1. pc'[r] = "credit" /\ earned # Null /\ IsUnclaimed(i)
        BY <2>2, <3>2
      <4>2. i \in own /\ i \in Inserted /\ participations[i].event = e
        BY <1>2 DEF OwnParticipations
      <4>3. /\ participations[i].selectedOption = voteEvents[e].bettingResultOption
            /\ earned = Payout(e, i)
        BY <4>1 DEF EarnedTokenAmount
      <4>4. earned \in Nat
        BY <2>3, <4>2, <4>3, RewardType
      <4>5. Exclusive(ParticipationKey(e, call[r].user)) \in held'[r]
        BY <2>1, <2>2 DEF Wanted
      <4>6. participations[i].bettingRewardClaimedAt = Null
        BY <4>1 DEF IsUnclaimed
      <4> HIDE DEF i, earned
      <4>7. i \in OwnParticipations(e, call[r].user)'
        BY <2>2, <4>2
      <4> QED
        BY <2>2, <4>1, <4>3, <4>4, <4>5, <4>6, <4>7 DEF RewardReserved
    <3> QED
      BY <3>1, <3>2
  <2> QED
    BY <2>1, <2>2, <2>3, <2>4, <2>5 DEF RequestOK, CallMatchesStep, EventFound,
       StakeReserved, KeyReserved, DatesInOrder, ClaimSteps, VoteSteps
<1> QED
  BY <1>1, <1>2

LEMMA CreditOK ==
    ASSUME TypeOK, NEW r \in Requests, RequestOK(r), Credit(r)
    PROVE  RequestOK(r)'
<1> DEFINE c == call[r]
<1>1. /\ pc[r] = "credit" /\ pc'[r] = "commitReward"
      /\ held[r] \subseteq held'[r] /\ Wanted(r) \subseteq held'[r]
      /\ voteEvents' = voteEvents /\ participations' = participations
      /\ \A e, u : OwnParticipations(e, u)' = OwnParticipations(e, u)
      /\ \A e, i : Payout(e, i)' = Payout(e, i)
      /\ reward' = reward /\ call' = call /\ stamp' = stamp
      /\ createdAt' = createdAt /\ now' = now
  BY GrantedView DEF Credit, locals
<1>2. Exclusive(UserRow(c.user)) \in Wanted(r)
  BY <1>1 DEF Wanted
<1>3. RewardReserved(r)'
  BY <1>1, <1>2 DEF RequestOK, RewardReserved
<1>4. EventReserved(r)'
  BY <1>1 DEF RequestOK, EventReserved, ClaimSteps
<1> QED
  BY <1>1, <1>3, <1>4 DEF RequestOK, CallMatchesStep, EventFound, StakeReserved,
     KeyReserved, DatesInOrder, ClaimSteps, VoteSteps

\* A request's own step establishes what its next one relies on.
LEMMA OwnStepOK ==
    ASSUME IInv, NEW r \in Requests, RequestStep(r)
    PROVE  RequestOK(r)'
<1> USE DEF IInv
<1>1. CASE Receive(r)
  BY <1>1, ReceivedOK
<1>2. CASE Create(r)
  BY <1>2, RefusedOK, CommittedOK DEF Create
<1>3. CASE VoteStep(r)
  BY <1>3, VoteFindDetailOK, DebitOK, ReferenceEventOK, InsertKeyOK, ReferenceUserOK,
     CountOK, CommittedOK DEF VoteStep, CommitVote
<1>4. CASE ConfirmStep(r)
  <2>1. CASE CommitConfirm(r)
    BY <2>1, ConfirmSets, CommittedOK DEF CommitConfirm
  <2> QED
    BY <1>4, <2>1, ConfirmFindDetailOK, ConfirmFindEventOK DEF ConfirmStep
<1>5. CASE ClaimStep(r)
  BY <1>5, ClaimFindDetailOK, ClaimFindEventOK, ClaimFindParticipationOK, CreditOK,
     CommittedOK DEF ClaimStep, CommitReward, CommitClaim
<1>6. CASE RollBackVictim(r)
  <2>1. PICK t \in Requests : WaitsFor(held, AllWanted, r, t)
    BY <1>6 DEF RollBackVictim, Deadlocked, Stuck, TypeOK
  <2>2. pc[r] # "idle"
    BY <2>1 DEF WaitsFor, AllWanted, Wanted
  <2> QED
    BY <1>6, <2>2, RefusedOK DEF RollBackVictim
<1>7. CASE Fail(r)
  BY <1>7, AnsweredOK DEF Fail
<1> QED
  BY <1>1, <1>2, <1>3, <1>4, <1>5, <1>6, <1>7 DEF RequestStep, Step

-----------------------------------------------------------------------------
(* The tables *)

\* What the four commits write, in the words the properties use.
LEMMA CommitVoteWrites ==
    ASSUME IInv, NEW r \in Requests, CommitVote(r)
    PROVE  LET c == call[r]
           IN  /\ r \notin Inserted /\ Inserted' = Inserted \cup {r}
               /\ \A i \in Inserted : participations'[i] = participations[i]
               /\ participations'[r].event = c.event
               /\ participations'[r].user = c.user
               /\ participations'[r].selectedOption = c.option
               /\ participations'[r].tokenAmount = c.tokenAmount
               /\ participations'[r].createdAt = createdAt[r]
               /\ participations'[r].bettingRewardClaimedAt = Null
               /\ Created' = Created /\ c.event \in Created
               /\ \A e \in Created : KeepsColumns(voteEvents'[e], voteEvents[e])
               /\ \A e \in Created \ {c.event} : voteEvents'[e] = voteEvents[e]
<1> DEFINE c == call[r]
           row == [event |-> c.event, user |-> c.user,
                   selectedOption |-> c.option, tokenAmount |-> c.tokenAmount,
                   createdAt |-> createdAt[r], bettingRewardClaimedAt |-> Null]
           new == AggregateUpdate(voteEvents[c.event], c.option, c.tokenAmount)
<1>1. /\ c.event \in Events /\ c.user \in Users /\ c.option \in Options
      /\ c.tokenAmount \in Nat /\ r \notin Inserted
      /\ voteEvents[c.event] \in VoteEvent
  BY VoteAtCommit DEF Calls
<1>2. row \in Participation
  BY <1>1 DEF Participation, IInv, TypeOK
<1>3. participations' = [participations EXCEPT ![r] = row]
  BY DEF CommitVote
<1>4. voteEvents' = [voteEvents EXCEPT ![c.event] = new]
  BY DEF CommitVote
<1>5. new \in VoteEvent /\ KeepsColumns(new, voteEvents[c.event])
  BY <1>1, AggregateType
<1>6. /\ participations'[r].event = c.event /\ participations'[r].user = c.user
      /\ participations'[r].selectedOption = c.option
      /\ participations'[r].tokenAmount = c.tokenAmount
      /\ participations'[r].createdAt = createdAt[r]
      /\ participations'[r].bettingRewardClaimedAt = Null
  BY <1>3 DEF IInv, TypeOK
<1> HIDE DEF row, new
<1>7. Inserted' = Inserted \cup {r}
      /\ \A i \in Inserted : participations'[i] = participations[i]
  BY <1>1, <1>2, <1>3, NullAssumption DEF Inserted, IInv, TypeOK
<1>8. Created' = Created /\ c.event \in Created
  BY <1>1, <1>4, <1>5, NullAssumption DEF Created, IInv, TypeOK
<1>9. /\ \A e \in Created : KeepsColumns(voteEvents'[e], voteEvents[e])
      /\ \A e \in Created \ {c.event} : voteEvents'[e] = voteEvents[e]
  BY <1>1, <1>4, <1>5 DEF Created, KeepsColumns, IInv, TypeOK
<1> QED
  BY <1>1, <1>6, <1>7, <1>8, <1>9

LEMMA CommitConfirmWrites ==
    ASSUME IInv, NEW r \in Requests, CommitConfirm(r)
    PROVE  LET c == call[r]
           IN  /\ Inserted' = Inserted /\ participations' = participations
               /\ Created' = Created /\ c.event \in Created /\ IsBetting(c.event)
               /\ voteEvents[c.event].bettingResultOption = Null
               /\ voteEvents[c.event].organizerUserId = c.user
               /\ voteEvents'[c.event].bettingResultOption = c.option
               /\ voteEvents'[c.event].bettingResultOption # Null
               /\ voteEvents'[c.event].bettingResultConfirmedAt # Null
               /\ \A e \in Created :
                    /\ voteEvents'[e].category = voteEvents[e].category
                    /\ voteEvents'[e].organizerUserId
                         = voteEvents[e].organizerUserId
                    /\ voteEvents'[e].deadlineAt = voteEvents[e].deadlineAt
               /\ \A e \in Created \ {c.event} : voteEvents'[e] = voteEvents[e]
<1> DEFINE c == call[r]
           old == voteEvents[c.event]
           new == [old EXCEPT !.bettingResultOption = c.option,
                              !.bettingResultConfirmedAt = stamp[r]]
<1>1. /\ c.event \in Events /\ c.option \in Options /\ stamp[r] \in Nat
      /\ old \in VoteEvent /\ ConfirmRefusal(c) = OK
  BY ConfirmAtCommit DEF Calls, IInv, TypeOK
<1>2. /\ IsBetting(c.event) /\ old.bettingResultOption = Null
      /\ old.organizerUserId = c.user
  BY <1>1 DEF ConfirmRefusal, OK, IsBetting
<1>3. voteEvents' = [voteEvents EXCEPT ![c.event] = new]
  BY <1>1, ConfirmSets DEF IInv, TypeOK, VoteEvent
<1>4. /\ new \in VoteEvent /\ new.category = old.category
      /\ new.organizerUserId = old.organizerUserId
      /\ new.deadlineAt = old.deadlineAt
      /\ new.bettingResultOption = c.option
      /\ new.bettingResultConfirmedAt = stamp[r]
  BY <1>1 DEF VoteEvent
<1>5. new.bettingResultOption # Null /\ new.bettingResultConfirmedAt # Null
  BY <1>1, <1>4, NullAssumption
<1>6. participations' = participations /\ Inserted' = Inserted
  BY ConfirmSets DEF Inserted
<1> HIDE DEF new
<1>7. Created' = Created /\ c.event \in Created
  BY <1>1, <1>3, <1>4, NullAssumption DEF Created, IInv, TypeOK
<1> QED
  BY <1>1, <1>2, <1>3, <1>4, <1>5, <1>6, <1>7 DEF Created, IInv, TypeOK

LEMMA CreateWritesRow ==
    ASSUME IInv, NEW r \in Requests, CreateWrites(call[r]), call[r] \in Calls
    PROVE  LET c == call[r]
           IN  /\ Inserted' = Inserted /\ participations' = participations
               /\ c.event \notin Created /\ Created' = Created \cup {c.event}
               /\ voteEvents'[c.event].bettingResultOption = Null
               /\ voteEvents'[c.event].bettingResultConfirmedAt = Null
               /\ \A e \in Created : voteEvents'[e] = voteEvents[e]
<1> DEFINE c == call[r]
           new == NewEvent(c.category, c.user, c.deadlineAt)
<1>1. c.event \in Events /\ c.event \notin Created
  BY DEF CreateWrites, Created, Calls
<1>2. voteEvents' = [voteEvents EXCEPT ![c.event] = new]
      /\ participations' = participations
  BY DEF CreateWrites
<1>3. /\ new \in VoteEvent /\ new.bettingResultOption = Null
      /\ new.bettingResultConfirmedAt = Null
  BY DEF CreateWrites, NewEvent, VoteEvent, Calls
<1> HIDE DEF new
<1>4. Created' = Created \cup {c.event} /\ voteEvents'[c.event] = new
      /\ \A e \in Created : voteEvents'[e] = voteEvents[e]
  BY <1>1, <1>2, <1>3, NullAssumption DEF Created, IInv, TypeOK
<1> QED
  BY <1>1, <1>2, <1>3, <1>4 DEF Inserted

\* The rows of both tables stay consistent with each other.
TablesOK == ResultsMatchDates /\ ParticipationsFit /\ OneParticipationPerUser

LEMMA CreateTables ==
    ASSUME IInv, NEW r \in Requests, CreateWrites(call[r]), call[r] \in Calls,
           \A i \in Inserted : pc'[i] = "done"
    PROVE  TablesOK'
<1> DEFINE c == call[r]
<1>1. ResultsMatchDates'
  BY CreateWritesRow DEF IInv, ResultsMatchDates, IsBetting
<1>2. ParticipationsFit'
  <2>1. \A i \in Inserted : participations[i].event \in Created
    BY DEF IInv, ParticipationsFit, TypeOK, Inserted, Created, Participation
  <2> QED
    BY <2>1, CreateWritesRow DEF IInv, ParticipationsFit, IsBetting, Created
<1>3. OneParticipationPerUser'
  BY CreateWritesRow DEF IInv, OneParticipationPerUser
<1> QED
  BY <1>1, <1>2, <1>3 DEF TablesOK

LEMMA CommitVoteTables ==
    ASSUME IInv, NEW r \in Requests, CommitVote(r), pc'[r] = "done",
           \A i \in Inserted : pc'[i] = "done"
    PROVE  TablesOK'
<1> DEFINE c == call[r]
<1>1. ResultsMatchDates'
  BY CommitVoteWrites DEF IInv, ResultsMatchDates, IsBetting, KeepsColumns
<1>2. ParticipationsFit'
  <2>1. \A i \in Inserted : participations[i].event \in Created
    BY DEF IInv, ParticipationsFit, TypeOK, Inserted, Created, Participation
  <2>2. /\ IsBetting(c.event) <=> c.tokenAmount > 0
        /\ createdAt[r] < voteEvents[c.event].deadlineAt
    <3>1. createdAt[r] <= stamp[r] /\ stamp[r] < voteEvents[c.event].deadlineAt
      BY VoteAtCommit DEF AcceptsVotes, IInv, RequestOK, DatesInOrder, CommitVote,
         VoteEvent, TypeOK
    <3>2. /\ createdAt[r] \in Nat /\ stamp[r] \in Nat
          /\ voteEvents[c.event].deadlineAt \in Nat
      BY VoteAtCommit DEF VoteEvent, IInv, TypeOK
    <3> QED
      BY <3>1, <3>2, VoteAtCommit
  <2>3. \A e \in Created : /\ voteEvents'[e] # Null
                            /\ voteEvents'[e].category = voteEvents[e].category
                            /\ voteEvents'[e].deadlineAt = voteEvents[e].deadlineAt
    BY CommitVoteWrites DEF KeepsColumns, Created
  <2>4. ASSUME NEW i \in Inserted
        PROVE  /\ pc'[i] = "done" /\ participations'[i] = participations[i]
               /\ voteEvents'[participations[i].event] # Null
               /\ voteEvents'[participations[i].event].category = "betting"
                    <=> participations[i].tokenAmount > 0
               /\ participations[i].createdAt
                    < voteEvents'[participations[i].event].deadlineAt
    BY <2>1, <2>3, CommitVoteWrites DEF IInv, ParticipationsFit, IsBetting
  <2>5. /\ voteEvents'[c.event] # Null
        /\ voteEvents'[c.event].category = "betting" <=> c.tokenAmount > 0
        /\ createdAt[r] < voteEvents'[c.event].deadlineAt
    BY <2>2, <2>3, CommitVoteWrites DEF IsBetting
  <2> QED
    BY <2>4, <2>5, CommitVoteWrites DEF ParticipationsFit, IsBetting
<1>3. OneParticipationPerUser'
  BY VoteAtCommit, CommitVoteWrites DEF IInv, OneParticipationPerUser,
     OwnParticipations
<1> QED
  BY <1>1, <1>2, <1>3 DEF TablesOK

LEMMA CommitConfirmTables ==
    ASSUME IInv, NEW r \in Requests, CommitConfirm(r),
           \A i \in Inserted : pc'[i] = "done"
    PROVE  TablesOK'
<1>1. ResultsMatchDates'
  BY CommitConfirmWrites DEF IInv, ResultsMatchDates, IsBetting
<1>2. ParticipationsFit'
  <2>1. \A i \in Inserted : participations[i].event \in Created
    BY DEF IInv, ParticipationsFit, TypeOK, Inserted, Created, Participation
  <2> QED
    BY <2>1, CommitConfirmWrites DEF IInv, ParticipationsFit, IsBetting, Created
<1>3. OneParticipationPerUser'
  BY CommitConfirmWrites DEF IInv, OneParticipationPerUser
<1> QED
  BY <1>1, <1>2, <1>3 DEF TablesOK

LEMMA CommitRewardTables ==
    ASSUME IInv, NEW r \in Requests, CommitReward(r),
           \A i \in Inserted : pc'[i] = "done"
    PROVE  TablesOK'
<1>1. ResultsMatchDates'
  BY DEF CommitReward, IInv, ResultsMatchDates, Created, IsBetting
<1>2. voteEvents' = voteEvents
  BY DEF CommitReward
<1>3. ParticipationsFit'
  BY <1>2, CommitRewardMarks DEF IInv, ParticipationsFit, IsBetting
<1>4. OneParticipationPerUser'
  BY CommitRewardMarks DEF IInv, OneParticipationPerUser
<1> QED
  BY <1>1, <1>3, <1>4 DEF TablesOK

\* A request that was answered takes no step.
LEMMA NotDone ==
    ASSUME NEW r \in Requests, RequestStep(r)
    PROVE  pc[r] # "done"
<1>1. Blocked(held, AllWanted, r) => pc[r] # "done"
  BY DEF Blocked, WaitsFor, AllWanted, Wanted
<1>2. RollBackVictim(r) => Blocked(held, AllWanted, r)
  BY DEF RollBackVictim, Deadlocked, Stuck, Blocked
<1> QED
  BY <1>1, <1>2 DEF RequestStep, Receive, Step, Fail, Create, VoteStep,
     VoteFindDetail, Debit, ReferenceEvent, InsertKey, ReferenceUser, Count,
     CommitVote, ConfirmStep, ConfirmFindDetail, ConfirmFindEvent, CommitConfirm,
     ClaimStep, ClaimFindDetail, ClaimFindEvent, ClaimFindParticipation, Credit,
     CommitReward, CommitClaim

LEMMA TablesStep ==
    ASSUME IInv, NEW r \in Requests, RequestStep(r)
    PROVE  TablesOK'
<1>1. Writes(r)
  BY StepKeeps DEF IInv, RequestOK
<1>2. \A i \in Inserted : pc'[i] = "done"
  <2>1. \A i \in Inserted : pc[i] = "done"
    BY DEF IInv, ParticipationsFit
  <2>2. \A t \in Requests \ {r} : pc'[t] = pc[t]
    BY StepKeeps DEF IInv, RequestOK, LocalsKept
  <2>3. pc[r] = "done" => FALSE
    BY NotDone
  <2> QED
    BY <2>1, <2>2, <2>3 DEF Inserted
<1>3. CASE UNCHANGED tables
  <2>1. voteEvents' = voteEvents /\ participations' = participations
    BY <1>3 DEF tables
  <2> QED
    BY <1>2, <2>1 DEF IInv, TablesOK, ResultsMatchDates, ParticipationsFit,
       OneParticipationPerUser, Created, Inserted, IsBetting
<1>4. CASE CommitVote(r)
  <2>1. pc'[r] = "done"
    BY <1>4 DEF CommitVote, Committed, Answer, Goto, IInv, TypeOK
  <2> QED
    BY <1>2, <1>4, <2>1, CommitVoteTables
<1> QED
  BY <1>1, <1>2, <1>3, <1>4, CreateTables, CommitConfirmTables, CommitRewardTables
     DEF Writes

-----------------------------------------------------------------------------
(* The invariant *)

LEMMA InvInit == Init => IInv
<1> SUFFICES ASSUME Init PROVE IInv
  OBVIOUS
<1>1. TypeOK
  BY TypeInit
<1>2. LocksExclude
  BY DEF Init, LocksExclude
<1>3. Inserted = {}
  BY DEF Init, Inserted
<1>4. ResultsMatchDates
  <2>1. \A e \in Created : \E category, organizer, deadlineAt :
           voteEvents[e] = NewEvent(category, organizer, deadlineAt)
    BY VoteEventsAssumption DEF Init, Created
  <2>2. \A category, organizer, deadlineAt :
          /\ NewEvent(category, organizer, deadlineAt).bettingResultOption = Null
          /\ NewEvent(category, organizer, deadlineAt).bettingResultConfirmedAt = Null
    BY DEF NewEvent
  <2> QED
    BY <2>1, <2>2 DEF ResultsMatchDates
<1>5. \A r \in Requests : RequestOK(r)
  BY DEF Init, RequestOK, CallMatchesStep, EventFound, StakeReserved, KeyReserved,
     EventReserved, RewardReserved, DatesInOrder, VoteSteps, ClaimSteps
<1> QED
  BY <1>1, <1>2, <1>3, <1>4, <1>5
     DEF IInv, ParticipationsFit, OneParticipationPerUser

LEMMA InvStep == IInv /\ [Next]_vars => IInv'
<1> SUFFICES ASSUME IInv, [Next]_vars PROVE IInv'
  OBVIOUS
<1>1. TypeOK'
  BY TypeStep
<1>2. ASSUME NEW r \in Requests, RequestStep(r)
      PROVE  IInv'
  <2>1. LocksExclude'
    BY <1>2, LocksExcludeStep DEF IInv, RequestOK
  <2>2. TablesOK'
    BY <1>2, TablesStep
  <2>3. ASSUME NEW t \in Requests
        PROVE  RequestOK(t)'
    <3>1. CASE t = r
      BY <1>2, <3>1, OwnStepOK
    <3>2. CASE t # r
      <4>1. now' = now /\ LocalsKept(t) /\ Writes(r)
        BY <1>2, <3>2, StepKeeps DEF IInv, RequestOK
      <4>2. ViewKept(t)
        BY <3>2, <4>1, WritesView
      <4>3. now' >= now
        BY <4>1 DEF IInv, TypeOK
      <4> QED
        BY <1>1, <4>1, <4>2, <4>3, PromiseKept DEF IInv
    <3> QED
      BY <3>1, <3>2
  <2> QED
    BY <1>1, <2>1, <2>2, <2>3 DEF IInv, TablesOK
<1>3. ASSUME UNCHANGED <<tables, locals, pc, held, answer, faults>>, now' >= now
      PROVE  IInv'
  <2>1. LocksExclude' /\ TablesOK'
    BY <1>3 DEF IInv, tables, locals, LocksExclude, TablesOK, ResultsMatchDates,
       ParticipationsFit, OneParticipationPerUser, Created, Inserted, IsBetting
  <2>2. ASSUME NEW t \in Requests
        PROVE  RequestOK(t)'
    <3>1. LocalsKept(t)
      BY <1>3 DEF LocalsKept, locals
    <3>2. ViewKept(t)
      BY <1>3 DEF tables, ViewKept, ParticipationsOf, OwnParticipations, Inserted,
                  IInv, TypeOK, RequestOK, EventFound, InTransaction
    <3> QED
      BY <1>1, <1>3, <3>1, <3>2, PromiseKept DEF IInv
  <2> QED
    BY <1>1, <2>1, <2>2 DEF IInv, TablesOK
<1>4. CASE Tick
  <2>1. now' >= now
    BY <1>4 DEF Tick, IInv, TypeOK
  <2> QED
    BY <1>3, <1>4, <2>1 DEF Tick
<1>5. CASE Finished \/ UNCHANGED vars
  <2>1. now' >= now
    BY <1>5 DEF Finished, vars, IInv, TypeOK
  <2> QED
    BY <1>3, <1>5, <2>1 DEF Finished, vars, tables, locals
<1> QED
  BY <1>2, <1>4, <1>5 DEF Next, RequestStep

\* The invariant holds in every state of every behaviour.
THEOREM Invariance == Spec => []IInv
BY InvInit, InvStep, PTL DEF Spec

\* Every table and every request is of its type in every state; in particular
\* no user's vote_token is ever negative (the debit in participate).
THEOREM TypeCorrect == Spec => []TypeOK
<1>1. IInv => TypeOK
  BY DEF IInv
<1> QED
  BY <1>1, Invariance, PTL

\* No user takes part twice in an event: the key locked by the INSERT is free
\* until the transaction ends (the unique index of the participations).
THEOREM VoteOnce == Spec => []OneParticipationPerUser
<1>1. IInv => OneParticipationPerUser
  BY DEF IInv
<1> QED
  BY <1>1, Invariance, PTL

\* Every recorded vote was made before the deadline of its event, however long
\* its transaction waited (the where clause of the update that counts it).
THEOREM InTime == Spec => []VotesInTime
<1>1. IInv => VotesInTime
  BY DEF IInv, ParticipationsFit, VotesInTime
<1> QED
  BY <1>1, Invariance, PTL

-----------------------------------------------------------------------------
(* The pool of an event whose result is confirmed *)

LEMMA PoolFrozenStep ==
    ASSUME IInv, NEW r \in Requests, RequestStep(r), NEW e \in Created,
           voteEvents[e].bettingResultOption # Null
    PROVE  /\ DOMAIN ParticipationsOf(e)' = DOMAIN ParticipationsOf(e)
           /\ voteEvents'[e] = voteEvents[e]
<1>1. Writes(r)
  BY StepKeeps DEF IInv, RequestOK
<1>2. /\ DOMAIN ParticipationsOf(e) = {i \in Inserted : participations[i].event = e}
      /\ DOMAIN ParticipationsOf(e)' = {i \in Inserted : participations[i].event = e}'
  BY DEF ParticipationsOf
<1>3. CASE UNCHANGED tables
  BY <1>3 DEF tables, ParticipationsOf, Inserted
<1>4. CASE Create(r) /\ CreateWrites(call[r]) /\ call[r] \in Calls
  BY <1>2, <1>4, CreateWritesRow
<1>5. CASE CommitVote(r)
  <2>1. call[r].event # e
    BY <1>5, VoteAtCommit DEF AcceptsVotes, IInv, ResultsMatchDates
  <2> QED
    BY <1>2, <1>5, <2>1, CommitVoteWrites
<1>6. CASE CommitConfirm(r)
  BY <1>2, <1>6, CommitConfirmWrites
<1>7. CASE CommitReward(r)
  BY <1>2, <1>7, CommitRewardMarks DEF CommitReward
<1> QED
  BY <1>1, <1>3, <1>4, <1>5, <1>6, <1>7 DEF Writes

\* Once a result is confirmed no vote under way is recorded any more and the
\* result stays: confirmation and count lock the same row of vote_events.
THEOREM PoolStaysFrozen == Spec => PoolFrozenByResult
<1> DEFINE Frozen == \A e \in Created : voteEvents[e].bettingResultOption # Null =>
                       /\ DOMAIN ParticipationsOf(e)' = DOMAIN ParticipationsOf(e)
                       /\ voteEvents'[e] = voteEvents[e]
<1>1. IInv /\ [Next]_vars => [Frozen]_vars
  <2> SUFFICES ASSUME IInv, Next PROVE Frozen
    OBVIOUS
  <2>1. CASE \E r \in Requests : RequestStep(r)
    BY <2>1, PoolFrozenStep
  <2>2. CASE Tick \/ Finished
    BY <2>2 DEF Tick, Finished, vars, tables, ParticipationsOf, Inserted
  <2> QED
    BY <2>1, <2>2 DEF Next, RequestStep
<1> QED
  BY <1>1, Invariance, PTL DEF Spec, PoolFrozenByResult

-----------------------------------------------------------------------------
(* Rewards *)

LEMMA RewardPaidStep ==
    ASSUME IInv, NEW r \in Requests, RequestStep(r)
    PROVE  /\ \A u \in Users : voteToken'[u] > voteToken[u] =>
                 \E i \in Inserted :
                   /\ participations[i].user = u
                   /\ participations[i].bettingRewardClaimedAt = Null
                   /\ participations'[i].bettingRewardClaimedAt # Null
                   /\ voteToken'[u] =
                        voteToken[u] + Payout(participations[i].event, i)
           /\ \A i \in Inserted : participations[i].bettingRewardClaimedAt # Null =>
                   participations'[i] = participations[i]
<1> DEFINE c   == call[r]
           own == OwnParticipations(c.event, c.user)
<1>1. Writes(r)
  BY StepKeeps DEF IInv, RequestOK
<1>2. voteToken \in [Users -> Nat]
  BY DEF IInv, TypeOK
<1>3. CASE UNCHANGED tables \/ CreateWrites(c) \/ CommitConfirm(r)
  <2>1. UNCHANGED <<voteToken, participations>>
    BY <1>3, ConfirmSets DEF tables, CreateWrites
  <2> QED
    BY <1>2, <2>1
<1>4. CASE CommitVote(r)
  <2>1. c.tokenAmount \in Nat
    BY <1>4, VoteAtCommit DEF Calls
  <2>2. voteToken' = [voteToken EXCEPT ![c.user] = @ - c.tokenAmount]
    BY <1>4 DEF CommitVote
  <2>3. ASSUME NEW u \in Users
        PROVE  ~(voteToken'[u] > voteToken[u])
    <3>1. voteToken'[u] = IF u = c.user THEN voteToken[u] - c.tokenAmount
                          ELSE voteToken[u]
      BY <1>2, <2>2
    <3>2. voteToken[u] \in Nat
      BY <1>2
    <3> HIDE DEF c
    <3> QED
      BY <2>1, <3>1, <3>2
  <2> QED
    BY <1>4, <2>3, CommitVoteWrites
<1>5. CASE CommitReward(r)
  <2>1. PICK i \in own :
          /\ participations[i].bettingRewardClaimedAt = Null
          /\ reward[r] = Payout(c.event, i)
    BY <1>5 DEF IInv, RequestOK, RewardReserved, CommitReward
  <2>2. /\ i \in Inserted /\ participations[i].event = c.event
        /\ participations[i].user = c.user
    BY DEF OwnParticipations
  <2>3. participations'[i].bettingRewardClaimedAt # Null
    <3>1. participations[i] \in Participation /\ stamp[r] \in Nat /\ i \in Requests
      BY <2>2 DEF IInv, TypeOK, Inserted
    <3>2. participations'[i] =
            [participations[i] EXCEPT !.bettingRewardClaimedAt = stamp[r]]
      BY <1>5, <3>1 DEF CommitReward
    <3> QED
      BY <3>1, <3>2, NullAssumption DEF Participation
  <2>4. voteToken' = [voteToken EXCEPT ![c.user] = @ + reward[r]]
    BY <1>5 DEF CommitReward
  <2>5. ASSUME NEW u \in Users, voteToken'[u] > voteToken[u]
        PROVE  u = c.user /\ voteToken'[u] = voteToken[u] + reward[r]
    BY <1>2, <2>4, <2>5
  <2>6. \A j \in own : j = i
    BY <2>2 DEF OwnParticipations, IInv, OneParticipationPerUser
  <2>7. \A j \in Inserted : participations[j].bettingRewardClaimedAt # Null =>
            participations'[j] = participations[j]
    BY <1>5, <2>1, <2>6, CommitRewardMarks
  <2> QED
    BY <2>1, <2>2, <2>3, <2>5, <2>7
<1> QED
  BY <1>1, <1>3, <1>4, <1>5 DEF Writes

\* A user's tokens grow only by the payout of a participation that was not paid
\* before, and what was paid stays marked: the claim holds the participation's
\* lock from its check to its commit.
THEOREM PaidOnce == Spec => RewardPaidOnce
<1> DEFINE Grow == \A u \in Users : voteToken'[u] > voteToken[u] =>
                     \E i \in Inserted :
                       /\ participations[i].user = u
                       /\ participations[i].bettingRewardClaimedAt = Null
                       /\ participations'[i].bettingRewardClaimedAt # Null
                       /\ voteToken'[u] =
                            voteToken[u] + Payout(participations[i].event, i)
           Stay == \A i \in Inserted :
                     participations[i].bettingRewardClaimedAt # Null =>
                       participations'[i] = participations[i]
<1>1. IInv /\ [Next]_vars => [Grow /\ Stay]_vars
  <2> SUFFICES ASSUME IInv, Next PROVE Grow /\ Stay
    OBVIOUS
  <2>1. CASE \E r \in Requests : RequestStep(r)
    BY <2>1, RewardPaidStep
  <2>2. CASE Tick \/ Finished
    BY <2>2 DEF Tick, Finished, vars, tables, IInv, TypeOK
  <2> QED
    BY <2>1, <2>2 DEF Next, RequestStep
<1> QED
  BY <1>1, Invariance, PTL DEF Spec, RewardPaidOnce

-----------------------------------------------------------------------------
(* How a request is answered *)

Committing(r) ==
    \/ Create(r) \/ CommitVote(r) \/ CommitConfirm(r) \/ CommitReward(r) \/ CommitClaim(r)

\* A step of r goes on without an answer, or is the one that answers: with a
\* refusal that writes nothing, with an error, or with success as it commits.
Ends(r) ==
    \/ pc'[r] # "done" /\ answer' = answer /\ UNCHANGED tables
    \/ \E code \in Refusals : Refuse(r, code)
    \/ Answer(r, InternalError)
    \/ Answer(r, OK) /\ UNCHANGED reward /\ Committing(r)

LEMMA RefuseEnds ==
    ASSUME NEW r \in Requests, NEW code \in Codes, code # OK, Refuse(r, code)
    PROVE  Ends(r)
BY DEF Codes, Refuse, Ends

LEMMA CommittedEnds ==
    ASSUME NEW r \in Requests, Committed(r), Committing(r)
    PROVE  Ends(r)
BY DEF Committed, Ends

LEMMA FindDetailEnds ==
    ASSUME TypeOK, NEW r \in Requests, NEW refusal \in Codes,
           NEW next \in {"debit", "findEvent"}, NEW date,
           FindDetail(r, refusal, next, date)
    PROVE  Ends(r)
<1>1. CASE refusal # OK
  BY <1>1, RefuseEnds DEF FindDetail
<1>2. CASE refusal = OK
  BY <1>2 DEF FindDetail, Goto, Ends, TypeOK
<1> QED
  BY <1>1, <1>2

LEMMA StepEnds ==
    ASSUME TypeOK, NEW r \in Requests, RequestStep(r)
    PROVE  Ends(r)
<1> USE RefuseEnds, CommittedEnds DEF Committing
<1>1. CASE Receive(r)
  <2>1. pc'[r] # "done"
    BY <1>1 DEF Receive, Goto, TypeOK
  <2> QED
    BY <1>1, <2>1 DEF Receive, Ends
<1>2. CASE Create(r)
  <2>1. "invalid_vote_event_deadline" \in Codes /\ "invalid_vote_event_deadline" # OK
    BY DEF Codes, Refusals, OK
  <2>2. CASE Refuse(r, "invalid_vote_event_deadline")
    BY <2>1, <2>2
  <2>3. CASE ~Refuse(r, "invalid_vote_event_deadline")
    <3>1. Committed(r)
      BY <1>2, <2>3 DEF Create
    <3> QED
      BY <1>2, <3>1
  <2> QED
    BY <2>2, <2>3
<1>3. CASE VoteStep(r)
  <2>1. {"insufficient_vote_token", "vote_event_already_participated",
         "vote_event_closed"} \subseteq Codes \ {OK}
    BY DEF Codes, Refusals, OK
  <2>2. CASE VoteFindDetail(r)
    BY <2>2, FindDetailEnds, RefusalsAreCodes DEF VoteFindDetail
  <2>3. CASE Debit(r)
    BY <2>1, <2>3 DEF Debit, Goto, Ends, TypeOK
  <2>4. CASE ReferenceEvent(r)
    BY <2>4 DEF ReferenceEvent, Goto, Ends, TypeOK
  <2>5. CASE InsertKey(r)
    BY <2>1, <2>5 DEF InsertKey, Goto, Ends, TypeOK
  <2>6. CASE ReferenceUser(r)
    BY <2>6 DEF ReferenceUser, Goto, Ends, TypeOK
  <2>7. CASE Count(r)
    BY <2>1, <2>7 DEF Count, Goto, Ends, TypeOK
  <2>8. CASE CommitVote(r)
    BY <2>8 DEF CommitVote
  <2> QED
    BY <1>3, <2>2, <2>3, <2>4, <2>5, <2>6, <2>7, <2>8 DEF VoteStep
<1>4. CASE ConfirmStep(r)
  <2>1. CASE ConfirmFindDetail(r)
    BY <2>1, FindDetailEnds, RefusalsAreCodes DEF ConfirmFindDetail
  <2>2. CASE ConfirmFindEvent(r)
    BY <2>2, RefusalsAreCodes DEF ConfirmFindEvent, Goto, Ends, TypeOK
  <2>3. CASE CommitConfirm(r)
    <3>1. "vote_event_result_already_confirmed" \in Refusals
      BY DEF Refusals
    <3> QED
      BY <2>3, <3>1 DEF CommitConfirm, Ends
  <2> QED
    BY <1>4, <2>1, <2>2, <2>3 DEF ConfirmStep
<1>5. CASE ClaimStep(r)
  <2>1. {"betting_reward_not_allowed", "betting_result_not_confirmed",
         "betting_reward_forbidden"} \subseteq Codes \ {OK}
    BY DEF Codes, Refusals, OK
  <2>2. CASE ClaimFindDetail(r)
    BY <2>2, FindDetailEnds, RefusalsAreCodes DEF ClaimFindDetail
  <2>3. CASE ClaimFindEvent(r)
    BY <2>1, <2>3 DEF ClaimFindEvent, Goto, Ends, TypeOK
  <2>4. CASE ClaimFindParticipation(r)
    BY <2>1, <2>4 DEF ClaimFindParticipation, Goto, Ends, TypeOK
  <2>5. CASE Credit(r)
    BY <2>5 DEF Credit, Goto, Ends, TypeOK
  <2>6. CASE CommitReward(r)
    BY <2>6 DEF CommitReward
  <2>7. CASE CommitClaim(r)
    BY <2>7 DEF CommitClaim
  <2> QED
    BY <1>5, <2>2, <2>3, <2>4, <2>5, <2>6, <2>7 DEF ClaimStep
<1>6. CASE RollBackVictim(r)
  BY <1>6 DEF RollBackVictim, Refuse, Ends
<1>7. CASE Fail(r)
  BY <1>7 DEF Fail, Ends
<1> QED
  BY <1>1, <1>2, <1>3, <1>4, <1>5, <1>6, <1>7 DEF RequestStep, Step

\* The only step to the commit of a claim that writes nothing.
LEMMA ToClaimCommit ==
    ASSUME TypeOK, NEW r \in Requests, CallMatchesStep(r), RequestStep(r),
           pc'[r] = "commit", call'[r].kind = "claim"
    PROVE  ClaimFindParticipation(r)
<1>1. ASSUME NEW code, Answer(r, code)
      PROVE  FALSE
  BY <1>1 DEF Answer, Goto, TypeOK
<1>2. ~Committed(r) /\ \A code : ~Refuse(r, code)
  BY <1>1 DEF Committed, Refuse
<1>3. ASSUME NEW refusal, NEW next \in {"debit", "findEvent"}, NEW date,
             FindDetail(r, refusal, next, date)
      PROVE  FALSE
  BY <1>2, <1>3 DEF FindDetail, Goto, TypeOK
<1>4. ~Receive(r)
  BY DEF Receive, Goto, TypeOK
<1>5. ~Create(r) /\ ~RollBackVictim(r) /\ ~Fail(r)
  BY <1>1, <1>2 DEF Create, RollBackVictim, Fail
<1>6. ~VoteStep(r)
  <2>1. ~VoteFindDetail(r)
    BY <1>3 DEF VoteFindDetail
  <2>2. ~Debit(r) /\ ~ReferenceEvent(r) /\ ~InsertKey(r) /\ ~ReferenceUser(r)
    BY <1>2 DEF Debit, ReferenceEvent, InsertKey, ReferenceUser, Goto, TypeOK
  <2>3. ~Count(r)
    BY <1>2 DEF Count, CallMatchesStep, Goto, locals, TypeOK
  <2>4. ~CommitVote(r)
    BY <1>2 DEF CommitVote
  <2> QED
    BY <2>1, <2>2, <2>3, <2>4 DEF VoteStep
<1>7. ~ConfirmStep(r)
  <2>1. ~ConfirmFindDetail(r)
    BY <1>3 DEF ConfirmFindDetail
  <2>2. ~ConfirmFindEvent(r) /\ ~CommitConfirm(r)
    BY <1>2 DEF ConfirmFindEvent, CommitConfirm, CallMatchesStep, Goto, locals
  <2> QED
    BY <2>1, <2>2 DEF ConfirmStep
<1>8. ClaimStep(r)
  BY <1>4, <1>5, <1>6, <1>7 DEF RequestStep, Step
<1>9. ~ClaimFindDetail(r)
  BY <1>3 DEF ClaimFindDetail
<1>10. ~ClaimFindEvent(r) /\ ~Credit(r) /\ ~CommitReward(r) /\ ~CommitClaim(r)
  BY <1>2 DEF ClaimFindEvent, Credit, CommitReward, CommitClaim, Goto, TypeOK
<1> QED
  BY <1>8, <1>9, <1>10 DEF ClaimStep
-----------------------------------------------------------------------------
(* What an answer speaks of does not change *)

\* Participations are only added, by their own request, and keep all but the
\* date they were claimed at; events are only added.
LEMMA TablesGrow ==
    ASSUME IInv, NEW r \in Requests, RequestStep(r)
    PROVE  /\ Inserted \subseteq Inserted' /\ Inserted' \subseteq Inserted \cup {r}
           /\ \A i \in Inserted :
                /\ participations'[i].event = participations[i].event
                /\ participations'[i].user = participations[i].user
                /\ participations'[i].selectedOption
                     = participations[i].selectedOption
                /\ participations'[i].tokenAmount = participations[i].tokenAmount
                /\ participations'[i].createdAt = participations[i].createdAt
           /\ Created \subseteq Created'
<1>1. Writes(r)
  BY StepKeeps DEF IInv, RequestOK
<1>2. CASE UNCHANGED tables
  BY <1>2 DEF tables, Inserted, Created
<1>3. CASE Create(r) /\ CreateWrites(call[r]) /\ call[r] \in Calls
  BY <1>3, CreateWritesRow
<1>4. CASE CommitVote(r)
  BY <1>4, CommitVoteWrites
<1>5. CASE CommitConfirm(r)
  BY <1>5, CommitConfirmWrites
<1>6. CASE CommitReward(r)
  BY <1>6, CommitRewardMarks DEF CommitReward, Created
<1> QED
  BY <1>1, <1>2, <1>3, <1>4, <1>5, <1>6 DEF Writes

\* Once an event has a result, its payouts stay.
LEMMA PayoutKept ==
    ASSUME IInv, NEW r \in Requests, RequestStep(r), NEW e \in Created,
           voteEvents[e].bettingResultOption # Null, NEW i
    PROVE  Payout(e, i)' = Payout(e, i)
<1> DEFINE pool == ParticipationsOf(e)
           o    == voteEvents[e].bettingResultOption
<1>1. DOMAIN pool' = DOMAIN pool /\ voteEvents'[e] = voteEvents[e]
  BY PoolFrozenStep
<1>2. /\ \A j \in DOMAIN pool : j \in Inserted /\ pool[j] = participations[j]
      /\ \A j \in DOMAIN pool' : pool'[j] = participations'[j]
  BY DEF ParticipationsOf
<1>3. SameBets(pool', pool)
  BY <1>1, <1>2, TablesGrow DEF SameBets
<1>4. calculateBettingPayouts(pool', o) = calculateBettingPayouts(pool, o)
  BY <1>3, SamePayouts
<1> QED
  BY <1>1, <1>4 DEF Payout

\* What was settled with one request stays so.
LEMMA SettledKept ==
    ASSUME IInv, NEW r \in Requests, RequestStep(r), NEW t \in Requests,
           reward'[t] = reward[t],
           NEW e \in Created, voteEvents[e].bettingResultOption # Null,
           NEW i \in Inserted, Settled(t, e, i)
    PROVE  Settled(t, e, i)'
<1>1. voteEvents'[e] = voteEvents[e]
  BY PoolFrozenStep
<1>2. participations'[i].selectedOption = participations[i].selectedOption
  BY TablesGrow
<1>3. Payout(e, i)' = Payout(e, i)
  BY PayoutKept
<1>4. participations[i].bettingRewardClaimedAt # Null =>
        participations'[i].bettingRewardClaimedAt # Null
  BY RewardPaidStep
<1> QED
  BY <1>1, <1>2, <1>3, <1>4 DEF Settled

LEMMA ClaimKept ==
    ASSUME IInv, NEW r \in Requests, RequestStep(r), NEW t \in Requests,
           reward'[t] = reward[t], call'[t] = call[t], call[t] \in Calls,
           voteEvents[call[t].event] # Null,
           voteEvents[call[t].event].bettingResultOption # Null,
           \E i \in OwnParticipations(call[t].event, call[t].user) :
              Settled(t, call[t].event, i)
    PROVE  /\ voteEvents'[call'[t].event] # Null
           /\ voteEvents'[call'[t].event].bettingResultOption # Null
           /\ \E i \in OwnParticipations(call[t].event, call[t].user)' :
                 Settled(t, call[t].event, i)'
<1> DEFINE e == call[t].event
           u == call[t].user
<1>1. e \in Created
  BY DEF Calls, Created
<1>2. voteEvents'[e] = voteEvents[e]
  BY <1>1, PoolFrozenStep
<1>3. PICK i \in OwnParticipations(e, u) : Settled(t, e, i)
  OBVIOUS
<1>4. /\ i \in Inserted /\ participations[i].event = e
      /\ participations[i].user = u
  BY DEF OwnParticipations
<1>5. i \in OwnParticipations(e, u)'
  BY <1>4, TablesGrow DEF OwnParticipations
<1>6. PICK f \in Created : f = e
  BY <1>1
<1>7. Settled(t, f, i)'
  BY <1>3, <1>4, <1>6, SettledKept
<1>8. Settled(t, e, i)'
  BY <1>6, <1>7 DEF Settled, Payout
<1> QED
  BY <1>2, <1>5, <1>8

-----------------------------------------------------------------------------
(* The invariant *)

\* An answered request keeps its answer, and one that is answered now had none.
LEMMA AnsweredStep ==
    ASSUME TypeOK, AnsweredWhenDone, NEW r \in Requests, CallMatchesStep(r),
           RequestStep(r)
    PROVE  /\ AnsweredWhenDone' /\ answer[r] = Null
           /\ \A t \in Requests \ {r} : answer'[t] = answer[t] /\ LocalsKept(t)
<1>1. \A t \in Requests \ {r} : LocalsKept(t)
  BY StepKeeps
<1>2. answer[r] = Null /\ pc[r] # "done"
  BY NotDone DEF AnsweredWhenDone
<1>3. ASSUME NEW code \in Codes, Answer(r, code)
      PROVE  /\ pc'[r] = "done" /\ answer'[r] # Null
             /\ \A t \in Requests \ {r} : answer'[t] = answer[t]
  <2>1. code # Null
    BY AbstractNullAssumption DEF Codes
  <2> QED
    BY <1>3, <2>1 DEF Answer, Goto, TypeOK
<1>4. OK \in Codes /\ InternalError \in Codes /\ Refusals \subseteq Codes
  BY DEF Codes
<1>5. \/ pc'[r] # "done" /\ answer' = answer
      \/ \E code \in Codes : Answer(r, code)
  BY <1>4, StepEnds DEF Ends, Refuse
<1>6. /\ answer'[r] # Null <=> pc'[r] = "done"
      /\ \A t \in Requests \ {r} : answer'[t] = answer[t]
  BY <1>2, <1>3, <1>5
<1> QED
  BY <1>1, <1>2, <1>6 DEF AnsweredWhenDone, LocalsKept

\* What a success stands for.
LEMMA Success ==
    ASSUME TypeOK, AnsweredWhenDone, NEW r \in Requests, CallMatchesStep(r),
           RequestStep(r), answer'[r] = OK
    PROVE  /\ call' = call /\ reward' = reward /\ call[r] \in Calls
           /\ call[r].kind = "vote" => CommitVote(r)
           /\ call[r].kind = "confirm" => CommitConfirm(r)
           /\ call[r].kind = "claim" => CommitReward(r) \/ CommitClaim(r)
<1>1. answer[r] = Null /\ OK # Null
  BY AnsweredStep, AbstractNullAssumption
<1>2. OK \notin Refusals /\ OK # InternalError
  BY DEF OK, InternalError, Refusals
<1>3. \A code : Answer(r, code) => answer'[r] = code /\ call' = call
  BY DEF Answer, TypeOK
<1>4. Answer(r, OK) /\ UNCHANGED reward /\ Committing(r)
  BY <1>1, <1>2, <1>3, StepEnds DEF Ends, Refuse
<1>5. pc[r] # "idle"
  BY <1>4 DEF Committing, Create, CommitVote, CommitConfirm, CommitReward, CommitClaim
<1> QED
  BY <1>3, <1>4, <1>5 DEF Committing, CallMatchesStep, ClaimSteps, Create, CommitVote,
     CommitConfirm, CommitReward, CommitClaim
LEMMA RefusedWritesNothing ==
    ASSUME IInv, AnsweredWhenDone, NEW r \in Requests, RequestStep(r),
           answer'[r] \in Refusals
    PROVE  r \notin Inserted'
<1>1. answer[r] = Null /\ Null \notin Refusals
  BY AnsweredStep, AbstractNullAssumption DEF IInv, RequestOK
<1>2. OK \notin Refusals /\ InternalError \notin Refusals
  BY DEF OK, InternalError, Refusals
<1>3. \A code : Answer(r, code) => answer'[r] = code
  BY DEF Answer, IInv, TypeOK
<1>4. UNCHANGED tables
  BY <1>1, <1>2, <1>3, StepEnds DEF Ends, Refuse, IInv
<1>5. r \notin Inserted
  BY NotDone DEF IInv, ParticipationsFit
<1> QED
  BY <1>4, <1>5 DEF tables, Inserted

\* A result that was confirmed stays confirmed, and only once.
Confirmed(t) == answer[t] = OK /\ call[t].kind = "confirm"

LEMMA ConfirmedStep ==
    ASSUME AnswersInv, NEW r \in Requests, RequestStep(r), NEW t \in Requests,
           Confirmed(t)'
    PROVE  /\ voteEvents'[call'[t].event] # Null
           /\ voteEvents'[call'[t].event].bettingResultOption = call'[t].option
           /\ voteEvents'[call'[t].event].organizerUserId = call'[t].user
           /\ \A x \in Requests \ {t} :
                ~(Confirmed(x)' /\ call'[x].event = call'[t].event)
<1> USE DEF AnswersInv
<1>1. \A x \in Requests : CallMatchesStep(x)
  BY DEF IInv, RequestOK
<1>2. \A x \in Requests \ {r} :
         answer'[x] = answer[x] /\ call'[x] = call[x]
  BY <1>1, AnsweredStep DEF LocalsKept, IInv
<1>3. ASSUME NEW x \in Requests, Confirmed(x)
      PROVE  /\ call[x].event \in Created
             /\ voteEvents[call[x].event].bettingResultOption = call[x].option
             /\ voteEvents[call[x].event].organizerUserId = call[x].user
             /\ voteEvents[call[x].event].bettingResultOption # Null
             /\ voteEvents'[call[x].event] = voteEvents[call[x].event]
  <2>1. answer[x] # Null
    BY <1>3, AbstractNullAssumption DEF Confirmed
  <2>2. pc[x] = "done"
    BY <2>1 DEF AnsweredWhenDone
  <2>3. call[x] \in Calls
    BY <1>1, <2>2 DEF CallMatchesStep
  <2>4. /\ call[x].event \in Created
        /\ voteEvents[call[x].event].bettingResultOption = call[x].option
        /\ voteEvents[call[x].event].organizerUserId = call[x].user
    BY <1>3, <2>3 DEF Confirmed, AnswersMatchTables, ConfirmedExists, Created, Calls
  <2>5. voteEvents[call[x].event].bettingResultOption # Null
    BY <2>3, <2>4, NullAssumption DEF Calls
  <2> QED
    BY <2>4, <2>5, PoolFrozenStep
<1>4. \A x \in Requests \ {r} : Confirmed(x)' <=> Confirmed(x)
  BY <1>2 DEF Confirmed
<1>5. ASSUME Confirmed(r)'
      PROVE  CommitConfirm(r) /\ call' = call
  BY <1>1, <1>5, Success DEF Confirmed, IInv
<1>6. ASSUME CommitConfirm(r), call' = call
      PROVE  /\ voteEvents'[call[r].event] # Null
             /\ voteEvents[call[r].event].bettingResultOption = Null
             /\ voteEvents'[call[r].event].bettingResultOption = call[r].option
             /\ voteEvents'[call[r].event].organizerUserId = call[r].user
  <2>1. /\ call[r].event \in Created /\ Created' = Created
        /\ voteEvents[call[r].event].bettingResultOption = Null
        /\ voteEvents[call[r].event].organizerUserId = call[r].user
        /\ voteEvents'[call[r].event].bettingResultOption = call[r].option
        /\ voteEvents'[call[r].event].organizerUserId
             = voteEvents[call[r].event].organizerUserId
    BY <1>6, CommitConfirmWrites
  <2> QED
    BY <2>1 DEF Created
<1>7. CASE t = r
  <2>1. CommitConfirm(r) /\ call' = call
    BY <1>5, <1>7
  <2>2. ASSUME NEW x \in Requests \ {r}, Confirmed(x)', call'[x].event = call'[r].event
        PROVE  FALSE
    BY <1>3, <1>4, <1>6, <2>1, <2>2
  <2> QED
    BY <1>6, <1>7, <2>1, <2>2
<1>8. CASE t # r
  <2>1. Confirmed(t) /\ call'[t] = call[t]
    BY <1>2, <1>4, <1>8
  <2>2. /\ voteEvents'[call[t].event] # Null
        /\ voteEvents'[call[t].event].bettingResultOption = call[t].option
        /\ voteEvents'[call[t].event].organizerUserId = call[t].user
    BY <1>3, <2>1 DEF Created
  <2>3. ASSUME NEW x \in Requests \ {t}, Confirmed(x)', call'[x].event = call'[t].event
        PROVE  FALSE
    <3>1. CASE x = r
      BY <1>3, <1>5, <1>6, <2>1, <2>3, <3>1
    <3>2. CASE x # r
      BY <1>2, <1>4, <2>1, <2>3, <3>2 DEF AnswersMatchTables, Confirmed
    <3> QED
      BY <3>1, <3>2
  <2> QED
    BY <2>1, <2>2, <2>3
<1> QED
  BY <1>7, <1>8

LEMMA AnswersMatchStep ==
    ASSUME AnswersInv, NEW r \in Requests, RequestStep(r)
    PROVE  AnswersMatchTables' /\ ConfirmedExists'
<1> USE DEF AnswersInv
<1>1. CallMatchesStep(r) /\ TypeOK
  BY DEF IInv, RequestOK
<1>2. \A t \in Requests \ {r} :
         answer'[t] = answer[t] /\ call'[t] = call[t]
  BY <1>1, AnsweredStep DEF LocalsKept
<1>3. ASSUME NEW t \in Requests, answer'[t] = OK, call'[t].kind = "vote"
      PROVE  t \in Inserted'
  <2>1. CASE t = r
    BY <1>1, <1>3, <2>1, Success, CommitVoteWrites
  <2>2. CASE t # r
    BY <1>2, <1>3, <2>2, TablesGrow DEF AnswersMatchTables
  <2> QED
    BY <2>1, <2>2
<1>4. ASSUME NEW t \in Requests, answer'[t] \in Refusals, call'[t].kind = "vote"
      PROVE  t \notin Inserted'
  <2>1. CASE t = r
    BY <1>4, <2>1, RefusedWritesNothing
  <2>2. CASE t # r
    BY <1>2, <1>4, <2>2, TablesGrow DEF AnswersMatchTables
  <2> QED
    BY <2>1, <2>2
<1>5. ConfirmedExists'
  BY ConfirmedStep DEF ConfirmedExists, Confirmed
<1>6. ASSUME NEW t \in Requests, answer'[t] = OK, call'[t].kind = "confirm"
      PROVE  /\ voteEvents'[call'[t].event].bettingResultOption = call'[t].option
             /\ voteEvents'[call'[t].event].organizerUserId = call'[t].user
             /\ \A x \in Requests \ {t} :
                  ~(/\ answer'[x] = OK /\ call'[x].kind = "confirm"
                    /\ call'[x].event = call'[t].event)
  BY <1>6, ConfirmedStep DEF Confirmed
<1> QED
  BY <1>3, <1>4, <1>5, <1>6 DEF AnswersMatchTables

LEMMA PaidHaveWonStep ==
    ASSUME IInv, PaidHaveWon, NEW r \in Requests, RequestStep(r)
    PROVE  PaidHaveWon'
<1> SUFFICES ASSUME NEW i \in Inserted',
                    participations'[i].bettingRewardClaimedAt # Null
             PROVE  LET e == participations'[i].event
                    IN  /\ voteEvents'[e].bettingResultOption # Null
                        /\ participations'[i].selectedOption
                             = voteEvents'[e].bettingResultOption
  BY DEF PaidHaveWon
<1>1. ASSUME NEW j \in Inserted PROVE participations[j].event \in Created
  BY DEF IInv, ParticipationsFit, TypeOK, Inserted, Created, Participation
<1>2. CASE i \in Inserted /\ participations[i].bettingRewardClaimedAt # Null
  BY <1>1, <1>2, TablesGrow, PoolFrozenStep DEF PaidHaveWon
<1>3. CASE i \in Inserted /\ participations[i].bettingRewardClaimedAt = Null
  <2>1. participations'[i] # participations[i]
    BY <1>3
  <2>2. Writes(r)
    BY StepKeeps DEF IInv, RequestOK
  <2>3. CommitReward(r)
    BY <1>3, <2>1, <2>2, CommitVoteWrites, CommitConfirmWrites
       DEF Writes, tables, CreateWrites
  <2>4. i \in OwnParticipations(call[r].event, call[r].user)
    BY <1>3, <2>1, <2>3, CommitRewardMarks
  <2>5. PICK j \in OwnParticipations(call[r].event, call[r].user) :
          participations[j].selectedOption
            = voteEvents[call[r].event].bettingResultOption
    BY <2>3 DEF IInv, RequestOK, RewardReserved, CommitReward
  <2>6. j = i
    BY <2>4, <2>5 DEF OwnParticipations, IInv, OneParticipationPerUser
  <2>7. voteEvents[call[r].event].bettingResultOption # Null
    BY <2>3 DEF IInv, RequestOK, EventReserved, ClaimSteps, CommitReward
  <2>8. participations[i].event = call[r].event /\ voteEvents' = voteEvents
    BY <2>3, <2>4 DEF OwnParticipations, CommitReward
  <2> QED
    BY <1>3, <2>5, <2>6, <2>7, <2>8, TablesGrow
<1>4. CASE i \notin Inserted
  <2>1. Writes(r)
    BY StepKeeps DEF IInv, RequestOK
  <2>2. CommitVote(r)
    BY <1>4, <2>1, CreateWritesRow, CommitConfirmWrites, CommitRewardMarks
       DEF Writes, tables, Inserted
  <2> QED
    BY <1>4, <2>2, CommitVoteWrites
<1> QED
  BY <1>2, <1>3, <1>4
\* A claim about to commit without writing was settled before, or has lost.
LEMMA FoundSettled ==
    ASSUME IInv, NEW r \in Requests, ClaimFindParticipation(r),
           pc'[r] = "commit"
    PROVE  /\ voteEvents'[call'[r].event] # Null
           /\ voteEvents'[call'[r].event].bettingResultOption # Null
           /\ \E i \in OwnParticipations(call[r].event, call[r].user)' :
                 Settled(r, call[r].event, i)'
<1> DEFINE e      == call[r].event
           own    == OwnParticipations(e, call[r].user)
           i      == CHOOSE j \in own : TRUE
           earned == EarnedTokenAmount(e, i)
<1>1. own # {}
  BY DEF ClaimFindParticipation, Refuse, Answer, Goto, IInv, TypeOK
<1>2. /\ reward'[r] = earned /\ UNCHANGED <<tables, call>>
      /\ ~(earned # Null /\ IsUnclaimed(i))
  BY <1>1 DEF ClaimFindParticipation, Goto, IInv, TypeOK
<1>3. /\ voteEvents[e] # Null /\ voteEvents[e].bettingResultOption # Null
      /\ e \in Events
  BY DEF IInv, RequestOK, EventFound, EventReserved, ClaimSteps, CallMatchesStep,
         ClaimFindParticipation, Calls
<1>4. i \in own /\ i \in Inserted /\ participations[i].event = e
  BY <1>1 DEF OwnParticipations
<1>5. participations[i].selectedOption = voteEvents[e].bettingResultOption =>
        Payout(e, i) # Null
  BY <1>3, <1>4, RewardType, NullAssumption DEF IInv
<1>6. IF participations[i].selectedOption = voteEvents[e].bettingResultOption
      THEN earned = Payout(e, i) /\ participations[i].bettingRewardClaimedAt # Null
      ELSE earned = Null
  BY <1>2, <1>5 DEF EarnedTokenAmount, IsUnclaimed
<1> HIDE DEF i, earned
<1>7. PICK f \in Events, j \in Inserted : f = e /\ j = i
  BY <1>3, <1>4
<1>8. Settled(r, f, j)'
  <2>1. Payout(f, j)' = Payout(f, j)
    BY <1>2 DEF Payout, ParticipationsOf, Inserted, tables
  <2> QED
    BY <1>2, <1>6, <1>7, <2>1 DEF Settled, tables
<1>9. j \in OwnParticipations(call[r].event, call[r].user)'
  BY <1>2, <1>4, <1>7 DEF OwnParticipations, Inserted, tables
<1>10. Settled(r, call[r].event, j)'
  BY <1>2, <1>7, <1>8 DEF Settled, Payout
<1> QED
  BY <1>2, <1>3, <1>9, <1>10 DEF tables

\* A claim that commits its reward has credited its payout.
LEMMA RewardSettled ==
    ASSUME IInv, NEW r \in Requests, CommitReward(r), RequestStep(r),
           reward' = reward, call' = call
    PROVE  /\ voteEvents'[call'[r].event] # Null
           /\ voteEvents'[call'[r].event].bettingResultOption # Null
           /\ \E i \in OwnParticipations(call[r].event, call[r].user)' :
                 Settled(r, call[r].event, i)'
<1> DEFINE e   == call[r].event
           u   == call[r].user
           own == OwnParticipations(e, u)
<1>1. /\ voteEvents[e] # Null /\ voteEvents[e].bettingResultOption # Null
      /\ e \in Created /\ voteEvents' = voteEvents
  BY DEF IInv, RequestOK, EventFound, EventReserved, ClaimSteps, CallMatchesStep,
         CommitReward, Calls, Created
<1>2. PICK i \in own :
        /\ participations[i].selectedOption = voteEvents[e].bettingResultOption
        /\ reward[r] = Payout(e, i)
  BY DEF IInv, RequestOK, RewardReserved, CommitReward
<1>3. /\ i \in Inserted /\ i \in Requests /\ participations[i] \in Participation
      /\ participations[i].event = e /\ participations[i].user = u
  BY DEF OwnParticipations, Inserted, IInv, TypeOK
<1>4. participations'[i].bettingRewardClaimedAt # Null
  <2>1. stamp[r] \in Nat
    BY DEF IInv, TypeOK
  <2>2. participations'[i] =
          [participations[i] EXCEPT !.bettingRewardClaimedAt = stamp[r]]
    BY <1>3 DEF CommitReward
  <2> QED
    BY <1>3, <2>1, <2>2, NullAssumption DEF Participation
<1>5. /\ participations'[i].selectedOption = participations[i].selectedOption
      /\ i \in OwnParticipations(e, u)'
  BY <1>3, TablesGrow DEF OwnParticipations
<1>6. PICK f \in Created : f = e
  BY <1>1
<1>7. Payout(f, i)' = Payout(f, i)
  BY <1>1, <1>6, PayoutKept
<1>8. Settled(r, f, i)'
  BY <1>1, <1>2, <1>4, <1>5, <1>6, <1>7 DEF Settled
<1>9. Settled(r, e, i)'
  BY <1>6, <1>8 DEF Settled, Payout
<1> QED
  BY <1>1, <1>5, <1>9

LEMMA ClaimSettledStep ==
    ASSUME AnswersInv, NEW r \in Requests, RequestStep(r), NEW t \in Requests
    PROVE  ClaimSettled(t)'
<1> USE DEF AnswersInv
<1> SUFFICES ASSUME call'[t] # Null, call'[t].kind = "claim",
                    pc'[t] = "commit" \/ answer'[t] = OK
             PROVE  /\ voteEvents'[call'[t].event] # Null
                    /\ voteEvents'[call'[t].event].bettingResultOption # Null
                    /\ \E i \in OwnParticipations(call[t].event, call[t].user)' :
                          Settled(t, call[t].event, i)'
  BY DEF ClaimSettled
<1>1. CallMatchesStep(t) /\ CallMatchesStep(r) /\ TypeOK
  BY DEF IInv, RequestOK
<1>2. OK # Null
  BY AbstractNullAssumption
<1>3. ASSUME call'[t] = call[t], reward'[t] = reward[t],
             pc[t] = "commit" \/ answer[t] = OK
      PROVE  /\ voteEvents'[call'[t].event] # Null
             /\ voteEvents'[call'[t].event].bettingResultOption # Null
             /\ \E i \in OwnParticipations(call[t].event, call[t].user)' :
                   Settled(t, call[t].event, i)'
  <2>1. call[t] \in Calls
    BY <1>1, <1>2, <1>3 DEF CallMatchesStep, AnsweredWhenDone
  <2>2. /\ voteEvents[call[t].event] # Null
        /\ voteEvents[call[t].event].bettingResultOption # Null
        /\ \E i \in OwnParticipations(call[t].event, call[t].user) :
              Settled(t, call[t].event, i)
    BY <1>3 DEF ClaimSettled
  <2> QED
    BY <1>3, <2>1, <2>2, ClaimKept
<1>4. CASE t # r
  <2>1. answer'[t] = answer[t] /\ LocalsKept(t)
    BY <1>1, <1>4, AnsweredStep
  <2> QED
    BY <1>3, <2>1 DEF LocalsKept
<1>5. CASE t = r /\ pc'[r] = "commit"
  <2>1. ClaimFindParticipation(r)
    BY <1>1, <1>5, ToClaimCommit
  <2> QED
    BY <1>5, <2>1, FoundSettled
<1>6. CASE t = r /\ answer'[r] = OK
  <2>1. call' = call /\ reward' = reward /\ (CommitReward(r) \/ CommitClaim(r))
    BY <1>1, <1>6, Success
  <2>2. CASE CommitReward(r)
    BY <1>6, <2>1, <2>2, RewardSettled
  <2>3. CASE CommitClaim(r)
    BY <1>3, <1>6, <2>1, <2>3 DEF CommitClaim
  <2> QED
    BY <2>1, <2>2, <2>3
<1> QED
  BY <1>4, <1>5, <1>6

LEMMA AnswersInit == Init => AnswersInv
<1> SUFFICES ASSUME Init PROVE AnswersInv
  OBVIOUS
<1>1. \A r \in Requests : /\ answer[r] = Null /\ pc[r] = "idle" /\ call[r] = Null
  BY DEF Init
<1>2. Null \notin Refusals \cup {OK, InternalError} /\ Inserted = {}
  BY AbstractNullAssumption DEF Init, Inserted
<1> QED
  BY <1>1, <1>2, InvInit DEF AnswersInv, AnsweredWhenDone, ConfirmedExists, PaidHaveWon,
     AnswersMatchTables, ClaimSettled

LEMMA AnswersStep == AnswersInv /\ [Next]_vars => AnswersInv'
<1> SUFFICES ASSUME AnswersInv, [Next]_vars PROVE AnswersInv'
  OBVIOUS
<1>1. IInv'
  BY InvStep DEF AnswersInv
<1>2. ASSUME NEW r \in Requests, RequestStep(r)
      PROVE  AnswersInv'
  <2>1. AnsweredWhenDone'
    BY <1>2, AnsweredStep DEF AnswersInv, IInv, RequestOK
  <2>2. PaidHaveWon'
    BY <1>2, PaidHaveWonStep DEF AnswersInv
  <2>3. AnswersMatchTables' /\ ConfirmedExists'
    BY <1>2, AnswersMatchStep
  <2>4. \A t \in Requests : ClaimSettled(t)'
    BY <1>2, ClaimSettledStep
  <2> QED
    BY <1>1, <2>1, <2>2, <2>3, <2>4 DEF AnswersInv
<1>3. CASE UNCHANGED <<tables, locals, pc, held, answer, faults>>
  BY <1>1, <1>3 DEF AnswersInv, AnsweredWhenDone, ConfirmedExists, PaidHaveWon,
     AnswersMatchTables, ClaimSettled, Settled, Payout, ParticipationsOf,
     OwnParticipations, Inserted, tables, locals
<1>4. CASE Tick \/ Finished \/ UNCHANGED vars
  BY <1>3, <1>4 DEF Tick, Finished, vars, tables, locals
<1> QED
  BY <1>2, <1>4 DEF Next, RequestStep

\* The answers of all requests agree with the tables in every state.
THEOREM AnswersInvariance == Spec => []AnswersInv
BY AnswersInit, AnswersStep, PTL DEF Spec

\* A vote answered with success is recorded, a refused one is not, and of the
\* confirmations of one event at most one succeeds, with the result it gave:
\* the commits of participate and confirmBettingResult answer what they wrote.
THEOREM AnswersAgree == Spec => []AnswersMatchTables
<1>1. AnswersInv => AnswersMatchTables
  BY DEF AnswersInv
<1> QED
  BY <1>1, AnswersInvariance, PTL

\* Every successful claim of a user on an event answers the same amount, which
\* has been credited, or none: a repeated claim recomputes the payout from a
\* pool that is frozen (claimBettingReward).
THEOREM ClaimsAnswerAlike == Spec => []ClaimsAgree
<1>1. AnswersInv => ClaimsAgree
  <2> SUFFICES ASSUME AnswersInv, NEW r \in Requests, answer[r] = OK,
                      call[r].kind = "claim"
               PROVE  \E i \in OwnParticipations(call[r].event, call[r].user) :
                         Settled(r, call[r].event, i)
    BY DEF ClaimsAgree, Settled
  <2>1. answer[r] # Null
    BY AbstractNullAssumption
  <2>2. call[r] # Null
    BY <2>1, NullAssumption DEF AnswersInv, AnsweredWhenDone, IInv, RequestOK,
       CallMatchesStep
  <2> QED
    BY <2>2 DEF AnswersInv, ClaimSettled
<1> QED
  BY <1>1, AnswersInvariance, PTL

-----------------------------------------------------------------------------
(* The counters of an event *)

RowMatches(row, bets) ==
    /\ \A o \in Options :
         /\ row.participantCount[o] = Cardinality(Winners(bets, o))
         /\ row.tokenAmount[o] = sumTokenAmounts(bets, Winners(bets, o))
    /\ row.totalParticipantCount
         = row.participantCount["A"] + row.participantCount["B"]
    /\ row.totalTokenAmount = row.tokenAmount["A"] + row.tokenAmount["B"]

LEMMA NoBets ==
    ASSUME NEW category, NEW organizer, NEW deadlineAt, NEW bets,
           DOMAIN bets = {}
    PROVE  RowMatches(NewEvent(category, organizer, deadlineAt), bets)
<1>1. \A o : Winners(bets, o) = {}
  BY DEF Winners
<1>2. \A o : /\ Cardinality(Winners(bets, o)) = 0
             /\ sumTokenAmounts(bets, Winners(bets, o)) = 0
  BY <1>1, FS_EmptySet, SumEmpty DEF sumTokenAmounts
<1>3. /\ \A o \in Options :
           /\ NewEvent(category, organizer, deadlineAt).participantCount[o] = 0
           /\ NewEvent(category, organizer, deadlineAt).tokenAmount[o] = 0
      /\ NewEvent(category, organizer, deadlineAt).totalParticipantCount = 0
      /\ NewEvent(category, organizer, deadlineAt).totalTokenAmount = 0
  BY DEF NewEvent
<1>4. "A" \in Options /\ "B" \in Options
  BY DEF Options
<1> QED
  BY <1>2, <1>3, <1>4 DEF RowMatches

LEMMA SameMatch ==
    ASSUME NEW row, NEW b, NEW c, SameBets(b, c), RowMatches(row, b)
    PROVE  RowMatches(row, c)
<1>1. \A o : /\ Winners(b, o) = Winners(c, o)
             /\ sumTokenAmounts(b, Winners(b, o))
                  = sumTokenAmounts(c, Winners(c, o))
  BY SameSums
<1> QED
  BY <1>1 DEF RowMatches

\* A column of counters after a vote.
LEMMA AggregateCounts ==
    ASSUME NEW row \in VoteEvent, NEW option \in Options, NEW tokenAmount \in Nat
    PROVE  LET new == AggregateUpdate(row, option, tokenAmount)
           IN  /\ \A o \in Options :
                    /\ new.participantCount[o] = IF o = option
                          THEN row.participantCount[o] + 1
                          ELSE row.participantCount[o]
                    /\ new.tokenAmount[o] = IF o = option
                          THEN row.tokenAmount[o] + tokenAmount
                          ELSE row.tokenAmount[o]
               /\ new.totalParticipantCount = row.totalParticipantCount + 1
               /\ new.totalTokenAmount = row.totalTokenAmount + tokenAmount
<1> DEFINE counts == [row.participantCount EXCEPT ![option] = @ + 1]
           stakes == [row.tokenAmount EXCEPT ![option] = @ + tokenAmount]
           count  == row.totalParticipantCount + 1
           stake  == row.totalTokenAmount + tokenAmount
           new    == [row EXCEPT !.participantCount = counts,
                                 !.totalParticipantCount = count,
                                 !.tokenAmount = stakes,
                                 !.totalTokenAmount = stake]
<1>1. AggregateUpdate(row, option, tokenAmount) = new
  BY DEF AggregateUpdate, VoteEvent
<1>2. \A o \in Options :
        /\ counts[o] = IF o = option THEN row.participantCount[o] + 1
                       ELSE row.participantCount[o]
        /\ stakes[o] = IF o = option THEN row.tokenAmount[o] + tokenAmount
                       ELSE row.tokenAmount[o]
  BY DEF VoteEvent
<1> HIDE DEF counts, stakes
<1>3. /\ new.participantCount = counts /\ new.tokenAmount = stakes
      /\ new.totalParticipantCount = count /\ new.totalTokenAmount = stake
  BY DEF VoteEvent
<1> QED
  BY <1>1, <1>2, <1>3

LEMMA CountedVote ==
    ASSUME NEW row \in VoteEvent, NEW b, NEW c, NEW r, NEW option \in Options,
           NEW tokenAmount \in Nat, IsFiniteSet(DOMAIN b), r \notin DOMAIN b,
           \A i \in DOMAIN b : b[i].tokenAmount \in Nat /\ c[i] = b[i],
           DOMAIN c = DOMAIN b \cup {r}, c[r].selectedOption = option,
           c[r].tokenAmount = tokenAmount, RowMatches(row, b)
    PROVE  RowMatches(AggregateUpdate(row, option, tokenAmount), c)
<1> DEFINE W(o) == Winners(b, o)
           f == [i \in DOMAIN c |-> c[i].tokenAmount]
<1>1. /\ \A o : Winners(c, o) = IF o = option THEN W(o) \cup {r} ELSE W(o)
      /\ \A o : r \notin W(o) /\ W(o) \subseteq DOMAIN b /\ IsFiniteSet(W(o))
  BY FS_Subset DEF Winners
<1>2. \A i \in DOMAIN b \cup {r} : f[i] = c[i].tokenAmount /\ f[i] \in Nat
  OBVIOUS
<1>3. \A o : sumTokenAmounts(b, W(o)) = TokenSum(f, W(o))
  <2> TAKE o
  <2>1. \A i \in W(o) : [j \in W(o) |-> b[j].tokenAmount][i] = f[i]
    BY <1>1
  <2> QED
    BY <2>1, SumSame DEF sumTokenAmounts
<1>4. \A o : sumTokenAmounts(c, Winners(c, o)) = TokenSum(f, Winners(c, o))
  <2> TAKE o
  <2>1. \A i \in Winners(c, o) :
          [j \in Winners(c, o) |-> c[j].tokenAmount][i] = f[i]
    BY DEF Winners
  <2> QED
    BY <2>1, SumSame DEF sumTokenAmounts
<1>5. f[r] = tokenAmount
  OBVIOUS
<1> HIDE DEF f
<1>6. \A o : TokenSum(f, Winners(c, o)) = IF o = option
               THEN TokenSum(f, W(o)) + tokenAmount ELSE TokenSum(f, W(o))
  <2> TAKE o
  <2>1. IsFiniteSet(W(o)) /\ r \notin W(o) /\ \A i \in W(o) \cup {r} : f[i] \in Nat
    BY <1>1, <1>2
  <2>2. TokenSum(f, W(o) \cup {r}) = TokenSum(f, W(o)) + f[r]
    BY <2>1, SumAdd
  <2> QED
    BY <1>1, <1>5, <2>2
<1>7. \A o : Cardinality(Winners(c, o)) = IF o = option
               THEN Cardinality(W(o)) + 1 ELSE Cardinality(W(o))
  BY <1>1, FS_AddElement
<1> DEFINE new == AggregateUpdate(row, option, tokenAmount)
<1>8. \A o \in Options : /\ new.participantCount[o] = Cardinality(Winners(c, o))
                         /\ new.tokenAmount[o] = sumTokenAmounts(c, Winners(c, o))
  BY <1>3, <1>4, <1>6, <1>7, AggregateCounts DEF RowMatches
<1>9. /\ row.participantCount["A"] \in Nat /\ row.participantCount["B"] \in Nat
      /\ row.tokenAmount["A"] \in Nat /\ row.tokenAmount["B"] \in Nat
      /\ row.totalParticipantCount \in Nat /\ row.totalTokenAmount \in Nat
  BY DEF VoteEvent, Options
<1>10. /\ new.totalParticipantCount
            = new.participantCount["A"] + new.participantCount["B"]
       /\ new.totalTokenAmount = new.tokenAmount["A"] + new.tokenAmount["B"]
  <2>1. /\ row.totalParticipantCount
             = row.participantCount["A"] + row.participantCount["B"]
        /\ row.totalTokenAmount = row.tokenAmount["A"] + row.tokenAmount["B"]
    BY DEF RowMatches
  <2>2. option = "A" \/ option = "B"
    BY DEF Options
  <2>3. "A" \in Options /\ "B" \in Options /\ "A" # "B"
    BY DEF Options
  <2> HIDE DEF new
  <2>4. /\ new.participantCount["A"] = IF "A" = option
              THEN row.participantCount["A"] + 1 ELSE row.participantCount["A"]
        /\ new.participantCount["B"] = IF "B" = option
              THEN row.participantCount["B"] + 1 ELSE row.participantCount["B"]
        /\ new.tokenAmount["A"] = IF "A" = option
              THEN row.tokenAmount["A"] + tokenAmount ELSE row.tokenAmount["A"]
        /\ new.tokenAmount["B"] = IF "B" = option
              THEN row.tokenAmount["B"] + tokenAmount ELSE row.tokenAmount["B"]
        /\ new.totalParticipantCount = row.totalParticipantCount + 1
        /\ new.totalTokenAmount = row.totalTokenAmount + tokenAmount
    BY <2>3, AggregateCounts DEF new
  <2> QED
    BY <1>9, <2>1, <2>2, <2>3, <2>4
<1> QED
  BY <1>8, <1>10 DEF RowMatches

\* The participations of an event are finitely many and staked tokens.
LEMMA PoolType ==
    ASSUME TypeOK, NEW e
    PROVE  /\ IsFiniteSet(DOMAIN ParticipationsOf(e))
           /\ DOMAIN ParticipationsOf(e)
                = {i \in Inserted : participations[i].event = e}
           /\ \A i \in DOMAIN ParticipationsOf(e) :
                /\ ParticipationsOf(e)[i] = participations[i]
                /\ ParticipationsOf(e)[i] \in Participation
                /\ ParticipationsOf(e)[i].tokenAmount \in Nat
<1>1. DOMAIN ParticipationsOf(e) = {i \in Inserted : participations[i].event = e}
  BY DEF ParticipationsOf
<1>2. DOMAIN ParticipationsOf(e) \subseteq Requests
  BY <1>1 DEF Inserted
<1>3. IsFiniteSet(DOMAIN ParticipationsOf(e))
  BY <1>2, FS_Subset, VoteEventsAssumption
<1>4. \A i \in DOMAIN ParticipationsOf(e) :
        ParticipationsOf(e)[i] = participations[i]
        /\ ParticipationsOf(e)[i] \in Participation
  BY DEF ParticipationsOf, Inserted, TypeOK
<1> QED
  BY <1>1, <1>3, <1>4 DEF Participation

\* An event whose counters and participations a step leaves alone.
LEMMA MatchKept ==
    ASSUME IInv, NEW r \in Requests, RequestStep(r), NEW e \in Events,
           DOMAIN ParticipationsOf(e)' = DOMAIN ParticipationsOf(e),
           RowMatches(voteEvents[e], ParticipationsOf(e)),
           /\ voteEvents'[e].participantCount = voteEvents[e].participantCount
           /\ voteEvents'[e].totalParticipantCount
                = voteEvents[e].totalParticipantCount
           /\ voteEvents'[e].tokenAmount = voteEvents[e].tokenAmount
           /\ voteEvents'[e].totalTokenAmount = voteEvents[e].totalTokenAmount
    PROVE  RowMatches(voteEvents[e], ParticipationsOf(e))'
<1> DEFINE pool == ParticipationsOf(e)
<1>1. /\ \A j \in DOMAIN pool : j \in Inserted /\ pool[j] = participations[j]
      /\ \A j \in DOMAIN pool' : pool'[j] = participations'[j]
  BY DEF ParticipationsOf
<1>2. SameBets(pool, pool')
  BY <1>1, TablesGrow DEF SameBets
<1>3. RowMatches(voteEvents[e], pool')
  BY <1>2, SameMatch
<1> QED
  BY <1>3 DEF RowMatches
LEMMA CountersCreate ==
    ASSUME IInv, CountersMatch, NEW r \in Requests, RequestStep(r),
           CreateWrites(call[r]), call[r] \in Calls
    PROVE  CountersMatch'
<1> DEFINE c == call[r]
<1>1. \A e \in Created : RowMatches(voteEvents[e], ParticipationsOf(e))
  BY DEF CountersMatch, RowMatches
<1>2. /\ Inserted' = Inserted /\ participations' = participations
      /\ c.event \notin Created /\ Created' = Created \cup {c.event}
      /\ \A e \in Created : voteEvents'[e] = voteEvents[e]
  BY CreateWritesRow
<1>3. \A e : ParticipationsOf(e)' = ParticipationsOf(e)
  BY <1>2 DEF ParticipationsOf
<1>4. voteEvents'[c.event] = NewEvent(c.category, c.user, c.deadlineAt)
  BY DEF CreateWrites, Calls, IInv, TypeOK
<1>5. DOMAIN ParticipationsOf(c.event) = {}
  <2>1. \A i \in Inserted : participations[i].event \in Created
    BY DEF IInv, ParticipationsFit, TypeOK, Inserted, Created, Participation
  <2> QED
    BY <1>2, <2>1 DEF ParticipationsOf
<1>6. RowMatches(voteEvents'[c.event], ParticipationsOf(c.event))
  BY <1>4, <1>5, NoBets
<1>7. \A e \in Created' : RowMatches(voteEvents'[e], ParticipationsOf(e)')
  BY <1>1, <1>2, <1>3, <1>6
<1> QED
  BY <1>7 DEF CountersMatch, RowMatches

LEMMA CountersVote ==
    ASSUME IInv, CountersMatch, NEW r \in Requests, RequestStep(r), CommitVote(r)
    PROVE  CountersMatch'
<1> DEFINE c == call[r]
<1>1. \A e \in Created : RowMatches(voteEvents[e], ParticipationsOf(e))
  BY DEF CountersMatch, RowMatches
<1>2. /\ c \in Calls /\ c.event \in Events /\ c.event \in Created
      /\ voteEvents[c.event] \in VoteEvent
      /\ Created' = Created /\ r \notin Inserted /\ Inserted' = Inserted \cup {r}
      /\ \A i \in Inserted : participations'[i] = participations[i]
  BY VoteAtCommit, CommitVoteWrites DEF Calls
<1>3. PICK e \in Created : e = c.event
  BY <1>2
<1>4. voteEvents'[e] = AggregateUpdate(voteEvents[e], c.option, c.tokenAmount)
  BY <1>2, <1>3 DEF CommitVote, IInv, TypeOK
<1>5. RowMatches(voteEvents'[e], ParticipationsOf(e)')
  <2> DEFINE b == ParticipationsOf(e)
             n == ParticipationsOf(e)'
  <2>1. /\ IsFiniteSet(DOMAIN b)
        /\ \A i \in DOMAIN b : b[i].tokenAmount \in Nat /\ b[i] = participations[i]
        /\ DOMAIN b = {i \in Inserted : participations[i].event = e}
    BY PoolType DEF IInv
  <2>2. participations'[r].event = e
    BY <1>3, CommitVoteWrites
  <2>3. DOMAIN n = DOMAIN b \cup {r}
    BY <1>2, <2>1, <2>2 DEF ParticipationsOf
  <2>4. \A i \in DOMAIN n : n[i] = participations'[i]
    BY DEF ParticipationsOf
  <2>5. n[r].selectedOption = c.option /\ n[r].tokenAmount = c.tokenAmount
    BY <2>3, <2>4, CommitVoteWrites
  <2>6. r \notin DOMAIN b /\ \A i \in DOMAIN b : n[i] = b[i]
    BY <1>2, <2>1, <2>3, <2>4
  <2>7. c.option \in Options /\ c.tokenAmount \in Nat
    BY <1>2 DEF Calls
  <2>8. RowMatches(voteEvents[e], b) /\ voteEvents[e] \in VoteEvent
    BY <1>1, <1>2, <1>3
  <2> HIDE DEF b, n
  <2>9. RowMatches(AggregateUpdate(voteEvents[e], c.option, c.tokenAmount), n)
    BY <2>1, <2>3, <2>5, <2>6, <2>7, <2>8, CountedVote
  <2> QED
    BY <1>4, <2>9 DEF n
<1>6. ASSUME NEW f \in Created \ {e}
      PROVE  RowMatches(voteEvents'[f], ParticipationsOf(f)')
  <2>1. voteEvents'[f] = voteEvents[f]
    BY <1>3, <1>6, CommitVoteWrites
  <2>2. participations'[r].event # f
    BY <1>3, <1>6, CommitVoteWrites
  <2>3. ParticipationsOf(f)' = ParticipationsOf(f)
    BY <1>2, <2>2 DEF ParticipationsOf
  <2> QED
    BY <1>1, <2>1, <2>3
<1>7. \A f \in Created' : RowMatches(voteEvents'[f], ParticipationsOf(f)')
  BY <1>2, <1>5, <1>6
<1> QED
  BY <1>7 DEF CountersMatch, RowMatches

LEMMA CountersConfirm ==
    ASSUME IInv, CountersMatch, NEW r \in Requests, RequestStep(r), CommitConfirm(r)
    PROVE  CountersMatch'
<1>1. \A e \in Created : RowMatches(voteEvents[e], ParticipationsOf(e))
  BY DEF CountersMatch, RowMatches
<1>2. Created' = Created /\ \A e : ParticipationsOf(e)' = ParticipationsOf(e)
  BY CommitConfirmWrites DEF ParticipationsOf
<1>3. ASSUME NEW e \in Created
      PROVE  /\ voteEvents'[e].participantCount = voteEvents[e].participantCount
             /\ voteEvents'[e].totalParticipantCount
                  = voteEvents[e].totalParticipantCount
             /\ voteEvents'[e].tokenAmount = voteEvents[e].tokenAmount
             /\ voteEvents'[e].totalTokenAmount = voteEvents[e].totalTokenAmount
  <2>1. voteEvents' = [voteEvents EXCEPT
          ![call[r].event].bettingResultOption = call[r].option,
          ![call[r].event].bettingResultConfirmedAt = stamp[r]]
    BY ConfirmSets
  <2>2. voteEvents[call[r].event] \in VoteEvent
    BY ConfirmAtCommit
  <2> QED
    BY <2>1, <2>2 DEF Created, IInv, TypeOK, VoteEvent
<1>4. \A e \in Created' : RowMatches(voteEvents'[e], ParticipationsOf(e)')
  BY <1>1, <1>2, <1>3 DEF RowMatches
<1> QED
  BY <1>4 DEF CountersMatch, RowMatches

LEMMA CountersReward ==
    ASSUME IInv, CountersMatch, NEW r \in Requests, RequestStep(r), CommitReward(r)
    PROVE  CountersMatch'
<1>1. \A e \in Created : RowMatches(voteEvents[e], ParticipationsOf(e))
  BY DEF CountersMatch, RowMatches
<1>2. Created' = Created /\ voteEvents' = voteEvents
  BY DEF CommitReward, Created
<1>3. ASSUME NEW e \in Created
      PROVE  RowMatches(voteEvents[e], ParticipationsOf(e))'
  <2>1. DOMAIN ParticipationsOf(e)' = DOMAIN ParticipationsOf(e)
    BY CommitRewardMarks DEF ParticipationsOf
  <2> QED
    BY <1>1, <1>2, <2>1, MatchKept DEF Created
<1>4. \A e \in Created' : RowMatches(voteEvents'[e], ParticipationsOf(e)')
  BY <1>2, <1>3
<1> QED
  BY <1>4 DEF CountersMatch, RowMatches

LEMMA CountersInit == Init => CountersMatch
<1> SUFFICES ASSUME Init PROVE CountersMatch
  OBVIOUS
<1>1. \A e : DOMAIN ParticipationsOf(e) = {}
  BY DEF Init, Inserted, ParticipationsOf
<1>2. \A e \in Created : voteEvents[e] = NewEvent(voteEvents[e].category,
         voteEvents[e].organizerUserId, voteEvents[e].deadlineAt)
  BY VoteEventsAssumption DEF Init, Created
<1>3. \A e \in Created : RowMatches(voteEvents[e], ParticipationsOf(e))
  BY <1>1, <1>2, NoBets
<1> QED
  BY <1>3 DEF CountersMatch, RowMatches

\* No commit but a vote's touches the counters.
LEMMA CountersStep == IInv /\ CountersMatch /\ [Next]_vars => CountersMatch'
<1> SUFFICES ASSUME IInv, CountersMatch, [Next]_vars PROVE CountersMatch'
  OBVIOUS
<1>1. CASE UNCHANGED tables
  BY <1>1 DEF CountersMatch, tables, Created, ParticipationsOf, Inserted
<1>2. CASE \E r \in Requests : RequestStep(r)
  <2>1. PICK r \in Requests : RequestStep(r)
    BY <1>2
  <2>2. Writes(r)
    BY <2>1, StepKeeps DEF IInv, RequestOK
  <2> QED
    BY <1>1, <2>1, <2>2, CountersCreate, CountersVote, CountersConfirm, CountersReward
       DEF Writes
<1>3. CASE Tick \/ Finished \/ UNCHANGED vars
  BY <1>1, <1>3 DEF Tick, Finished, vars, tables
<1> QED
  BY <1>2, <1>3 DEF Next, RequestStep

\* The counters kept in vote_events are those of the recorded participations in
\* every state: a vote's commit updates both (voteEventAggregateUpdate).
THEOREM CountersAgree == Spec => []CountersMatch
BY CountersInit, CountersStep, Invariance, PTL DEF Spec
-----------------------------------------------------------------------------
(* The tokens *)

\* What was credited for event e.
PaidSum(e) == TokenSum([i \in Paid(e) |-> Payout(e, i)], Paid(e))

Pools == [e \in Created |-> voteEvents[e].totalTokenAmount]

Credits == [e \in Created |-> PaidSum(e)]

LEMMA PaidType ==
    ASSUME AnswersInv, NEW e \in Created
    PROVE  /\ IsFiniteSet(Paid(e)) /\ PaidSum(e) \in Nat
           /\ Paid(e) = {i \in Inserted : participations[i].event = e
                            /\ participations[i].bettingRewardClaimedAt # Null}
           /\ \A i \in Paid(e) : Payout(e, i) \in Nat
           /\ Paid(e) # {} => voteEvents[e].bettingResultOption # Null
<1>1. Paid(e) = {i \in Inserted : participations[i].event = e
                   /\ participations[i].bettingRewardClaimedAt # Null}
  BY DEF Paid, ParticipationsOf
<1>2. IsFiniteSet(Paid(e))
  <2>1. Paid(e) \subseteq Requests
    BY <1>1 DEF Inserted
  <2> QED
    BY <2>1, FS_Subset, VoteEventsAssumption
<1>3. ASSUME NEW i \in Paid(e)
      PROVE  Payout(e, i) \in Nat /\ voteEvents[e].bettingResultOption # Null
  BY <1>1, RewardType DEF AnswersInv, IInv, PaidHaveWon, Created
<1>4. PaidSum(e) \in Nat
  <2> DEFINE f == [i \in Paid(e) |-> Payout(e, i)]
  <2>1. \A i \in Paid(e) : f[i] \in Nat
    BY <1>3
  <2> HIDE DEF f
  <2>2. TokenSum(f, Paid(e)) \in Nat
    BY <1>2, <2>1, TokenSumType
  <2> QED
    BY <2>2 DEF PaidSum, f
<1> QED
  BY <1>1, <1>2, <1>3, <1>4

\* The sums that TokensConserved adds up.
LEMMA SumsType ==
    ASSUME AnswersInv
    PROVE  /\ IsFiniteSet(Users) /\ IsFiniteSet(Created)
           /\ \A u \in Users : voteToken[u] \in Nat
           /\ \A e \in Created : Pools[e] \in Nat /\ Credits[e] \in Nat
           /\ TokenSum(voteToken, Users) \in Nat
           /\ TokenSum(Pools, Created) \in Nat
           /\ TokenSum(Credits, Created) \in Nat
           /\ InitialVoteToken * Cardinality(Users) \in Nat
<1>1. IsFiniteSet(Users) /\ IsFiniteSet(Created)
  BY FS_Subset, VoteEventsAssumption DEF Created
<1>2. \A u \in Users : voteToken[u] \in Nat
  BY DEF AnswersInv, IInv, TypeOK
<1>3. \A e \in Created : Pools[e] \in Nat
  BY DEF Pools, Created, AnswersInv, IInv, TypeOK, VoteEvent
<1>4. \A e \in Created : Credits[e] \in Nat
  BY PaidType DEF Credits
<1>5. InitialVoteToken * Cardinality(Users) \in Nat
  BY <1>1, FS_CardinalityType, VoteEventsAssumption
<1> QED
  BY <1>1, <1>2, <1>3, <1>4, <1>5, TokenSumType

LEMMA Conserved ==
    TokensConserved <=>
      TokenSum(voteToken, Users) + TokenSum(Pools, Created)
        = InitialVoteToken * Cardinality(Users) + TokenSum(Credits, Created)
BY DEF TokensConserved, Pools, Credits, PaidSum

\* The same three facts of a step's next state.
PaidTyped ==
    \A e \in Created :
        Paid(e) = {i \in Inserted : participations[i].event = e
                     /\ participations[i].bettingRewardClaimedAt # Null}

SumsTyped == \A e \in Created : Pools[e] \in Nat /\ Credits[e] \in Nat

Balance ==
    TokenSum(voteToken, Users) + TokenSum(Pools, Created)
      = InitialVoteToken * Cardinality(Users) + TokenSum(Credits, Created)

LEMMA Typed == AnswersInv => PaidTyped /\ SumsTyped
BY PaidType, SumsType DEF PaidTyped, SumsTyped

LEMMA TypedThen == AnswersInv' => PaidTyped' /\ SumsTyped'
BY Typed, PTL

LEMMA Balanced == TokensConserved <=> Balance
BY Conserved DEF Balance

LEMMA BalancedThen == TokensConserved' <=> Balance'
BY Balanced, PTL

\* While nothing more is paid for an event, what was credited stays the same.
LEMMA PaidSumKept ==
    ASSUME AnswersInv, NEW r \in Requests, RequestStep(r), NEW e \in Created,
           Paid(e)' = Paid(e)
    PROVE  PaidSum(e)' = PaidSum(e)
<1>1. CASE Paid(e) = {}
  BY <1>1, SumEmpty DEF PaidSum
<1>2. CASE Paid(e) # {}
  <2>1. voteEvents[e].bettingResultOption # Null
    BY <1>2, PaidType
  <2>2. \A i \in Paid(e) : Payout(e, i)' = Payout(e, i)
    BY <2>1, PayoutKept DEF AnswersInv
  <2> QED
    BY <2>2 DEF PaidSum
<1> QED
  BY <1>1, <1>2

\* A step that pays nothing and opens no event leaves the credits alone.
LEMMA CreditsKept ==
    ASSUME AnswersInv, AnswersInv', NEW r \in Requests, RequestStep(r),
           Created' = Created, \A e \in Created : Paid(e)' = Paid(e)
    PROVE  Credits' = Credits
<1>1. \A e \in Created : PaidSum(e)' = PaidSum(e)
  BY PaidSumKept
<1> QED
  BY <1>1 DEF Credits

LEMMA TokensCreate ==
    ASSUME AnswersInv, AnswersInv', TokensConserved, NEW r \in Requests,
           RequestStep(r), CreateWrites(call[r]), call[r] \in Calls
    PROVE  TokensConserved'
<1> DEFINE x == call[r].event
<1>1. /\ Inserted' = Inserted /\ participations' = participations
      /\ x \notin Created /\ Created' = Created \cup {x}
      /\ \A e \in Created : voteEvents'[e] = voteEvents[e]
  BY CreateWritesRow DEF AnswersInv
<1>2. voteToken' = voteToken
  BY DEF CreateWrites
<1>3. Pools'[x] = 0
  <2>1. voteEvents'[x] = NewEvent(call[r].category, call[r].user, call[r].deadlineAt)
    BY DEF CreateWrites, Calls, AnswersInv, IInv, TypeOK
  <2>2. voteEvents'[x].totalTokenAmount = 0
    BY <2>1 DEF NewEvent
  <2> QED
    BY <1>1, <2>2 DEF Pools
<1>4. \A e : Paid(e)' = Paid(e)
  BY <1>1 DEF Paid, ParticipationsOf
<1>5. \A e \in Created : Pools'[e] = Pools[e] /\ Credits'[e] = Credits[e]
  <2>1. \A e \in Created : PaidSum(e)' = PaidSum(e)
    BY <1>4, PaidSumKept
  <2> QED
    BY <1>1, <2>1 DEF Pools, Credits
<1>6. Credits'[x] = 0
  <2>1. \A i \in Inserted : participations[i].event \in Created
    BY DEF AnswersInv, IInv, ParticipationsFit, TypeOK, Inserted, Created,
           Participation
  <2>2. \A e : e \notin Created => Paid(e) = {}
    BY <2>1 DEF Paid, ParticipationsOf
  <2>3. PICK e \in Created' : e = x
    BY <1>1
  <2>4. Paid(e)' = {}
    BY <1>1, <1>4, <2>2, <2>3
  <2>5. PaidSum(e)' = 0
    BY <2>4, SumEmpty DEF PaidSum
  <2> QED
    BY <2>3, <2>5 DEF Credits
<1>7. \A e \in Created' : Pools'[e] \in Nat /\ Credits'[e] \in Nat
  BY TypedThen DEF SumsTyped
<1> HIDE DEF x
<1>8. TokenSum(Pools', Created) = TokenSum(Pools, Created)
      /\ TokenSum(Credits', Created) = TokenSum(Credits, Created)
  BY <1>5, SumSame
<1>9. IsFiniteSet(Created) /\ TokenSum(Pools, Created) \in Nat
      /\ TokenSum(Credits, Created) \in Nat
  BY SumsType
<1>10. TokenSum(Pools', Created \cup {x}) = TokenSum(Pools', Created) + Pools'[x]
  BY <1>1, <1>7, <1>9, SumAdd
<1>11. TokenSum(Credits', Created \cup {x})
         = TokenSum(Credits', Created) + Credits'[x]
  BY <1>1, <1>7, <1>9, SumAdd
<1>12. TokenSum(Pools, Created)' = TokenSum(Pools, Created)
       /\ TokenSum(Credits, Created)' = TokenSum(Credits, Created)
  BY <1>1, <1>3, <1>6, <1>8, <1>9, <1>10, <1>11
<1> QED
  BY <1>2, <1>12, Balanced, BalancedThen DEF Balance

LEMMA TokensVote ==
    ASSUME AnswersInv, AnswersInv', TokensConserved, NEW r \in Requests,
           RequestStep(r), CommitVote(r)
    PROVE  TokensConserved'
<1> DEFINE c == call[r]
           x == c.event
           u == c.user
           n == c.tokenAmount
<1>1. /\ x \in Created /\ x \in Events /\ u \in Users /\ n \in Nat
      /\ c.option \in Options /\ voteEvents[x] \in VoteEvent
      /\ Created' = Created /\ r \notin Inserted /\ Inserted' = Inserted \cup {r}
      /\ \A i \in Inserted : participations'[i] = participations[i]
      /\ participations'[r].bettingRewardClaimedAt = Null
  BY VoteAtCommit, CommitVoteWrites DEF Calls, AnswersInv
<1>2. Credits' = Credits
  <2>1. ASSUME NEW e \in Created PROVE Paid(e)' = Paid(e)
    <3>1. Paid(e) = {i \in Inserted : participations[i].event = e
                       /\ participations[i].bettingRewardClaimedAt # Null}
      BY Typed DEF PaidTyped
    <3>2. e \in Created'
      BY <1>1
    <3>3. Paid(e)' = {i \in Inserted' : participations'[i].event = e
                        /\ participations'[i].bettingRewardClaimedAt # Null}
      BY <3>2, TypedThen DEF PaidTyped
    <3> HIDE DEF x, c, u, n
    <3> QED
      BY <1>1, <3>1, <3>3
  <2> QED
    BY <1>1, <2>1, CreditsKept
<1>3. /\ voteToken' = [voteToken EXCEPT ![u] = @ - n]
      /\ voteEvents' = [voteEvents EXCEPT ![x] =
                           AggregateUpdate(voteEvents[x], c.option, n)]
  BY DEF CommitVote
<1>4. /\ Pools'[x] = Pools[x] + n
      /\ \A e \in Created \ {x} : Pools'[e] = Pools[e]
  <2>1. voteEvents'[x].totalTokenAmount = voteEvents[x].totalTokenAmount + n
    BY <1>1, <1>3, AggregateCounts DEF AnswersInv, IInv, TypeOK
  <2> QED
    BY <1>1, <1>3, <2>1 DEF Pools, AnswersInv, IInv, TypeOK, Created
<1>5. /\ voteToken'[u] = voteToken[u] - n
      /\ \A v \in Users \ {u} : voteToken'[v] = voteToken[v]
  BY <1>1, <1>3 DEF AnswersInv, IInv, TypeOK
<1>6. voteToken'[u] \in Nat /\ Pools'[x] \in Nat
  <2>1. voteToken'[u] \in Nat
    BY <1>1 DEF AnswersInv, IInv, TypeOK
  <2> QED
    BY <1>1, <2>1, TypedThen DEF SumsTyped
<1>7. /\ IsFiniteSet(Users) /\ IsFiniteSet(Created)
      /\ \A v \in Users : voteToken[v] \in Nat
      /\ \A e \in Created : Pools[e] \in Nat
      /\ TokenSum(voteToken, Users) \in Nat
      /\ TokenSum(Pools, Created) \in Nat
  BY SumsType
<1> HIDE DEF x, u, n
<1>8. TokenSum(voteToken', Users)
        = TokenSum(voteToken, Users) + voteToken'[u] - voteToken[u]
  BY <1>1, <1>5, <1>6, <1>7, SumChange
<1>9. TokenSum(Pools', Created) = TokenSum(Pools, Created) + Pools'[x] - Pools[x]
  BY <1>1, <1>4, <1>6, <1>7, SumChange
<1>10. TokenSum(voteToken, Users)' + TokenSum(Pools, Created)'
         = TokenSum(voteToken, Users) + TokenSum(Pools, Created)
  BY <1>1, <1>4, <1>5, <1>6, <1>7, <1>8, <1>9
<1> QED
  BY <1>1, <1>2, <1>10, Balanced, BalancedThen DEF Balance

LEMMA TokensConfirm ==
    ASSUME AnswersInv, AnswersInv', TokensConserved, NEW r \in Requests,
           RequestStep(r), CommitConfirm(r)
    PROVE  TokensConserved'
<1>1. /\ Inserted' = Inserted /\ participations' = participations
      /\ Created' = Created /\ voteToken' = voteToken
  BY CommitConfirmWrites, ConfirmSets DEF AnswersInv
<1>2. Credits' = Credits
  <2>1. \A e \in Created : Paid(e)' = Paid(e)
    BY <1>1 DEF Paid, ParticipationsOf
  <2> QED
    BY <1>1, <2>1, CreditsKept
<1>3. Pools' = Pools
  <2>1. \A e \in Created :
          voteEvents'[e].totalTokenAmount = voteEvents[e].totalTokenAmount
    <3>1. voteEvents' = [voteEvents EXCEPT
            ![call[r].event].bettingResultOption = call[r].option,
            ![call[r].event].bettingResultConfirmedAt = stamp[r]]
      BY ConfirmSets DEF AnswersInv
    <3>2. voteEvents[call[r].event] \in VoteEvent
      BY ConfirmAtCommit DEF AnswersInv
    <3> QED
      BY <3>1, <3>2 DEF Created, AnswersInv, IInv, TypeOK, VoteEvent
  <2> QED
    BY <1>1, <2>1 DEF Pools
<1> QED
  BY <1>1, <1>2, <1>3, Balanced, BalancedThen DEF Balance

LEMMA TokensReward ==
    ASSUME AnswersInv, AnswersInv', TokensConserved, NEW r \in Requests,
           RequestStep(r), CommitReward(r)
    PROVE  TokensConserved'
<1> DEFINE c   == call[r]
           x   == c.event
           u   == c.user
           own == OwnParticipations(x, u)
<1>1. /\ c \in Calls /\ x \in Events /\ u \in Users /\ reward[r] \in Nat
      /\ voteEvents[x] # Null /\ x \in Created /\ voteEvents' = voteEvents
      /\ voteEvents[x].bettingResultOption # Null
  BY RewardAtCommit DEF Calls, AnswersInv, IInv, RequestOK, EventFound, EventReserved,
     ClaimSteps, CommitReward, Created
<1>2. PICK i \in own :
        /\ participations[i].bettingRewardClaimedAt = Null
        /\ reward[r] = Payout(x, i)
  BY DEF AnswersInv, IInv, RequestOK, RewardReserved, CommitReward
<1>3. /\ i \in Inserted /\ i \in Requests /\ participations[i] \in Participation
      /\ participations[i].event = x /\ participations[i].user = u
      /\ \A j \in own : j = i
  BY DEF OwnParticipations, Inserted, AnswersInv, IInv, TypeOK,
         OneParticipationPerUser
<1>4. participations'[i].bettingRewardClaimedAt # Null
  <2>1. stamp[r] \in Nat
    BY DEF AnswersInv, IInv, TypeOK
  <2>2. participations'[i] =
          [participations[i] EXCEPT !.bettingRewardClaimedAt = stamp[r]]
    BY <1>3 DEF CommitReward
  <2> QED
    BY <1>3, <2>1, <2>2, NullAssumption DEF Participation
<1>5. /\ Inserted' = Inserted /\ Created' = Created
      /\ \A j \in Inserted \ {i} : participations'[j] = participations[j]
      /\ participations'[i].event = x
  BY <1>1, <1>3, CommitRewardMarks DEF AnswersInv, Created
<1>6. Pools' = Pools
  BY <1>1, <1>5 DEF Pools
<1>7. PICK e \in Created : e = x
  BY <1>1
<1>8. Paid(e)' = Paid(e) \cup {i} /\ i \notin Paid(e)
  BY <1>2, <1>3, <1>4, <1>5, <1>7, Typed, TypedThen DEF PaidTyped
<1>9. PaidSum(e)' = PaidSum(e) + reward[r]
  <2> DEFINE f == [j \in Paid(e)' |-> Payout(e, j)']
             g == [j \in Paid(e) |-> Payout(e, j)]
  <2>1. \A j : Payout(e, j)' = Payout(e, j)
    BY <1>1, <1>7, PayoutKept DEF AnswersInv
  <2>2. /\ IsFiniteSet(Paid(e)) /\ \A j \in Paid(e) : Payout(e, j) \in Nat
    BY PaidType
  <2>3. f[i] = reward[r] /\ \A j \in Paid(e) : f[j] = g[j]
    BY <1>2, <1>7, <1>8, <2>1
  <2>4. \A j \in Paid(e) \cup {i} : f[j] \in Nat
    BY <1>1, <2>2, <2>3
  <2>5. PaidSum(e) = TokenSum(g, Paid(e)) /\ PaidSum(e)' = TokenSum(f, Paid(e)')
    BY DEF PaidSum
  <2> HIDE DEF f, g
  <2>6. TokenSum(f, Paid(e)) = TokenSum(g, Paid(e))
    BY <2>3, SumSame
  <2>7. TokenSum(f, Paid(e) \cup {i}) = TokenSum(f, Paid(e)) + f[i]
    BY <1>8, <2>2, <2>4, SumAdd
  <2> QED
    BY <1>8, <2>3, <2>5, <2>6, <2>7
<1>10. ASSUME NEW f \in Created \ {e}
       PROVE  Credits'[f] = Credits[f]
  <2>1. Paid(f)' = Paid(f)
    <3>1. Paid(f) = {j \in Inserted : participations[j].event = f
                       /\ participations[j].bettingRewardClaimedAt # Null}
      BY Typed DEF PaidTyped
    <3>2. f \in Created'
      BY <1>5
    <3>3. Paid(f)' = {j \in Inserted' : participations'[j].event = f
                        /\ participations'[j].bettingRewardClaimedAt # Null}
      BY <3>2, TypedThen DEF PaidTyped
    <3>4. participations[i].event # f /\ participations'[i].event # f
      BY <1>3, <1>5, <1>7, <1>10
    <3>5. \A j \in Inserted : j # i => participations'[j] = participations[j]
      BY <1>5
    <3> HIDE DEF x, c, u, own
    <3> QED
      BY <1>5, <3>1, <3>3, <3>4, <3>5
  <2>2. PaidSum(f)' = PaidSum(f)
    BY <2>1, PaidSumKept
  <2> QED
    BY <1>5, <2>2 DEF Credits
<1>11. Credits'[e] = Credits[e] + reward[r]
  BY <1>5, <1>9 DEF Credits
<1>12. /\ voteToken'[u] = voteToken[u] + reward[r]
       /\ \A v \in Users \ {u} : voteToken'[v] = voteToken[v]
  BY <1>1 DEF CommitReward, AnswersInv, IInv, TypeOK
<1>13. /\ IsFiniteSet(Users) /\ IsFiniteSet(Created)
       /\ \A v \in Users : voteToken[v] \in Nat
       /\ \A f \in Created : Credits[f] \in Nat
       /\ TokenSum(voteToken, Users) \in Nat
       /\ TokenSum(Pools, Created) \in Nat
       /\ TokenSum(Credits, Created) \in Nat
       /\ InitialVoteToken * Cardinality(Users) \in Nat
  BY SumsType
<1>14. voteToken'[u] \in Nat /\ Credits'[e] \in Nat
  BY <1>1, <1>11, <1>12, <1>13
<1> HIDE DEF u
<1>15. TokenSum(voteToken', Users)
         = TokenSum(voteToken, Users) + voteToken'[u] - voteToken[u]
  BY <1>1, <1>12, <1>13, <1>14, SumChange
<1>16. TokenSum(Credits', Created)
         = TokenSum(Credits, Created) + Credits'[e] - Credits[e]
  BY <1>10, <1>13, <1>14, SumChange
<1>17. TokenSum(voteToken, Users)' = TokenSum(voteToken, Users) + reward[r]
       /\ TokenSum(Credits, Created)' = TokenSum(Credits, Created) + reward[r]
  BY <1>1, <1>5, <1>11, <1>12, <1>13, <1>14, <1>15, <1>16
<1>18. TokenSum(Pools, Created)' = TokenSum(Pools, Created)
  BY <1>5, <1>6
<1> QED
  BY <1>1, <1>13, <1>17, <1>18, Balanced, BalancedThen DEF Balance

LEMMA TokensInit == Init => TokensConserved
<1> SUFFICES ASSUME Init PROVE TokensConserved
  OBVIOUS
<1>1. AnswersInv
  BY AnswersInit
<1>2. TokenSum(voteToken, Users) = Cardinality(Users) * InitialVoteToken
  BY SumConst, VoteEventsAssumption DEF Init
<1>3. TokenSum(Pools, Created) = 0
  <2>1. \A e \in Created : Pools[e] = 0
    <3> TAKE e \in Created
    <3>1. voteEvents[e] = NewEvent(voteEvents[e].category,
             voteEvents[e].organizerUserId, voteEvents[e].deadlineAt)
      BY VoteEventsAssumption DEF Init, Created
    <3>2. \A category, organizer, deadlineAt :
            NewEvent(category, organizer, deadlineAt).totalTokenAmount = 0
      BY DEF NewEvent
    <3> QED
      BY <3>1, <3>2 DEF Pools
  <2>2. TokenSum(Pools, Created) = TokenSum([e \in Created |-> 0], Created)
    BY <2>1, SumSame
  <2>3. IsFiniteSet(Created) /\ Cardinality(Created) \in Nat
    BY <1>1, SumsType, FS_CardinalityType
  <2>4. TokenSum([e \in Created |-> 0], Created) = Cardinality(Created) * 0
    BY <2>3, SumConst
  <2> QED
    BY <2>2, <2>3, <2>4
<1>4. TokenSum(Credits, Created) = 0
  <2>1. \A e \in Created : Credits[e] = 0
    <3> TAKE e \in Created
    <3>1. Paid(e) = {}
      BY DEF Init, Inserted, Paid, ParticipationsOf
    <3> QED
      BY <3>1, SumEmpty DEF Credits, PaidSum
  <2>2. TokenSum(Credits, Created) = TokenSum([e \in Created |-> 0], Created)
    BY <2>1, SumSame
  <2>3. IsFiniteSet(Created) /\ Cardinality(Created) \in Nat
    BY <1>1, SumsType, FS_CardinalityType
  <2>4. TokenSum([e \in Created |-> 0], Created) = Cardinality(Created) * 0
    BY <2>3, SumConst
  <2> QED
    BY <2>2, <2>3, <2>4
<1>5. Cardinality(Users) \in Nat /\ InitialVoteToken \in Nat
  BY FS_CardinalityType, VoteEventsAssumption
<1> QED
  BY <1>2, <1>3, <1>4, <1>5, Balanced, BalancedThen DEF Balance

LEMMA TokensStep ==
    AnswersInv /\ AnswersInv' /\ TokensConserved /\ [Next]_vars => TokensConserved'
<1> SUFFICES ASSUME AnswersInv, AnswersInv', TokensConserved, [Next]_vars
             PROVE  TokensConserved'
  OBVIOUS
<1>1. CASE UNCHANGED tables
  BY <1>1 DEF TokensConserved, tables, Created, Paid, Payout, ParticipationsOf,
     Inserted
<1>2. CASE \E r \in Requests : RequestStep(r)
  <2>1. PICK r \in Requests : RequestStep(r)
    BY <1>2
  <2>2. Writes(r)
    BY <2>1, StepKeeps DEF AnswersInv, IInv, RequestOK
  <2> QED
    BY <1>1, <2>1, <2>2, TokensCreate, TokensVote, TokensConfirm, TokensReward
       DEF Writes
<1>3. CASE Tick \/ Finished \/ UNCHANGED vars
  BY <1>1, <1>3 DEF Tick, Finished, vars, tables
<1> QED
  BY <1>2, <1>3 DEF Next, RequestStep

\* Tokens are neither created nor lost, whatever votes, confirmations, claims
\* and faults interleave: what users can spend and what the pools hold add up
\* to what users were given and the rewards credited.
THEOREM TokensAreConserved == Spec => []TokensConserved
BY TokensInit, TokensStep, AnswersInvariance, PTL DEF Spec

-----------------------------------------------------------------------------
(* The rewards and the pools *)

\* What was credited for an event is no more than what was staked on it.
CreditsWithinPool ==
    \A e \in Created : PaidSum(e) <= voteEvents[e].totalTokenAmount

\* All that users can spend is no more than what users were given.
NoTokenMinted ==
    TokenSum(voteToken, Users) <= InitialVoteToken * Cardinality(Users)

\* The participations of an event with a result are a round of bets, and its
\* counters are the pools of the round.
LEMMA ResultRound ==
    ASSUME AnswersInv, CountersMatch, NEW e \in Created,
           voteEvents[e].bettingResultOption # Null
    PROVE  LET bets == ParticipationsOf(e)
               o    == voteEvents[e].bettingResultOption
           IN  /\ Round(bets)
               /\ voteEvents[e].totalTokenAmount = sumTokenAmounts(bets, DOMAIN bets)
<1> DEFINE bets == ParticipationsOf(e)
           row  == voteEvents[e]
           o    == row.bettingResultOption
<1>1. row \in VoteEvent /\ o \in Options /\ IsBetting(e)
  BY DEF AnswersInv, IInv, TypeOK, Created, VoteEvent, ResultsMatchDates
<1>2. DOMAIN bets \subseteq Inserted /\ DOMAIN bets \subseteq Requests
  BY DEF ParticipationsOf, Inserted
<1>3. ASSUME NEW i \in DOMAIN bets
      PROVE  /\ bets[i] \in Participation
             /\ bets[i].tokenAmount > 0
  <2>1. i \in Inserted /\ bets[i] = participations[i] /\ participations[i].event = e
    BY DEF ParticipationsOf
  <2>2. participations[i] \in Participation
    BY <2>1 DEF AnswersInv, IInv, TypeOK, Inserted
  <2> QED
    BY <1>1, <2>1, <2>2 DEF AnswersInv, IInv, ParticipationsFit
<1>4. Round(bets)
  <2>1. IsFiniteSet(DOMAIN bets) /\ DOMAIN bets \subseteq Nat
    BY <1>2, FS_Subset, VoteEventsAssumption
  <2>2. \A i \in DOMAIN bets : /\ bets[i].tokenAmount \in Nat \ {0}
                               /\ bets[i].createdAt \in Nat
    BY <1>3 DEF Participation
  <2> QED
    BY <2>1, <2>2 DEF Round
<1>5. Losers(bets, "A") = Winners(bets, "B")
  BY <1>3 DEF Losers, Winners, Participation, Options
<1>6. row.totalTokenAmount = sumTokenAmounts(bets, Winners(bets, "A"))
                               + sumTokenAmounts(bets, Winners(bets, "B"))
  BY DEF CountersMatch, Options
<1>7. row.totalTokenAmount = WinningPool(bets, "A") + LosingPool(bets, "A")
  BY <1>5, <1>6 DEF WinningPool, LosingPool
<1> QED
  BY <1>4, <1>7, PoolsAddUp

LEMMA CreditsWithin == AnswersInv /\ CountersMatch => CreditsWithinPool
<1> SUFFICES ASSUME AnswersInv, CountersMatch, NEW e \in Created
             PROVE  PaidSum(e) <= voteEvents[e].totalTokenAmount
  BY DEF CreditsWithinPool
<1> DEFINE bets == ParticipationsOf(e)
           row  == voteEvents[e]
           o    == row.bettingResultOption
           P    == Paid(e)
           W    == Winners(bets, o)
           payouts == calculateBettingPayouts(bets, o)
           total   == row.totalTokenAmount
<1>1. total \in Nat
  BY DEF AnswersInv, IInv, TypeOK, Created, VoteEvent
<1>2. CASE P = {}
  <2>1. PaidSum(e) = 0
    BY <1>2, SumEmpty DEF PaidSum
  <2> QED
    BY <1>1, <2>1
<1>3. CASE P # {}
  <2>1. o # Null
    BY <1>3, PaidType
  <2>2. Round(bets) /\ total = sumTokenAmounts(bets, DOMAIN bets)
    BY <2>1, ResultRound
  <2>3. P \in SUBSET W
    <3>1. P = {i \in Inserted : participations[i].event = e
                 /\ participations[i].bettingRewardClaimedAt # Null}
      BY PaidType
    <3>2. \A i \in P : i \in DOMAIN bets /\ bets[i] = participations[i]
      BY <3>1 DEF ParticipationsOf
    <3>3. \A i \in P : participations[i].selectedOption = o
      BY <3>1 DEF AnswersInv, PaidHaveWon
    <3> QED
      BY <3>2, <3>3 DEF Winners
  <2>4. W # {}
    BY <1>3, <2>3
  <2>5. TokenSum(payouts, W) = total
    BY <2>2, <2>4, PayoutsAddUp
  <2>6. IsFiniteSet(W) /\ \A i \in W : payouts[i] \in Nat
    <3>1. /\ IsFiniteSet(DOMAIN bets)
          /\ \A i \in DOMAIN bets : bets[i].tokenAmount \in Nat \ {0}
          /\ W \in SUBSET DOMAIN bets
      BY <2>2 DEF Round, Winners
    <3>2. \A i \in W : bets[i].tokenAmount > 0
      BY <3>1
    <3> QED
      BY <3>1, <3>2, PayoutType, FS_Subset
  <2>7. PaidSum(e) = TokenSum([i \in P |-> payouts[i]], P)
    BY DEF PaidSum, Payout
  <2> HIDE DEF bets, row, o, P, W, payouts, total
  <2>8. TokenSum([i \in P |-> payouts[i]], P) = TokenSum(payouts, P)
    BY SumSame
  <2>9. /\ IsFiniteSet(P) /\ IsFiniteSet(W \ P) /\ P \cap (W \ P) = {}
        /\ P \cup (W \ P) = W
    <3>1. (W \ P) \in SUBSET W
      OBVIOUS
    <3>2. IsFiniteSet(P) /\ IsFiniteSet(W \ P)
      BY <2>3, <2>6, <3>1, FS_Subset
    <3> QED
      BY <2>3, <3>2
  <2>10. TokenSum(payouts, P \cup (W \ P))
           = TokenSum(payouts, P) + TokenSum(payouts, W \ P)
    BY <2>3, <2>6, <2>9, SumUnion
  <2>11. TokenSum(payouts, P) \in Nat /\ TokenSum(payouts, W \ P) \in Nat
    <3>1. \A i \in P : payouts[i] \in Nat
      BY <2>3, <2>6
    <3>2. \A i \in W \ P : payouts[i] \in Nat
      BY <2>6
    <3>3. TokenSum(payouts, P) \in Nat
      BY <2>9, <3>1, TokenSumType
    <3>4. TokenSum(payouts, W \ P) \in Nat
      BY <2>9, <3>2, TokenSumType
    <3> QED
      BY <3>3, <3>4
  <2>12. PaidSum(e) <= total
    <3>1. PaidSum(e) = TokenSum(payouts, P)
      BY <2>7, <2>8
    <3>2. total = TokenSum(payouts, P) + TokenSum(payouts, W \ P)
      BY <2>5, <2>9, <2>10
    <3> QED
      BY <2>11, <3>1, <3>2
  <2> QED
    BY <2>12 DEF total, row
<1> QED
  BY <1>2, <1>3

LEMMA NotMinted ==
    AnswersInv /\ CreditsWithinPool /\ TokensConserved => NoTokenMinted
<1> SUFFICES ASSUME AnswersInv, CreditsWithinPool, TokensConserved
             PROVE  NoTokenMinted
  OBVIOUS
<1>1. \A e \in Created : /\ Credits[e] \in Nat /\ Pools[e] \in Nat
                         /\ Credits[e] <= Pools[e]
  BY SumsType DEF CreditsWithinPool, Credits, Pools
<1>2. TokenSum(Credits, Created) <= TokenSum(Pools, Created)
  BY <1>1, SumsType, SumBelow
<1>3. /\ TokenSum(voteToken, Users) \in Nat
      /\ TokenSum(Pools, Created) \in Nat /\ TokenSum(Credits, Created) \in Nat
      /\ InitialVoteToken * Cardinality(Users) \in Nat
  BY SumsType
<1>4. TokenSum(voteToken, Users) + TokenSum(Pools, Created)
        = InitialVoteToken * Cardinality(Users) + TokenSum(Credits, Created)
  BY Conserved
<1> QED
  BY <1>2, <1>3, <1>4 DEF NoTokenMinted

\* The winners of an event are never paid more than was staked on it, however
\* their claims interleave, fail and are repeated.
THEOREM CreditsStayWithinPool == Spec => []CreditsWithinPool
BY CreditsWithin, CountersAgree, AnswersInvariance, PTL

\* Betting never makes tokens: users together can spend no more than they were
\* given when they signed up.
THEOREM NoTokenIsMinted == Spec => []NoTokenMinted
BY NotMinted, CreditsStayWithinPool, TokensAreConserved, AnswersInvariance, PTL

-----------------------------------------------------------------------------
(* The mapping to the abstract specifications *)

\* The bets and rows that stand for participations and events are not Null.
LEMMA BetsMap ==
    ASSUME TypeOK
    PROVE  /\ \A i \in Inserted : /\ participations[i] \in Participation
                                  /\ BetOf(participations[i]) # Null /\ Bets[i] = BetOf(participations[i])
           /\ \A i \in Requests \ Inserted : Bets[i] = Null
           /\ Ledger!Placed = Inserted
<1>1. ASSUME NEW i \in Inserted
      PROVE  participations[i] \in Participation /\ BetOf(participations[i]) # Null
  <2>1. participations[i] \in Participation
    BY DEF TypeOK, Inserted
  <2>2. BetOf(participations[i]) \in [event : Events, user : Users, selectedOption : Options,
                      tokenAmount : Nat, createdAt : Nat]
    BY <2>1 DEF BetOf, Participation
  <2> QED
    BY <2>1, <2>2, AbstractNullAssumption
<1>2. /\ \A i \in Inserted : Bets[i] = BetOf(participations[i])
      /\ \A i \in Requests \ Inserted : Bets[i] = Null
  BY DEF Bets, Inserted
<1>3. Ledger!Placed = Inserted
  BY <1>1, <1>2 DEF Ledger!Placed, Inserted
<1> QED
  BY <1>1, <1>2, <1>3

LEMMA RowsMap ==
    ASSUME NEW rows \in [Events -> VoteEvent \cup {Null}], NEW e \in Events,
           rows[e] # Null
    PROVE  RowsOf(rows)[e] = RowOf(rows[e]) /\ RowOf(rows[e]) # Null
<1>1. RowOf(rows[e]) \in [category : Categories, organizerUserId : Users,
                          deadlineAt : Nat]
  BY DEF RowOf, VoteEvent
<1> QED
  BY <1>1, AbstractNullAssumption DEF RowsOf

\* The definitions that TokenLedger takes from BettingPayout are the same.
LEMMA LedgerRule ==
    ASSUME NEW b, NEW o
    PROVE  Ledger!calculateBettingPayouts(b, o) = calculateBettingPayouts(b, o)
<1>1. \A S : Ledger!Cardinality(S) = Cardinality(S)
  BY DEF Ledger!Cardinality, Cardinality
<1>2. \A f, S : Ledger!TokenSum(f, S) = TokenSum(f, S)
  BY <1>1 DEF Ledger!TokenSum, TokenSum, Ledger!Units, Units
<1>3. /\ Ledger!Winners(b, o) = Winners(b, o)
      /\ Ledger!Losers(b, o) = Losers(b, o)
  BY DEF Ledger!Winners, Winners, Ledger!Losers, Losers
<1>4. /\ Ledger!WinningPool(b, o) = WinningPool(b, o)
      /\ Ledger!LosingPool(b, o) = LosingPool(b, o)
  BY <1>2, <1>3 DEF Ledger!WinningPool, WinningPool, Ledger!LosingPool,
     LosingPool, Ledger!sumTokenAmounts, sumTokenAmounts
<1>5. \A i : /\ Ledger!Profit(b, o, i) = Profit(b, o, i)
             /\ Ledger!Remainder(b, o, i) = Remainder(b, o, i)
  BY <1>4 DEF Ledger!Profit, Profit, Ledger!Remainder, Remainder,
     Ledger!Numerator, Numerator
<1>6. \A i : Ledger!Rank(b, o, i) = Rank(b, o, i)
  BY <1>1, <1>3, <1>5 DEF Ledger!Rank, Rank, Ledger!comparePayoutDrafts,
     comparePayoutDrafts
<1>7. Ledger!Remaining(b, o) = Remaining(b, o)
  BY <1>2, <1>3, <1>4, <1>5 DEF Ledger!Remaining, Remaining
<1> QED
  BY <1>3, <1>5, <1>6, <1>7
     DEF Ledger!calculateBettingPayouts, calculateBettingPayouts

\* What the ledger pays bet i of event e is the payout of participation i.
LEMMA PayoutMap ==
    ASSUME TypeOK, NEW e \in Events, NEW i \in Requests, NEW o
    PROVE  Ledger!calculateBettingPayouts(Ledger!BetsOn(e), o)[i]
             = calculateBettingPayouts(ParticipationsOf(e), o)[i]
<1>1. ASSUME NEW j \in Inserted
      PROVE  Bets[j].event = participations[j].event
  <2>1. Bets[j] = BetOf(participations[j])
    BY BetsMap
  <2> QED
    BY <2>1 DEF BetOf
<1>2. {j \in Ledger!Placed : Bets[j].event = e}
        = {j \in Inserted : participations[j].event = e}
  BY <1>1, BetsMap
<1>3. /\ DOMAIN Ledger!BetsOn(e) = DOMAIN ParticipationsOf(e)
      /\ \A j \in DOMAIN ParticipationsOf(e) :
            /\ j \in Inserted
            /\ ParticipationsOf(e)[j] = participations[j]
            /\ Ledger!BetsOn(e)[j] = BetOf(participations[j])
  BY <1>2, BetsMap DEF Ledger!BetsOn, ParticipationsOf
<1>4. SameBets(Ledger!BetsOn(e), ParticipationsOf(e))
  BY <1>3 DEF SameBets, BetOf
<1> QED
  BY <1>4, SamePayouts, LedgerRule

-----------------------------------------------------------------------------
(* The steps *)

LEMMA LedgerInit == Init => Ledger!Init
<1> SUFFICES ASSUME Init PROVE Ledger!Init
  OBVIOUS
<1>1. Inserted = {}
  BY DEF Init, Inserted
<1>2. Bets = [i \in Requests |-> Null] /\ PaidBets = {}
  BY <1>1 DEF Init, Bets, PaidBets
<1>3. Results = [e \in Events |-> Null]
  <2>1. ASSUME NEW e \in Events, voteEvents[e] # Null
        PROVE  voteEvents[e].bettingResultOption = Null
    <3>1. voteEvents[e] = NewEvent(voteEvents[e].category,
             voteEvents[e].organizerUserId, voteEvents[e].deadlineAt)
      BY <2>1, VoteEventsAssumption DEF Init
    <3>2. \A category, organizer, deadlineAt :
            NewEvent(category, organizer, deadlineAt).bettingResultOption = Null
      BY DEF NewEvent
    <3> QED
      BY <3>1, <3>2
  <2> QED
    BY <2>1 DEF Results
<1> QED
  BY <1>2, <1>3 DEF Init, Ledger!Init

\* What a vote under way, a confirmation and a claim find at their commit is
\* what the operation of the ledger asks for.
LEMMA PlaceStep ==
    ASSUME IInv, NEW r \in Requests, CommitVote(r)
    PROVE  Ledger!Place(r, Bets'[r]) /\ Bets'[r] = BetOf(participations'[r])
<1> DEFINE c == call[r]
           b == BetOf(participations'[r])
<1>1. TypeOK /\ TypeOK'
  BY TypeStep DEF IInv, Next, Step, VoteStep
<1>2. /\ b.event = c.event /\ b.user = c.user
      /\ b.tokenAmount = c.tokenAmount
  BY CommitVoteWrites DEF BetOf
<1>3. Bets'[r] = b /\ b # Null /\ Bets[r] = Null
  <2>1. r \in Inserted' /\ r \notin Inserted
    BY CommitVoteWrites
  <2>2. participations'[r] \in Participation
    BY <1>1, <2>1 DEF TypeOK, Inserted
  <2>3. b \in [event : Events, user : Users, selectedOption : Options,
              tokenAmount : Nat, createdAt : Nat]
    BY <2>2 DEF BetOf, Participation
  <2> QED
    BY <2>1, <2>3, AbstractNullAssumption DEF Bets, Inserted
<1>4. Results[c.event] = Null /\ Results' = Results
  <2>1. voteEvents[c.event].bettingResultOption = Null
    BY VoteAtCommit, CommitVoteWrites
       DEF AcceptsVotes, IInv, ResultsMatchDates
  <2>2. ASSUME NEW e \in Events
        PROVE  /\ voteEvents'[e] = Null <=> voteEvents[e] = Null
               /\ voteEvents[e] # Null =>
                     voteEvents'[e].bettingResultOption
                       = voteEvents[e].bettingResultOption
    BY CommitVoteWrites DEF Created, KeepsColumns
  <2>3. c.event \in Events
    BY VoteAtCommit DEF Calls
  <2> QED
    BY <2>1, <2>2, <2>3 DEF Results
<1>5. \A j \in Ledger!Placed : Bets[j].event = b.event => Bets[j].user # b.user
  <2> SUFFICES ASSUME NEW j \in Ledger!Placed, Bets[j].event = b.event
               PROVE  Bets[j].user # b.user
    OBVIOUS
  <2>1. j \in Inserted /\ Bets[j] = BetOf(participations[j])
    BY <1>1, BetsMap
  <2>2. Bets[j].event = participations[j].event /\ Bets[j].user = participations[j].user
    BY <2>1 DEF BetOf
  <2> QED
    BY <1>2, <2>1, <2>2, VoteAtCommit DEF OwnParticipations
<1>6. voteToken[c.user] >= c.tokenAmount
  <2>1. voteToken[c.user] \in Nat /\ c.tokenAmount \in Nat
    BY <1>1, VoteAtCommit DEF TypeOK, Calls
  <2>2. CASE IsBetting(c.event)
    BY <2>2 DEF IInv, RequestOK, StakeReserved, VoteSteps, CommitVote
  <2>3. CASE ~IsBetting(c.event)
    BY <2>1, <2>3, VoteAtCommit
  <2> QED
    BY <2>2, <2>3
<1>7. Bets' = [Bets EXCEPT ![r] = b]
  <2>1. Inserted' = Inserted \cup {r}
        /\ \A i \in Inserted : participations'[i] = participations[i]
    BY CommitVoteWrites
  <2>2. \A i \in Requests \ {r} : Bets'[i] = Bets[i]
    BY <2>1 DEF Bets, Inserted
  <2> QED
    BY <1>3, <2>2 DEF Bets
<1>8. voteToken' = [voteToken EXCEPT ![c.user] = @ - c.tokenAmount]
  BY DEF CommitVote
<1>9. PaidBets' = PaidBets
  BY CommitVoteWrites DEF PaidBets
<1> HIDE DEF b
<1>10. Ledger!Place(r, b)
  BY <1>2, <1>3, <1>4, <1>5, <1>6, <1>7, <1>8, <1>9 DEF Ledger!Place
<1> QED
  BY <1>3, <1>10 DEF b

LEMMA SettleStep ==
    ASSUME IInv, NEW r \in Requests, CommitConfirm(r)
    PROVE  Ledger!Settle(call[r].event, call[r].option)
<1> DEFINE c == call[r]
<1>1. c.event \in Events /\ voteEvents[c.event] # Null
  BY ConfirmAtCommit, CommitConfirmWrites DEF Created
<1>2. Results[c.event] = Null
  BY <1>1, CommitConfirmWrites DEF Results
<1>3. ASSUME NEW e \in Events
      PROVE  Results'[e] = IF e = c.event THEN c.option ELSE Results[e]
  BY CommitConfirmWrites DEF Results, Created
<1>4. Results' = [Results EXCEPT ![c.event] = c.option]
  BY <1>3 DEF Results
<1>5. Bets' = Bets /\ PaidBets' = PaidBets /\ voteToken' = voteToken
  BY CommitConfirmWrites, ConfirmSets DEF Bets, PaidBets
<1> QED
  BY <1>2, <1>4, <1>5 DEF Ledger!Settle

LEMMA PayStep ==
    ASSUME IInv, NEW r \in Requests, CommitReward(r)
    PROVE  \E i \in Requests : Ledger!Pay(i)
<1> DEFINE c   == call[r]
           own == OwnParticipations(c.event, c.user)
<1>1. TypeOK /\ c.event \in Events
  BY RewardAtCommit DEF IInv, Calls
<1>2. PICK i \in own :
        /\ participations[i].selectedOption = voteEvents[c.event].bettingResultOption
        /\ participations[i].bettingRewardClaimedAt = Null
        /\ reward[r] = Payout(c.event, i)
  BY DEF IInv, RequestOK, RewardReserved, CommitReward
<1>3. /\ i \in Inserted /\ i \in Requests /\ participations[i] \in Participation
      /\ participations[i].event = c.event /\ participations[i].user = c.user
  BY DEF OwnParticipations, Inserted, IInv, TypeOK
<1>4. \A j \in own : j = i
  BY <1>3 DEF OwnParticipations, IInv, OneParticipationPerUser
<1>5. /\ Bets[i].event = c.event /\ Bets[i].user = c.user
      /\ Bets[i].selectedOption = voteEvents[c.event].bettingResultOption
  <2>1. Bets[i] = BetOf(participations[i])
    BY <1>1, <1>3, BetsMap
  <2> QED
    BY <1>2, <1>3, <2>1 DEF BetOf
<1>6. i \in Ledger!Placed \ PaidBets
  BY <1>1, <1>2, <1>3, BetsMap DEF PaidBets
<1>7. Results[c.event] = voteEvents[c.event].bettingResultOption
  <2>1. voteEvents[c.event] # Null
    BY DEF IInv, RequestOK, EventFound, CommitReward
  <2> QED
    BY <1>1, <2>1 DEF Results
<1>8. Ledger!calculateBettingPayouts(Ledger!BetsOn(c.event),
                                     voteEvents[c.event].bettingResultOption)[i]
        = reward[r]
  BY <1>1, <1>2, <1>3, PayoutMap DEF Payout
<1>9. voteToken' = [voteToken EXCEPT ![c.user] = @ + reward[r]]
      /\ Results' = Results
  BY DEF CommitReward, Results
<1>10. PaidBets' = PaidBets \cup {i}
  <2>1. participations'[i].bettingRewardClaimedAt # Null
    <3>1. stamp[r] \in Nat
      BY <1>1 DEF TypeOK
    <3>2. participations'[i] =
            [participations[i] EXCEPT !.bettingRewardClaimedAt = stamp[r]]
      BY <1>3 DEF CommitReward
    <3> QED
      BY <1>3, <3>1, <3>2, NullAssumption DEF Participation
  <2>2. Inserted' = Inserted
        /\ \A j \in Inserted \ {i} : participations'[j] = participations[j]
    BY <1>4, CommitRewardMarks
  <2> QED
    BY <1>3, <2>1, <2>2 DEF PaidBets
<1>11. Bets' = Bets
  <2>1. /\ Inserted' = Inserted
        /\ \A j \in Inserted : BetOf(participations'[j]) = BetOf(participations[j])
    BY CommitRewardMarks DEF BetOf
  <2> QED
    BY <2>1 DEF Bets, Inserted
<1> HIDE DEF c
<1>12. Ledger!Pay(i)
  BY <1>5, <1>6, <1>7, <1>8, <1>9, <1>10, <1>11 DEF Ledger!Pay
<1> QED
  BY <1>3, <1>12

\* What does not commit, and a new event, is not seen by the ledger.
LEMMA LedgerStutter ==
    ASSUME TypeOK,
           \/ UNCHANGED tables
           \/ \E c \in Calls : CreateWrites(c)
    PROVE  UNCHANGED Ledger!ledger
<1>1. CASE UNCHANGED tables
  BY <1>1 DEF tables, Ledger!ledger, Bets, Results, PaidBets, Inserted
<1>2. CASE \E c \in Calls : CreateWrites(c)
  <2>1. PICK c \in Calls : CreateWrites(c)
    BY <1>2
  <2>2. ASSUME NEW e \in Events
        PROVE  Results'[e] = Results[e]
    <3>1. \A category, organizer, deadlineAt :
            NewEvent(category, organizer, deadlineAt).bettingResultOption = Null
      BY DEF NewEvent
    <3> QED
      BY <2>1, <3>1 DEF CreateWrites, Results, TypeOK
  <2>3. Results' = Results
    BY <2>2 DEF Results
  <2> QED
    BY <2>1, <2>3 DEF CreateWrites, Ledger!ledger, Bets, PaidBets, Inserted
<1> QED
  BY <1>1, <1>2

LEMMA LedgerStep == IInv /\ [Next]_vars => [Ledger!Next]_(Ledger!ledger)
<1> SUFFICES ASSUME IInv, [Next]_vars PROVE [Ledger!Next]_(Ledger!ledger)
  OBVIOUS
<1>1. TypeOK
  BY DEF IInv
<1>2. CASE \E r \in Requests : RequestStep(r)
  <2>1. PICK r \in Requests : RequestStep(r)
    BY <1>2
  <2>2. Writes(r)
    BY <2>1, StepKeeps DEF IInv, RequestOK
  <2>3. CASE UNCHANGED tables \/ (CreateWrites(call[r]) /\ call[r] \in Calls)
    BY <1>1, <2>3, LedgerStutter
  <2>4. CASE CommitVote(r)
    BY <2>4, PlaceStep DEF Ledger!Next
  <2>5. CASE CommitConfirm(r)
    <3>1. call[r].event \in Events /\ call[r].option \in {"A", "B"}
      BY <2>5, ConfirmAtCommit DEF Calls, Options
    <3> QED
      BY <2>5, <3>1, SettleStep DEF Ledger!Next
  <2>6. CASE CommitReward(r)
    BY <2>6, PayStep DEF Ledger!Next
  <2> QED
    BY <2>2, <2>3, <2>4, <2>5, <2>6 DEF Writes
<1>3. CASE Tick \/ Finished \/ UNCHANGED vars
  BY <1>1, <1>3, LedgerStutter DEF Tick, Finished, vars, tables
<1> QED
  BY <1>2, <1>3 DEF Next, RequestStep

\* The transactions of vote, confirm and claim implement the indivisible
\* operations of TokenLedger: each commit is one of them, at which its guards
\* hold, and no other step changes what the ledger shows.
THEOREM RefinesLedger == Spec => ImplementsLedger
BY LedgerInit, LedgerStep, Invariance, PTL DEF Spec, ImplementsLedger, Ledger!Spec

-----------------------------------------------------------------------------
(* The board *)

\* The ledger the board is built on is this one.
LEMMA BoardLedger ==
    /\ Board!Ledger!Init <=> Ledger!Init
    /\ \A i, b : Board!Ledger!Place(i, b) <=> Ledger!Place(i, b)
    /\ \A e, o : Board!Ledger!Settle(e, o) <=> Ledger!Settle(e, o)
    /\ \A i : Board!Ledger!Pay(i) <=> Ledger!Pay(i)
<1>1. Board!Ledger!Placed = Ledger!Placed
  BY DEF Board!Ledger!Placed, Ledger!Placed
<1>2. \A e : Board!Ledger!BetsOn(e) = Ledger!BetsOn(e)
  BY <1>1 DEF Board!Ledger!BetsOn, Ledger!BetsOn
<1>3. \A b, o : Board!Ledger!calculateBettingPayouts(b, o)
                  = Ledger!calculateBettingPayouts(b, o)
  <2> TAKE b, o
  <2>1. \A S : Board!Ledger!Cardinality(S) = Ledger!Cardinality(S)
    BY DEF Board!Ledger!Cardinality, Ledger!Cardinality
  <2>2. \A f, S : Board!Ledger!TokenSum(f, S) = Ledger!TokenSum(f, S)
    BY <2>1 DEF Board!Ledger!TokenSum, Ledger!TokenSum, Board!Ledger!Units,
       Ledger!Units
  <2>3. /\ Board!Ledger!Winners(b, o) = Ledger!Winners(b, o)
        /\ Board!Ledger!Losers(b, o) = Ledger!Losers(b, o)
    BY DEF Board!Ledger!Winners, Ledger!Winners, Board!Ledger!Losers, Ledger!Losers
  <2>4. /\ Board!Ledger!WinningPool(b, o) = Ledger!WinningPool(b, o)
        /\ Board!Ledger!LosingPool(b, o) = Ledger!LosingPool(b, o)
    BY <2>2, <2>3 DEF Board!Ledger!WinningPool, Ledger!WinningPool,
       Board!Ledger!LosingPool, Ledger!LosingPool,
       Board!Ledger!sumTokenAmounts, Ledger!sumTokenAmounts
  <2>5. \A i : /\ Board!Ledger!Profit(b, o, i) = Ledger!Profit(b, o, i)
               /\ Board!Ledger!Remainder(b, o, i) = Ledger!Remainder(b, o, i)
    BY <2>4 DEF Board!Ledger!Profit, Ledger!Profit, Board!Ledger!Remainder,
       Ledger!Remainder, Board!Ledger!Numerator, Ledger!Numerator
  <2>6. \A i : Board!Ledger!Rank(b, o, i) = Ledger!Rank(b, o, i)
    BY <2>1, <2>3, <2>5 DEF Board!Ledger!Rank, Ledger!Rank,
       Board!Ledger!comparePayoutDrafts, Ledger!comparePayoutDrafts
  <2>7. Board!Ledger!Remaining(b, o) = Ledger!Remaining(b, o)
    BY <2>2, <2>3, <2>4, <2>5 DEF Board!Ledger!Remaining, Ledger!Remaining
  <2> QED
    BY <2>3, <2>5, <2>6, <2>7 DEF Board!Ledger!calculateBettingPayouts,
       Ledger!calculateBettingPayouts
<1>4. Board!Ledger!Init <=> Ledger!Init
  BY DEF Board!Ledger!Init, Ledger!Init
<1>5. \A i, b : Board!Ledger!Place(i, b) <=> Ledger!Place(i, b)
  BY <1>1 DEF Board!Ledger!Place, Ledger!Place
<1>6. \A e, o : Board!Ledger!Settle(e, o) <=> Ledger!Settle(e, o)
  BY DEF Board!Ledger!Settle, Ledger!Settle
<1>7. \A i : Board!Ledger!Pay(i) <=> Ledger!Pay(i)
  BY <1>1, <1>2, <1>3 DEF Board!Ledger!Pay, Ledger!Pay
<1> QED
  BY <1>4, <1>5, <1>6, <1>7
\* Events whose row the board shows without change.
LEMMA RowsKept ==
    ASSUME TypeOK, Created' = Created,
           \A e \in Created :
              /\ voteEvents'[e].category = voteEvents[e].category
              /\ voteEvents'[e].organizerUserId = voteEvents[e].organizerUserId
              /\ voteEvents'[e].deadlineAt = voteEvents[e].deadlineAt
    PROVE  RowsOf(voteEvents') = RowsOf(voteEvents)
BY DEF RowsOf, RowOf, Created

LEMMA OpenStep ==
    ASSUME IInv, NEW r \in Requests, Create(r), CreateWrites(call[r]),
           call[r] \in Calls
    PROVE  \E e \in Events : Board!Open(e, RowsOf(voteEvents')[e])
<1> DEFINE c   == call[r]
           new == NewEvent(c.category, c.user, c.deadlineAt)
<1>1. c.event \in Events /\ c.deadlineAt \in Nat /\ voteEvents[c.event] = Null
  BY DEF CreateWrites, Calls
<1>2. new \in VoteEvent /\ new.deadlineAt = c.deadlineAt
  BY <1>1 DEF NewEvent, VoteEvent, Calls
<1>3. voteEvents' = [voteEvents EXCEPT ![c.event] = new]
  BY DEF CreateWrites
<1> HIDE DEF new
<1>4. voteEvents'[c.event] = new /\ new # Null
  BY <1>1, <1>2, <1>3, NullAssumption DEF IInv, TypeOK
<1>5. voteEvents' \in [Events -> VoteEvent \cup {Null}]
  BY <1>1, <1>2, <1>3 DEF IInv, TypeOK
<1>6. IsValidDeadline(c.deadlineAt, stamp[r])
  <2>1. voteEvents' # voteEvents
    BY <1>1, <1>4
  <2> QED
    BY <2>1 DEF Create, Refuse, tables
<1>7. c.deadlineAt > 0
  BY <1>1, <1>6 DEF IsValidDeadline, IInv, TypeOK
<1>8. RowsOf(voteEvents)[c.event] = Null
  BY <1>1 DEF RowsOf
<1>9. /\ RowsOf(voteEvents')[c.event] = RowOf(new) /\ RowOf(new) # Null
      /\ RowOf(new).deadlineAt = c.deadlineAt
  <2>1. RowsOf(voteEvents')[c.event] = RowOf(new) /\ RowOf(new) # Null
    BY <1>1, <1>4, <1>5, RowsMap
  <2> QED
    BY <1>2, <2>1 DEF RowOf
<1>10. RowsOf(voteEvents') = [RowsOf(voteEvents) EXCEPT ![c.event] = RowOf(new)]
  <2>1. \A e \in Events : RowsOf(voteEvents')[e]
          = IF e = c.event THEN RowOf(new) ELSE RowsOf(voteEvents)[e]
    BY <1>3, <1>9 DEF RowsOf, IInv, TypeOK
  <2> QED
    BY <2>1 DEF RowsOf
<1>11. UNCHANGED Ledger!ledger /\ now' = now
  <2>1. now' = now
    BY StepKeeps DEF IInv, RequestOK, RequestStep, Step
  <2> QED
    BY <2>1, LedgerStutter DEF IInv
<1> HIDE DEF c
<1>12. Board!Open(c.event, RowOf(new))
  BY <1>7, <1>8, <1>9, <1>10, <1>11 DEF Board!Open, Ledger!ledger
<1> QED
  BY <1>1, <1>9, <1>12

LEMMA CastStep ==
    ASSUME IInv, NEW r \in Requests, CommitVote(r)
    PROVE  Board!Cast(r, Bets'[r])
<1> DEFINE c == call[r]
           b == BetOf(participations'[r])
<1>1. Ledger!Place(r, b) /\ Bets'[r] = b
  BY PlaceStep
<1>2. /\ b.event = c.event /\ b.tokenAmount = c.tokenAmount
      /\ b.createdAt = createdAt[r]
  BY CommitVoteWrites DEF BetOf
<1>3. /\ c.event \in Events /\ voteEvents[c.event] # Null
      /\ voteEvents \in [Events -> VoteEvent \cup {Null}]
  BY VoteAtCommit, NullAssumption DEF Calls, IInv, TypeOK
<1>4. /\ RowsOf(voteEvents)[c.event] = RowOf(voteEvents[c.event])
      /\ RowOf(voteEvents[c.event]) # Null
  BY <1>3, RowsMap
<1>5. createdAt[r] <= now
      /\ createdAt[r] < voteEvents[c.event].deadlineAt
  <2>1. /\ createdAt[r] \in Nat /\ stamp[r] \in Nat
        /\ voteEvents[c.event].deadlineAt \in Nat
    BY VoteAtCommit DEF VoteEvent, IInv, TypeOK
  <2>2. /\ createdAt[r] <= now /\ createdAt[r] <= stamp[r]
        /\ stamp[r] < voteEvents[c.event].deadlineAt
    BY <2>1, VoteAtCommit DEF AcceptsVotes, IInv, RequestOK, DatesInOrder, CommitVote
  <2> QED
    BY <2>1, <2>2
<1>6. (c.tokenAmount > 0) <=> (voteEvents[c.event].category = "betting")
  BY VoteAtCommit DEF IsBetting
<1>7. RowsOf(voteEvents') = RowsOf(voteEvents) /\ now' = now
  <2>1. RowsOf(voteEvents') = RowsOf(voteEvents)
    BY CommitVoteWrites, RowsKept DEF KeepsColumns, IInv
  <2>2. now' = now
    BY StepKeeps DEF IInv, RequestOK, RequestStep, Step, VoteStep
  <2> QED
    BY <2>1, <2>2
<1>8. b # Null
  BY <1>1 DEF Ledger!Place
<1>9. /\ RowOf(voteEvents[c.event]).deadlineAt = voteEvents[c.event].deadlineAt
      /\ RowOf(voteEvents[c.event]).category = voteEvents[c.event].category
  BY DEF RowOf
<1>10. Board!Ledger!Place(r, b)
  BY <1>1, BoardLedger
<1> HIDE DEF b, c
<1>11. Board!Cast(r, b)
  BY <1>2, <1>3, <1>4, <1>5, <1>6, <1>7, <1>8, <1>9, <1>10
     DEF Board!Cast, Board!Opened
<1> QED
  BY <1>1, <1>11 DEF b

LEMMA ConfirmStepShows ==
    ASSUME IInv, NEW r \in Requests, CommitConfirm(r)
    PROVE  Board!Confirm(call[r].event, call[r].option)
<1> DEFINE c == call[r]
<1>1. /\ c.event \in Events /\ voteEvents[c.event] # Null
      /\ voteEvents \in [Events -> VoteEvent \cup {Null}]
      /\ voteEvents[c.event].category = "betting"
  BY ConfirmAtCommit, CommitConfirmWrites DEF Created, IsBetting, IInv, TypeOK
<1>2. /\ RowsOf(voteEvents)[c.event] = RowOf(voteEvents[c.event])
      /\ RowOf(voteEvents[c.event]) # Null
  BY <1>1, RowsMap
<1>3. RowOf(voteEvents[c.event]).category = voteEvents[c.event].category
  BY DEF RowOf
<1>4. RowsOf(voteEvents') = RowsOf(voteEvents)
  BY CommitConfirmWrites, RowsKept DEF IInv
<1>5. now' = now
  BY StepKeeps DEF IInv, RequestOK, RequestStep, Step, ConfirmStep
<1>6. Board!Ledger!Settle(c.event, c.option)
  BY SettleStep, BoardLedger
<1> HIDE DEF c
<1>7. Board!Confirm(c.event, c.option)
  BY <1>1, <1>2, <1>3, <1>4, <1>5, <1>6 DEF Board!Confirm, Board!Opened
<1> QED
  BY <1>7 DEF c

LEMMA ClaimStepShows ==
    ASSUME IInv, NEW r \in Requests, CommitReward(r)
    PROVE  \E i \in Requests : Board!Claim(i)
<1>1. PICK i \in Requests : Ledger!Pay(i)
  BY PayStep
<1>2. voteEvents' = voteEvents /\ now' = now
  BY StepKeeps DEF CommitReward, IInv, RequestOK, RequestStep, Step, ClaimStep
<1>3. Board!Ledger!Pay(i)
  BY <1>1, BoardLedger
<1> QED
  BY <1>2, <1>3 DEF Board!Claim

LEMMA BoardInit == Init => Board!BoardInit
<1> SUFFICES ASSUME Init PROVE Board!BoardInit
  OBVIOUS
<1>1. Board!Ledger!Init
  BY LedgerInit, BoardLedger
<1>2. voteEvents = InitialEvents /\ now = 0
  BY DEF Init
<1> QED
  BY <1>1, <1>2 DEF Board!BoardInit

LEMMA BoardStep == IInv /\ [Next]_vars => [Board!BoardNext]_(Board!board)
<1> SUFFICES ASSUME IInv, [Next]_vars PROVE [Board!BoardNext]_(Board!board)
  OBVIOUS
<1>1. TypeOK
  BY DEF IInv
<1>2. CASE \E r \in Requests : RequestStep(r)
  <2>1. PICK r \in Requests : RequestStep(r)
    BY <1>2
  <2>2. Writes(r) /\ now' = now
    BY <2>1, StepKeeps DEF IInv, RequestOK
  <2>3. CASE UNCHANGED tables
    BY <1>1, <2>2, <2>3, LedgerStutter DEF Ledger!ledger, Board!board, tables
  <2>4. CASE Create(r) /\ CreateWrites(call[r]) /\ call[r] \in Calls
    BY <2>4, OpenStep DEF Board!BoardNext
  <2>5. CASE CommitVote(r)
    BY <2>5, CastStep DEF Board!BoardNext
  <2>6. CASE CommitConfirm(r)
    <3>1. call[r].event \in Events /\ call[r].option \in {"A", "B"}
      BY <2>6, ConfirmAtCommit DEF Calls, Options
    <3> QED
      BY <2>6, <3>1, ConfirmStepShows DEF Board!BoardNext
  <2>7. CASE CommitReward(r)
    BY <2>7, ClaimStepShows DEF Board!BoardNext
  <2> QED
    BY <2>2, <2>3, <2>4, <2>5, <2>6, <2>7 DEF Writes
<1>3. CASE Tick
  <2>1. UNCHANGED Ledger!ledger /\ voteEvents' = voteEvents
    BY <1>1, <1>3, LedgerStutter DEF Tick, tables
  <2>2. Board!Tick
    BY <1>3, <2>1 DEF Tick, Board!Tick, Ledger!ledger
  <2> QED
    BY <2>2 DEF Board!BoardNext
<1>4. CASE Finished \/ UNCHANGED vars
  <2>1. UNCHANGED Ledger!ledger /\ voteEvents' = voteEvents /\ now' = now
    BY <1>1, <1>4, LedgerStutter DEF Finished, vars, tables
  <2> QED
    BY <2>1 DEF Ledger!ledger, Board!board
<1> QED
  BY <1>2, <1>3, <1>4 DEF Next, RequestStep

\* What the tables show to the reads of details and lists is a behaviour of
\* EventBoard: an event opens with a deadline ahead, a vote is in time and its
\* stake fits the event, a result is given to a betting event only.
THEOREM RefinesBoard == Spec => ImplementsBoard
BY BoardInit, BoardStep, Invariance, PTL DEF Spec, ImplementsBoard, Board!BoardSpec

=============================================================================
