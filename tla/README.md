# Seesaw API: specification and proofs

Seesaw is a voting service: users open *vote events* with two options, vote once
per event, and on `betting` events stake tokens that are shared out among the
winners once the organizer confirms the result. The API is a NestJS process (or
several) over one MariaDB database, with a Socket.IO gateway for the chat of
each event. This directory holds TLA+ modules that model it, TLC configurations
that check them on small instances, and TLAPS proofs of what matters most.

Paths below are those of the repository (`src/…`).

## 1. Inventory

| component | state | operations | hard behaviour | what makes it correct |
|---|---|---|---|---|
| vote event commands (`vote-events.service.ts`, `vote-events.repository.ts`) | tables `vote_events`, `vote_event_participations`, `users.vote_token` | create, vote, confirm the result, claim the reward | checks made on a read outside the transaction; statements of concurrent transactions interleave and wait for row locks; deadlocks; lost statements and commits; a deadline that passes meanwhile | one vote per user and event, tokens conserved, no vote after the result, a reward paid once, answers that tell the truth, every request answered |
| betting payouts (`vote-events.betting.ts`) | none | `calculateBettingPayouts` | rounding, remainders, ties | the payouts use up the pool and share it in proportion, whoever reads the rows in whatever order |
| row locks (MariaDB, used by the above) | locks per transaction | shared and exclusive locks, waits, deadlock detection | cycles of waits | a cycle loses one transaction |
| vote event detail (`getDetail`, `vote-events.presenter.ts`) | reads the tables | detail with ratios, affiliation statistics, betting information | two statements outside a transaction | the totals of one answer agree, the reward it shows is the one a claim credits, and "claimed" is final |
| vote event lists (`listOngoing`, `listCompleted`, the two lists of a user) | a cursor in the client's hands | cursor pages in several orders | rows inserted, counted, completed between two pages | no event twice, none missed that stayed in the list, whichever order its key or its group takes meanwhile |
| chats (`chats.gateway.ts`, `chats.service.ts`, `chat-messages.repository.ts`) | table `vote_event_chat_messages`, sockets, rooms | connect, join, send, list history | resends with the same `clientMessageId`, a restart between commit and broadcast, reconnection | one message per client id, everyone in the room or reading the history gets every message |
| auth (`auth.service.ts`, `jwt-auth.guard.ts`) | signed tokens, none on the server | login, refresh, verify | two types of token, each usable until it expires; tokens cannot be taken back | nobody acts as a user for longer than a login of that user allows |
| users (`users.service.ts`) | table `users` | signup, availability, suggestion of nicknames | two signups at once; a signup during a suggestion; a lost commit | unique nicknames, the loser told so; a suggestion that was free when asked for |
| home summary (`getSummary`) | reads the tables | three counts | conditions that change with time | every event is counted once, under the list that shows it, and nothing counted is missing later |
| affiliations, health, image uploads | a fixed table; none | reads; signing upload parameters | – | – |
| migrations | the schema and a version table | `up` on start, `down` by hand | a crash inside `Migration20260630120000_UserSignupConstraints`, which is not transactional | whatever is recorded as done is done; a rerun ends where an undisturbed run does |

Interaction: the controllers call the services directly; the only state the
components share is the database. Every request is a chain of awaited calls in
a Node process, so any two requests interleave at every `await`, whether in one
process or in several. The chat gateway reads `vote_events` to validate a room.
The lists, the detail and the home page read what the vote transactions commit.

The hazards found while reading the code are listed, with their lines and the
properties that cover them, in `PROJECT.json`.

## 2. Modules

    TokenSum ── BettingPayout ──┬── BettingRounds               (payout rule alone)
                                ├── TokenLedger                 (abstract specification)
                                │     └ EventBoard              (abstract, with events and clock)
                                │         ├ VoteEventDetail ── MCVoteEventDetail
                                │         └ VoteEventLists ─── MCVoteEventLists
    RowLocks ───────────────────┴── VoteEvents                  (the transactions)
                                      └ VoteEventsProperties    (properties, refinements)
                                          └ VoteEventsInvariant (inductive invariant)
                                              └ MCVoteEvents    (scenarios for TLC)

    Chats ── ChatsProperties ─┬─ MCChats                        (sockets, sends, history)
                              └─ ChatsInvariant                 (inductive invariant)
    Accounts ── MCAccounts                                      (signup, login, tokens)
    SignupConstraints ── MCSignupConstraints                    (the migration)

The modules with proofs, each below what it speaks of:

    TokenSum ── BettingPayout ── BettingPayoutProofs ─┬─ BettingRoundsProofs
                                                      ├─ VoteEventsProofs
                                                      ├─ VoteEventDetailProofs
                                                      ├─ VoteEventListsProofs
                                                      └─ ChatsProofs
    AccountsProofs        SignupConstraintsProofs

**`VoteEvents`** models the four commands. One request of the model is one HTTP
request; its `call` is the user and body, `pc` the awaited statement it is at.

| action | code |
|---|---|
| `Receive`, `Create` | `create`: the deadline check (`Null` is a text that is no date or no full hour), the INSERT with its foreign key to the organizer |
| `VoteFindDetail` | `vote` up to `participate`: `findDetail` reads committed rows; refusals in the order of the code |
| `Debit` | update of `users` with `vote_token >= ?`, betting events only; then the participation and its `createdAt` are built |
| `ReferenceEvent`, `InsertKey`, `ReferenceUser` | the INSERT of the participation: foreign key to the event, unique key, foreign key to the user, in the order InnoDB checks them |
| `Count`, `CommitVote` | the guarded update of the counters; the commit |
| `ConfirmFindDetail`, `ConfirmFindEvent`, `CommitConfirm` | the service's checks, `select … for update` with the checks repeated, the update with its own where clause (`AcceptsResult`) and commit |
| `ClaimFindDetail`, `ClaimFindEvent`, `ClaimFindParticipation`, `Credit`, `CommitReward`, `CommitClaim` | the service's checks, the two locking reads (the second with the read of all participations, which the event's lock keeps as they are), the payout, the credit and the claimed date, the commit |
| `RollBackVictim` | InnoDB rolls back one transaction of a cycle; the exception filter answers `internal_server_error` |
| `Fail`, the second disjunct of `Committed` | a statement, or the acknowledgement of a commit, is lost |
| `Tick` | the clock |

A transaction's writes are applied by its commit action. This is faithful
because every row it writes is locked exclusively from the statement that writes
it: no other transaction can read the row with a locking read or write it, and
consistent reads see committed rows only. The checks of a statement therefore
read the tables as they are, which for a locked row is also the state at commit;
the proof of `IInv` (below) is what shows this for the debit, the unique key,
the counters, the result and the reward.

Abstractions: titles, options' texts and images are left out; a date is a
natural number; a participation's uuid is the request's number, so uuids come in
any order relative to time as the scenarios assign them; `tokenAmount = 0`
stands for a body without one. Requests that arrive without a valid token or
with an invalid body are refused before the code modelled here.

**`BettingPayout`** is `calculateBettingPayouts` as an operator: the sorted list
of drafts is a rank, the loop over it the comparison of that rank with the
number of tokens left. **`BettingRounds`** builds every sequence of bets within
its bounds. **`TokenSum`** defines a sum as the size of a disjoint union, so
that sums need no recursion and can be reasoned about in proofs.

**`RowLocks`** is external: the locks of InnoDB as these statements use them.
`Wanted` in `VoteEvents` says which locks each statement takes. Gap locks are
not modelled: the locking reads find their rows by unique keys, and the gaps a
duplicate check leaves locked can only add waits, and cycles that end in the
same roll back.

**`TokenLedger`** is what the transactions implement: placing a bet, settling an
event and paying a bet as indivisible steps. The mapping is in
`VoteEventsProperties` (`Ledger`): `paid` is the set of participations with a
claimed date, `result` the result column.

**`EventBoard`** adds to the ledger what a reader of the committed tables sees
besides: events that are opened, the deadline each bet was made before, results
for betting events only, the clock. `VoteEvents` implements it too (`Board` and
`ImplementsBoard` in `VoteEventsProperties`). The modules of the reads are
therefore built on `EventBoard` and not on the transactions: each read statement
of the code is one consistent read of committed rows, which is what `EventBoard`'s
variables are, and between two statements any of its steps may happen. The
counters of a row are computed from the bets, which is what `CountersMatch` says
of `VoteEvents`.

**`VoteEventDetail`** is one `GET vote-events/:id`.

| action or operator | code |
|---|---|
| `GetDetail` | `getDetail` takes its date |
| `FindDetail`, `DetailRow` | `findDetail`: the event, its counters, the caller's own participation; `not_found`, or the answer at once when `RevealResults` is false |
| `FindParticipationChoices` | the participations of everybody, a statement later |
| `calculateRatios`, `buildAffiliationStats`, `EarnedTokenAmount`, `RewardClaimed`, `PayoutRate` | the presenter: how the answer is made of the two reads |

Percentages are whole hundredths of a percent, rounded as `Math.round` does.

**`VoteEventLists`** is one client that reads one list to its end, or the home
page twice.

| action or operator | code |
|---|---|
| `AskFirst`, `AskNext`, `AcceptsCursor` | a request without a cursor and with one; a cursor of another sort or category is refused |
| `FindMain` | `findMainOngoingVoteEvent`, for the first page of the ongoing list |
| `FindPage` | the page's statement: `Listed` and `AfterCursor` are its conditions, `Before` its order, `PageLimit + 1` its limit; `Cursor` is what `encodeListCursor` makes of the last item |
| `GetHome` | `getSummary`, one statement; `OngoingCount`, `CompletedCount` and `ParticipantCount` are its sums, with the two conditions as written there |

`Events` are numbers, in the order of their uuids. `owed` and `counts` in `walk`
are history variables for `ListComplete`. `ShownOnce` tells the lists apart: a
user's own list by deadline sorts the open events before the completed ones, and
an event that is completed between two pages may be shown in both; every other
list is of one group (`KeepsGroup`), and no event is on two of its pages.

**`Accounts`** is signup, the two nickname operations, login, refresh and the
guards, statement by statement. A request to any other part of the API is `act`
(behind `JwtAuthGuard`) or `view` (behind `OptionalJwtAuthGuard`).

| action | code |
|---|---|
| `SignupCheck`, `FindAffiliation`, `SignupInsert` | `existsByNickname`; `findByCode`; the INSERT after the hashing, with `users_nickname_unique`, and its commit, whose answer may be lost |
| `CheckAvailability` | `checkNicknameAvailability` |
| `Suggest` | one turn of the loop of `suggestNickname` |
| `LoginFind`, `LoginVerify` | `findByNickname`; `verifyPassword` and `issueTokens` |
| `RefreshVerify`, `GuardVerify`, `FindById` | `verifyToken` with the expected type; `findById`, and for a refresh the signing of the access token |
| `Receive`, `Fail`, `Tick` | a request arrives, a statement is lost, the clock |

Tokens are kept by clients, so every token ever signed stays in `tokens` and may
be sent with any later request. `taken`, `stamp` and `signed` are history
variables.

**`SignupConstraints`** is `Migration20260630120000_UserSignupConstraints`: the
statements of `up` and `down` in their order, each with the question to
`information_schema` that decides whether it is executed, and what makes it fail.
`Crash` ends a run before any statement, `Rerun` starts it from the first one,
`Turn` goes from `up` to `down` and back. `Init` has both schemas the migration
may meet, the one of `Migration20260630075056` and the older one with ids.

**`Chats`** models the gateway and its service. One send of the model is one
`chat:message:send`; its number is also the uuid the row gets, which the run may
order against time in any way, since sends need not be inserted in the order of
their numbers. `rooms`, `status` and `outgoing` are Socket.IO's memory of one
process (the contract rules out an adapter for several), `messages` is the table.

| action | code |
|---|---|
| `Connect`, `handleJoin` | `authenticate` with a valid token; joining a room, whether or not the event exists (a body that names none is refused and changes nothing) |
| `Receive` | `handleSend` and `sendMessage` up to the first await: the checks of the fields, then of their content |
| `FindDuplicate` | the event is read, then the row with the user's `clientMessageId`; a duplicate is acknowledged; otherwise `createdAt` is taken |
| `Insert` | `create`: the INSERT and its commit, whose answer may be lost; a duplicate key becomes `internal_server_error` |
| `Publish` | the row is read back, the room is sent the message, the sender the acknowledgement |
| `AskPage`, `ReadPage`, `ReadCount` | `listMessages` and the two statements of `list`; the next page is asked for with the cursor of the last |
| `Disconnect`, `Restart`, `Deliver`, `Fail` | a connection ends, the process restarts, a packet arrives, a statement is lost |

The client is as free as it can be: it may join before or after it reads, read
while its own sends are under way, and go on reading over HTTP when its socket
is closed. A closed socket stays closed; a client that comes back is another
member of `Sockets`. `joined`, `known` and `pages` in `walk` are history
variables for the properties. The INSERT's locks are not modelled: it is
committed alone, and its waiting for the unique key is the order of two steps.

Definitions whose name ends in `_Something` (`AcceptsVotes_DeadlineOnly`, …) are
plausible slips of the definition they stand before. The specification does not
use them; each shows that some property notices the slip.

## 3. Runs

| run | instance | shows |
|---|---|---|
| `betting_rounds` | up to 4 bets, stakes 1–3, two dates, every order of ids | `PayoutsExhaustPool`, `PayoutsWithinQuota`, `LeftoversFollowBets` (`LargerAndEarlierPaysNoLess` and `RowOrderIrrelevant`) |
| `betting_race` | 3 users, one betting event, 3 votes, a confirmation, 2 claims (of one user twice, or of different users) | `TokensConserved`, `CountersMatch`, `ClaimsAgree`, `PoolFrozenByResult`, `RewardPaidOnce`, `ImplementsLedger` |
| `vote_clash` | 2 users, 3 events, 4 requests of several kinds, a deadline that passes, one fault | `TypeOK`, `OneParticipationPerUser`, `AnswersMatchTables`, `VotesInTime`, `ImplementsBoard` |
| `vote_progress` | 2 users, 4 requests, under `FairSpec` | `EveryRequestAnswered` |
| `vote_deadlock` | the same, safety only | violates `SecondVoteIsRefused` (section 6) |
| `vote_detail` | one detail of a betting or a daily event, read by any of 3 users or nobody, with 3 votes, a confirmation and claims around its two statements | `StatsCoverTotals`, `RatiosAddUp`, `EarnedIsCredited`, `ClaimedIsFinal` |
| `event_lists` | the four lists in each order and with a category, pages of one event, 3 events of which one is opened meanwhile, 2 votes, a confirmation, 2 deadlines; the home page | `ShownOnce`, `ListComplete`, `SummaryAccounts` |
| `accounts` | 4 requests: signups with one nickname, logins with right and wrong passwords, refreshes, suggestions and guarded requests; 4 instants, one fault | `TypeOK`, `UniqueNicknames`, `SignupAnswersMatch`, `SuggestionHonest`, `SessionNeedsLogin` |
| `signup_migration` | both schemas, 2 users, 3 kills, one roll back, under `FairSpec` | `RecordedIsWhole`, `RollbackRestores`, `AffiliationKept`, `EndsUnlessTorn` |
| `chat_send` | 2 users with a socket each, 3 sends: one user's message, in a room that exists or not, the same again, another or one that is refused, and another user's with the same client id; 2 faults, under `FairSpec` | `TypeOK`, `OneMessagePerClientId`, `AckNamesOwnMessage`, `SentOnce`, `MessageReachesRoom` |
| `chat_history` | 1 socket, 3 messages in 2 seconds, pages of one message, a fault | `PagesInOrder`, `HistoryComplete`, `JoinedReaderMissesNothing`, `TotalCountCoversPages` |
| `chat_resend` | one message sent twice, no fault | violates `ResendIsAcknowledged` (section 6) |

Why the bounds are enough. Four bets with stakes up to three give up to three
winners with equal and unequal remainders and leftover tokens for some but not
all of them. In `betting_race` two winners share one token that cannot be
halved, so the tie-break decides a payout, and every vote may still be under way
when the result is confirmed. In `vote_clash` a user's tokens cover either of
two bets but not both, each vote, confirmation and claim meets a conflicting
one, the clock moves across the deadline of `e1` at any point, and any single
statement or commit acknowledgement may be lost; two faults would only repeat
this for two requests, which share no state but the tables. The bounds `MaxTime`
and `MaxFaults` are guards of `Tick`, `Fail` and `Committed`. A run ends in
`Finished` when all requests are answered; any other state without a step would
be reported as a deadlock, except in `betting_rounds`, which simply has no more
ids to place, and in the runs of the other modules, where nothing need happen
once the requests are answered, the lists read and the migration recorded.

In `chat_send` three sends are enough for a duplicate to be found, to hit the
unique index, and to be one of another user; with two faults a connection may
break or the process restart twice, or once after a lost answer. In
`chat_history` every page but the last is followed by another, two of the three
messages always share a second, and each may be stored before, between or after
the pages are read.

In `vote_detail` two users of one affiliation win one token each against a stake
of 31 or of 1 by a third, so the two percentages are rounded both ways (3.125 and
96.875 both go up), the pool of 33 cannot be halved, and the payouts differ from
the plain proportion. One request is enough, because reads do not meet each other:
what the property compares it with is the wallet at the claim. In `event_lists`
pages of one event put every change between two pages; three events are enough
for one to move in front of the cursor, one behind it and one to be the main
vote. In `accounts` the pool of two nicknames lets a suggestion go round once
with a signup at each turn; the lifetimes are 2 and 3 of 4 instants, so that an
access token made by a late refresh outlives the refresh token. In
`signup_migration` three kills are one more than the two windows below need, and
a run may be killed before each of its statements.

Fairness. `FairSpec` of `VoteEvents` asks weak fairness of `Step(r)` for every request: Node
runs the continuations of settled promises and MariaDB executes statements whose
locks are free, and detects cycles. Nothing is asked of clients (`Receive`), of
the clock or of faults. Weak fairness would not be enough if locks could be
taken in turn for ever; here each request takes each lock once, so the requests
in front of a waiting one come to an end. `FairSpec` of `Chats` asks the same for
the steps of sends and history reads, and for `Deliver`: TCP delivers the
packets of a connection that does not break, and one that breaks is `Disconnect`.
`FairSpec` of `SignupConstraints` asks it of `Up`, `Down` and `Rerun`: a run that
is not killed executes its next statement, and a deployment that stopped is
started again; kills and roll backs are not asked for.

## 4. Proofs

Every safety invariant and action property of the passing runs is also a theorem;
only liveness is left to TLC (section 5). What a theorem assumes of the
constants are the named assumptions of the modules it rests on: the sets that
stand for users, events, requests and sends are finite, ids are natural numbers
(so that they have an order), bounds are natural numbers, and `Null` is taken for
nothing else. TLC evaluates them on every run.

### Vote events

`VoteEventsProofs` proves, for any users, events, requests, inboxes and bounds
that satisfy `VoteEventsAssumption` and `NullAssumption`:

| theorem | statement |
|---|---|
| `Invariance` | `Spec => []IInv` |
| `TypeCorrect` | `Spec => []TypeOK`; `voteToken \in [Users -> Nat]` says that no wallet is overdrawn |
| `VoteOnce` | `Spec => []OneParticipationPerUser` |
| `InTime` | `Spec => []VotesInTime` |
| `PoolStaysFrozen` | `Spec => PoolFrozenByResult` |
| `PaidOnce` | `Spec => RewardPaidOnce` |

None of these properties is inductive: that a commit does not overdraw a wallet
follows from a check made several steps before. `IInv` (`VoteEventsInvariant`)
bridges the gap. It says which lock a request holds at each step
(`StakeReserved`, `KeyReserved`, `EventReserved`, `RewardReserved`), that no two
requests hold conflicting locks (`LocksExclude`), and for each lock what the
request found under it and may rely on: the tokens, the free key, the open event
or its result, the unpaid reward. Another request's commit writes a row only
under an exclusive lock of that row, so by `LocksExclude` it does not disturb
the facts of a request holding one. What no lock protects is protected by
monotonicity (`ResultsMatchDates`, `DatesInOrder`, `ParticipationsFit`).

The proof has one lemma per action and one per conjunct that an action can
disturb.

`VoteEventsProofs` goes on from `IInv` to what relates the tables with the
answers, with each other and with the abstract specifications:

| theorem | statement |
|---|---|
| `AnswersInvariance` | `Spec => []AnswersInv` |
| `AnswersAgree` | `Spec => []AnswersMatchTables` |
| `ClaimsAnswerAlike` | `Spec => []ClaimsAgree` |
| `CountersAgree` | `Spec => []CountersMatch` |
| `TokensAreConserved` | `Spec => []TokensConserved` |
| `CreditsStayWithinPool` | the rewards credited for an event never exceed the stakes on it |
| `NoTokenIsMinted` | all wallets together never hold more than users were given |
| `RefinesLedger` | `Spec => ImplementsLedger` |
| `RefinesBoard` | `Spec => ImplementsBoard` (with `AbstractNullAssumption`) |

`AnswersInv` adds to `IInv` what an answered request said and why it is still
true: a participation is never taken back, and after its result an event has
neither a new participation nor another row, so the payout of a participation
(`PayoutKept`) is the amount every claim answers, whenever it is sent
(`ClaimSettled`). `AnswersMatchTables` alone would not be inductive: a second
confirmation is refused because of what `IInv` says of the lock under which it
found the first one's result.

For `CountersMatch` and `TokensConserved` each commit is compared with the sums
it changes, one term each and by the same amount on both sides (`CountedVote`,
`SumAdd`, `SumChange`). Neither needs more than `AnswersInv`. The last two rows
combine them with the payout rule: the participations of an event with a result
are a round of bets whose pools are the event's counters (`ResultRound`), the
payouts of a round add up to its pool (`PayoutsAddUp`), and a credited reward is
a payout; hence no credit comes from nowhere.

`RefinesLedger` and `RefinesBoard` go step by step: a commit of a vote is `Place`
(`Cast`), of a confirmation `Settle`, of a claim with something to write `Pay`, of
a creation `Open`, and every other step changes nothing the abstract
specification sees. The guards of the abstract operations (the stake is covered,
the user has no other bet, the event is open, the bet won and is unpaid) are
where the work is: the code checks none of them at the commit, `IInv` says the
locks have kept them true.

### The payout rule

`BettingPayoutProofs` begins with the facts on sums and ranks. A sum is the size of a set of
units, so additivity is that of cardinalities. What needs induction over a set
(`SubsetInduction`) is proved without a theorem that takes an operator: the proper
subsets of a finite set are well-founded by their sizes, and a set of
counterexamples would have a smallest one.

| theorem (`BettingPayoutProofs`) | statement |
|---|---|
| `PayoutType` | a payout is a natural number |
| `PayoutsAddUp` | with winners, the payouts use up the pool exactly |
| `PayoutWithinQuota` | a payout is the exact share rounded down or up |

`BettingRoundsProofs` states them for `BettingRounds` as the properties of the run
(`PoolIsExhausted`, `PayoutsKeepQuota`, `LeftoversFollowTheBets`,
which joins `LargerAndEarlierIsPaidNoLess` and `RowOrderIsIrrelevant`), for any
number of bets of any size. The argument: the remainders of the divisions add up
to the number of leftover tokens times the winners' stakes, so fewer tokens are
left than there are winners, and at least as many winners have a remainder; the
ranks are a numbering of the winners (distinct, none missing, `RanksBelow`), so
exactly as many winners are below a bound as the bound says, each gets one token,
and none of them had a share without a remainder. The order compares whole
remainders first, then stakes, dates and ids, as the code does. No two winners
compare as equal (`DraftsDiffer`), so every sort places each at its rank
(`PlaceIsRank`): a claim that reads the rows in another order computes the same.

### The vote event detail

`VoteEventDetailProofs` proves, for any users, affiliations, events, votes and
instants that satisfy `DetailAssumption` and `DetailNullAssumption`:

| theorem | statement |
|---|---|
| `DetailInvHolds` | `Spec => []DetailInv` |
| `DetailStatsCoverTotals` | `Spec => []StatsCoverTotals` |
| `DetailRatiosAddUp` | `Spec => []RatiosAddUp` |
| `DetailClaimedIsFinal` | `Spec => ClaimedIsFinal` |
| `DetailEarnedIsCredited` | `Spec => EarnedIsCredited` |
| `DetailReadsBoard` | `Spec => BoardSpec`: the reads leave the tables alone |

`BoardInv` is what the tables keep (the stakes fit the events, one participation
per user, paid bets have won), `ViewInv` what is still true of a row that was read
while votes, results and claims go on (`RowOK`): its counters are no larger than
those of the participations the second statement reads, and when it has a result
they are the same (`TotalsWithin`), because an event with a result takes no more
votes. From this `StatsCoverTotals` follows by grouping the participations by
affiliation and side (`StatsAddUp`, `SumOfGroups`). `DetailEarnedIsCredited`
compares two moments: the payout is computed from the row that was read, the
credit from the tables at the claim, and both are the payout of one round of
bets, since a row with a result has all of them.

The percentages rest on what `Math.round` does (`PercentageOf`, `RoundedSum`): the
two of a pair add up to 100, or to 100.01 when both are next to a half. The
proof of `RatiosAddUp` corrected the property: it used to ask a payout rate of at
least one hundredth of a percent for every own stake, which the small instance
satisfies, but the rate of a stake below a twenty-thousandth of the pool rounds
to 0. `RatiosFit` now asks what the code ensures.

### The vote event lists

`VoteEventListsProofs` proves, for any events, votes, queries and page length that
satisfy `ListsAssumption` and `ListsNullAssumption`:

| theorem | statement |
|---|---|
| `ListsInvHolds` | `Spec => []ListsInv` |
| `ListsShownOnce` | `Spec => []ShownOnce` |
| `ListsListComplete` | `Spec => []ListComplete` |
| `ListsSummaryAccounts` | `Spec => SummaryAccounts` |
| `ListsReadBoard` | `Spec => BoardSpec` |

A list is sorted by values that change while it is read. What saves the reader
is `KeyMoves`: the date and the deadline of an event stay, it only goes from the
open group to the completed one, and its number of participants only grows. With
the list's strict order (`BeforeOrders`) and a page being the first of what is
behind the cursor (`FirstOfIs`, `PageFound`), with its last item as the next
cursor, `ListsInv` says of a list under way that everything shown lies at or
before the cursor, in the place it has now (`ShownPassed`, kept by `PassedStays`),
and that what the reader is still owed lies behind it unless it has been voted
on since (`OwedToCome`, kept by `BeyondStays`). `GroupsKept` excepts the one list
in which an event may pass the cursor the other way. `SummaryWithin` bounds what
the home page was told by what the tables say now. `SummaryAccounts` asks more of a
reading: its two event counts are the sizes of the ongoing and the completed list
at that moment and together all events, its participant count is the number of
participations (`CountsGrow` gives that no later reading counts less).

### Chats

`ChatsProofs` proves, for any sockets, users, events, sends, page limit and bounds
that satisfy `ChatsAssumption`, every invariant of the runs `chat_send` and
`chat_history`:

| theorem | statement |
|---|---|
| `ChatsInvariance` | `Spec => []IInv` |
| `ChatsTypeCorrect` | `Spec => []TypeOK` |
| `MessagesAreStoredOnce` | `Spec => []OneMessagePerClientId` |
| `SuccessNamesOwnMessage` | `Spec => []AckNamesOwnMessage` |
| `MessagesAreSentOnce` | `Spec => []SentOnce` |
| `PagesAreInOrder` | `Spec => []PagesInOrder` |
| `TotalCountCovers` | `Spec => []TotalCountCoversPages` |
| `HistoryIsComplete` | `Spec => []HistoryComplete` |
| `NoMessageMissed` | `Spec => []JoinedReaderMissesNothing` |

`IInv` (`ChatsInvariant`) has three parts. `SendOK` says how far a send has got and
that its row says what its command said. `SentWhenDone` says that only the step
that ends a send puts its message on the wire, from which `SentOnce` follows.
`WalkOK` speaks of a client that reads the history: what it knew of when it began
lies in the pages it has read or behind the cursor (`KnownReadOrToCome`), and if
it joined before it asked, what it did not know of has been sent to it or is
still under way (`JoinedGetsTheRest`). The last was not inductive by itself: it
needs that only open sockets are in rooms (`RoomsAreOpen`), or a socket that
connects could appear to have joined already.

That the cursor is sound in spite of messages that are stored late, with dates
before it, needs the order of the list to be strict (`BeforeOrders`), a page to be
the newest of what is behind its cursor (`NewestPage`), and the cursor to be the
oldest member of the last page, which does not change when rows are added
(`OrderStays`, `PagesStay`).

### Accounts

`AccountsProofs` proves, for any users, requests, pool, lifetimes and bounds that
satisfy `AccountsAssumption` (the first users have distinct nicknames, lifetimes
are positive, the pool is not empty) and `AccountsNullAssumption`, every property
of the run `accounts`:

| theorem | statement |
|---|---|
| `Invariance` | `Spec => []IInv` |
| `TypeCorrect` | `Spec => []TypeOK` |
| `NicknamesUnique` | `Spec => []UniqueNicknames` |
| `SignupTold` | `Spec => []SignupAnswersMatch` |
| `SuggestionsHonest` | `Spec => []SuggestionHonest` |
| `SessionsNeedLogin` | `Spec => []SessionNeedsLogin` |

`SessionNeedsLogin` speaks of a request that has been answered, and what it needs
was decided by a login several steps and two tokens earlier. `IInv` carries it
along: `TokenOrigin` says for every token in the hands of clients which login or
refresh signed it and until when it is good, `Sessions` that a request that got
past `verifyToken` has such an origin. That no answer, row or password ever
changes (`Persist`) keeps the origin true. `SuggestionsOK` says that a suggestion
has found every nickname it tried taken, and that names stay taken;
`PoolPlaces` shows that with the last turn it has come by the whole pool from
wherever it started. `NewUsersSigned` ties a new user's row to the signup it came
from, the one whose commit was acknowledged or lost.

### The signup migration

`SignupConstraintsProofs` proves, for any users and affiliations and any number of
kills, reruns and roll backs, from either schema, with `IdsAssumption` (no
generated id is a code):

| theorem | statement |
|---|---|
| `MigrationInvariance` | `Spec => []IInv` |
| `RecordedRunsAreWhole` | `Spec => []RecordedIsWhole` |
| `RollbacksRestore` | `Spec => []RollbackRestores` |
| `AffiliationsKept` | `Spec => []AffiliationKept` |

`Migrated(n)` says what the statements before statement `n` have made of the schema,
whichever of them had something to do; it starts from nothing with each rerun,
and each of its parts is kept by the statements that follow. What survives a kill
is `Mapping`: the rows refer to their affiliations by code, or all of them by id;
by id under the new column name only where a run was killed right before the
UPDATE. In that case the foreign key cannot be added, so `Migrated(14)` is never
reached with it, and nothing is recorded.

## 5. Model-checked only

- `EveryRequestAnswered`, `MessageReachesRoom`, `EndsUnlessTorn`: liveness under
  fairness is outside the prover's reach.
- That the assumptions on the environment are right (InnoDB's locks, Socket.IO's
  rooms, the JWT library) is neither checked nor proved: they are modelled from how
  the code uses them.

## 6. Where code and documentation differ

`vote_deadlock`: `docs/API_CONTRACT.md` (line 798) promises `409
vote_event_already_participated` to a user who votes twice on an event. When the
two votes are sent at once on an event without stakes (the debit would put the
votes of one user in a row), both INSERTs share-lock the event (foreign key), the
second then waits for the first one's unique key, and the first one's update of
the counters waits for the second one's shared lock. InnoDB rolls one of the two
back, `isDuplicateKeyError` does not recognise that error, and the exception
filter answers `500 internal_server_error`. The tables stay correct (the proofs
cover this path). Votes of different users on one event deadlock in the same
way; nothing retries the victim.

`chat_resend`: the same document (lines 1008 and 1009) says that a user who sends
a message again under its `clientMessageId` gets the existing message in a
success ack. A resend that passes the search before the first send is stored
fails on the unique index instead; `create` does not translate that error, so
the resend is answered `internal_server_error`. The message is stored once and
broadcast once all the same, and a further resend succeeds.

The signup migration has two windows in which a kill cannot be mended by running
it again (`Torn` in `SignupConstraints`): between the renaming of the column and
the UPDATE that translates the ids, which the rerun passes over because the old
column is gone, and while `affiliations` has no primary key, which the rerun fails
to drop. Nothing in the repository promises otherwise, so this is no
disagreement: `RecordedIsWhole` shows that such a run is never recorded as done,
and `EndsUnlessTorn` that outside the two windows rerunning it is enough.

## 7. Not modelled

- Affiliations (nothing changes them), image uploads (a stateless signature),
  health, configuration, logging, the response envelope (of the exception filter
  only its `500` is used), Swagger, DTO validation, the other migrations (single
  statements, whose constraints `RowLocks` and `DuplicateKey` use), and the
  delivery scripts.
- Of the home summary, the caller's `voteToken`, read by a second statement: the
  answer computes nothing from it.
- Amounts beyond 2^53 do not occur: a user starts with 1000 tokens and stakes at
  most what exists. That a percentage is computed in floating point is left out;
  `Math.round(x * 10000) / 100` of a quotient of such integers may differ from the
  exact rounding only next to a half.
- Malformed cursors and tokens: `decodeCursor` and the JWT library are pure, and
  what they refuse ends the request before any state is read. The collation by
  which MariaDB compares nicknames is the equality of `Nicknames`.
- Rows of older databases without an affiliation, which the signup migration does
  not handle either, and two migrators at once (the deployment workflow runs one).
- The INSERT of `Chats` share-locks the user and the event, so it may take part
  in a deadlock with a claim; the one that is rolled back ends like a request
  whose statement is lost (`Fail`), which both modules have.
