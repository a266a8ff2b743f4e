------------------------ MODULE VoteEventDetailProofs ------------------------
(***************************************************************************)
(* Proofs about VoteEventDetail, for any users, events, votes and sets of  *)
(* ids.  DetailInv says what the tables keep and what remains true of the  *)
(* row a request has read while the event goes on: the counters it read    *)
(* are no larger than those of the participations it reads next, and when  *)
(* the row has a result they are the same.                                 *)
(***************************************************************************)
EXTENDS VoteEventDetail, BettingPayoutProofs

BoardTypes ==
    /\ wallet \in [Users -> Nat]
    /\ bets \in [Ids -> Vote \cup {Null}]
    /\ result \in [Events -> Options \cup {Null}]
    /\ paid \subseteq Ids
    /\ events \in [Events -> Row \cup {Null}]
    /\ now \in Nat

\* Only a participation in a betting event has a stake, and only such an event
\* has a result.
StakesFit ==
    /\ \A i \in Ids : bets[i] # Null =>
          /\ events[bets[i].event] # Null
          /\ bets[i].tokenAmount > 0 <=> events[bets[i].event].category = "betting"
    /\ \A e \in Events : result[e] # Null =>
          events[e] # Null /\ events[e].category = "betting"

OneVoteEach ==
    \A i, j \in Ids :
        (/\ bets[i] # Null /\ bets[j] # Null
         /\ bets[i].user = bets[j].user /\ bets[i].event = bets[j].event) => i = j

PaidHaveWon ==
    \A i \in paid : bets[i] # Null /\ result[bets[i].event] = bets[i].selectedOption

BoardInv == BoardTypes /\ StakesFit /\ OneVoteEach /\ PaidHaveWon

\* The row's totals are within those of the choices, and the same when the row
\* has the result.
TotalsWithin(row, choices) ==
    \A o \in Options :
        /\ row.participantCount[o] <= Cardinality(Winners(choices, o))
        /\ row.tokenAmount[o] <= sumTokenAmounts(choices, Winners(choices, o))
        /\ row.bettingResultOption # Null =>
              /\ row.participantCount[o] = Cardinality(Winners(choices, o))
              /\ row.tokenAmount[o] = sumTokenAmounts(choices, Winners(choices, o))

\* What a row, once read, says of event e for user u stays true.
RowOK(row, e, u) ==
    /\ \A o \in Options : row.participantCount[o] \in Nat /\ row.tokenAmount[o] \in Nat
    /\ row.category = events[e].category
    /\ row.bettingResultOption # Null =>
          /\ row.bettingResultOption = result[e]
          /\ OwnBets(e, u) # {} => row.isParticipated
    /\ row.isParticipated => \E i \in OwnBets(e, u) :
          /\ row.selectedOption = bets[i].selectedOption
          /\ row.myTokenAmount = bets[i].tokenAmount
          /\ row.category = "betting" =>
                row.myTokenAmount <= row.tokenAmount[row.selectedOption]
          /\ row.rewardClaimed => i \in paid

\* The participations read are of the event; after the row had the result they
\* are all there are.
ChoicesOK(row, choices, e) ==
    /\ DOMAIN choices \subseteq DOMAIN BetsOn(e)
    /\ \A i \in DOMAIN choices : choices[i] = bets[i]
    /\ row.bettingResultOption # Null => choices = BetsOn(e)

ViewInv ==
    /\ view = [at |-> view.at, user |-> view.user, event |-> view.event,
               date |-> view.date, row |-> view.row, choices |-> view.choices]
    /\ view.at # "idle" => view.event \in Events
    /\ view.at \in {"choices", "answered"} =>
          view.event \in Opened /\ RowOK(view.row, view.event, view.user)
    /\ view.at = "choices" => TotalsWithin(view.row, BetsOn(view.event))
    /\ Revealed => /\ ChoicesOK(view.row, view.choices, view.event)
                   /\ TotalsWithin(view.row, view.choices)

DetailInv == BoardInv /\ ViewInv

-----------------------------------------------------------------------------
(* The participations of an event. *)

\* BetsOn as a function of the table of the bets.
On(b, e) == [i \in {j \in Ids : b[j] # Null /\ b[j].event = e} |-> b[i]]

LEMMA BetsOnIs ==
    ASSUME NEW e
    PROVE  /\ BetsOn(e) = On(bets, e)
           /\ DOMAIN BetsOn(e) = {j \in Ids : bets[j] # Null /\ bets[j].event = e}
           /\ \A i \in DOMAIN BetsOn(e) : BetsOn(e)[i] = bets[i]
BY DEF BetsOn, Ledger!BetsOn, Ledger!Placed, On

LEMMA BetsOnIsThen ==
    ASSUME NEW e
    PROVE  BetsOn(e)' = On(bets', e)
BY DEF BetsOn, Ledger!BetsOn, Ledger!Placed, On

Bets == [Ids -> Vote \cup {Null}]

LEMMA OnType ==
    ASSUME NEW b \in Bets, NEW e
    PROVE  /\ DOMAIN On(b, e) \subseteq Ids /\ IsFiniteSet(DOMAIN On(b, e))
           /\ \A i \in DOMAIN On(b, e) :
                 /\ On(b, e)[i] = b[i] /\ b[i] \in Vote /\ b[i].event = e
                 /\ b[i].tokenAmount \in Nat
<1>1. DOMAIN On(b, e) \subseteq Ids
  BY DEF On
<1>2. IsFiniteSet(DOMAIN On(b, e))
  BY <1>1, FS_Subset, DetailAssumption
<1>3. ASSUME NEW i \in DOMAIN On(b, e)
      PROVE  On(b, e)[i] = b[i] /\ b[i] \in Vote /\ b[i].event = e
  BY DEF On, Bets
<1> QED
  BY <1>1, <1>2, <1>3 DEF Vote

\* The sums and sizes over some of the participations are natural numbers, and a
\* stake among them is not above their sum.
LEMMA StakeSum ==
    ASSUME NEW choices, IsFiniteSet(DOMAIN choices),
           \A i \in DOMAIN choices : choices[i].tokenAmount \in Nat,
           NEW S \in SUBSET DOMAIN choices
    PROVE  /\ IsFiniteSet(S) /\ Cardinality(S) \in Nat
           /\ sumTokenAmounts(choices, S) \in Nat
           /\ \A i \in S : choices[i].tokenAmount <= sumTokenAmounts(choices, S)
<1> DEFINE f == [i \in S |-> choices[i].tokenAmount]
<1>1. IsFiniteSet(S) /\ Cardinality(S) \in Nat
  BY FS_Subset, FS_CardinalityType
<1>2. \A i \in S : f[i] \in Nat
  OBVIOUS
<1>3. sumTokenAmounts(choices, S) = TokenSum(f, S)
  BY DEF sumTokenAmounts
<1>4. ASSUME NEW i \in S
      PROVE  choices[i].tokenAmount <= TokenSum(f, S)
  <2>1. IsFiniteSet(S \ {i}) /\ i \notin S \ {i} /\ (S \ {i}) \cup {i} = S
    BY <1>1, FS_Subset
  <2>2. f[i] = choices[i].tokenAmount
    OBVIOUS
  <2> HIDE DEF f
  <2>3. TokenSum(f, S) = TokenSum(f, S \ {i}) + f[i]
    BY <1>2, <2>1, SumAdd
  <2>4. TokenSum(f, S \ {i}) \in Nat
    BY <1>2, <2>1, TokenSumType
  <2> QED
    BY <1>2, <2>2, <2>3, <2>4
<1>5. TokenSum(f, S) \in Nat
  <2> HIDE DEF f
  <2> QED
    BY <1>1, <1>2, TokenSumType
<1> QED
  BY <1>1, <1>3, <1>4, <1>5

\* Over more participations the totals are no smaller.
LEMMA TotalsGrow ==
    ASSUME NEW b, NEW c, IsFiniteSet(DOMAIN c), DOMAIN b \subseteq DOMAIN c,
           \A i \in DOMAIN b : b[i] = c[i],
           \A i \in DOMAIN c : c[i].tokenAmount \in Nat,
           NEW o
    PROVE  /\ Cardinality(Winners(b, o)) <= Cardinality(Winners(c, o))
           /\ sumTokenAmounts(b, Winners(b, o)) <= sumTokenAmounts(c, Winners(c, o))
<1> DEFINE S == Winners(b, o)
           T == Winners(c, o) \ S
           f == [i \in S |-> b[i].tokenAmount]
           g == [i \in Winners(c, o) |-> c[i].tokenAmount]
<1>1. /\ Winners(c, o) \subseteq DOMAIN c /\ S \subseteq Winners(c, o)
      /\ S \cup T = Winners(c, o) /\ S \cap T = {}
  BY DEF Winners
<1>2. IsFiniteSet(Winners(c, o)) /\ IsFiniteSet(S) /\ IsFiniteSet(T)
  BY <1>1, FS_Subset
<1>3. Cardinality(S) <= Cardinality(Winners(c, o))
  BY <1>1, <1>2, FS_Subset
<1>4. \A i \in S : f[i] = g[i]
  BY <1>1 DEF Winners
<1>5. \A i \in S \cup T : g[i] \in Nat
  BY <1>1
<1>6. /\ sumTokenAmounts(b, S) = TokenSum(f, S)
      /\ sumTokenAmounts(c, Winners(c, o)) = TokenSum(g, S \cup T)
  BY <1>1 DEF sumTokenAmounts
<1> HIDE DEF f, g, S, T
<1>7. TokenSum(g, S \cup T) = TokenSum(g, S) + TokenSum(g, T)
  BY <1>1, <1>2, <1>5, SumUnion
<1>8. TokenSum(g, T) \in Nat /\ TokenSum(g, S) \in Nat
  BY <1>2, <1>5, TokenSumType
<1>9. TokenSum(f, S) = TokenSum(g, S)
  BY <1>4, SumSame
<1> QED
  BY <1>3, <1>6, <1>7, <1>8, <1>9 DEF S

-----------------------------------------------------------------------------
(* The statistics and the percentages. *)

\* By affiliation, the statistics add up to the totals of the choices.
LEMMA StatsAddUp ==
    ASSUME NEW row, NEW choices, IsFiniteSet(DOMAIN choices),
           \A i \in DOMAIN choices : choices[i].tokenAmount \in Nat,
           NEW o
    PROVE  LET present == {AffiliationOf[choices[i].user] : i \in DOMAIN choices}
               W == Winners(choices, o)
           IN  TokenSum([a \in present |-> StatAmount(row, choices, a, o)], present)
                 = IF row.category = "betting" THEN sumTokenAmounts(choices, W)
                   ELSE Cardinality(W)
<1> DEFINE k == [i \in DOMAIN choices |-> AffiliationOf[choices[i].user]]
           present == {AffiliationOf[choices[i].user] : i \in DOMAIN choices}
           W == Winners(choices, o)
           f == [i \in W |->
                   IF row.category = "betting" THEN choices[i].tokenAmount ELSE 1]
           group(a) == Group(W, k, a)
           h == [a \in present |-> StatAmount(row, choices, a, o)]
<1>1. IsFiniteSet(present)
  <2>1. k \in Surjection(DOMAIN choices, present)
    BY DEF Surjection
  <2> QED
    BY <2>1, FS_Surjection
<1>2. W \subseteq DOMAIN choices /\ IsFiniteSet(W)
  BY FS_Subset DEF Winners
<1>3. \A i \in W : k[i] \in present /\ f[i] \in Nat
  BY <1>2
<1>4. ASSUME NEW S \in SUBSET W
      PROVE  TokenSum(f, S) = IF row.category = "betting"
                              THEN sumTokenAmounts(choices, S) ELSE Cardinality(S)
  <2>1. IsFiniteSet(S)
    BY <1>2, FS_Subset
  <2>2. CASE row.category = "betting"
    <3> DEFINE g == [i \in S |-> choices[i].tokenAmount]
    <3>1. \A i \in S : f[i] = g[i]
      BY <2>2
    <3>2. TokenSum(f, S) = TokenSum(g, S)
      <4> HIDE DEF f, g
      <4> QED
        BY <3>1, SumSame
    <3> QED
      BY <2>2, <3>2 DEF sumTokenAmounts
  <2>3. CASE row.category # "betting"
    <3> DEFINE g == [i \in S |-> 1]
    <3>1. \A i \in S : f[i] = g[i]
      BY <2>3
    <3>2. TokenSum(f, S) = TokenSum(g, S)
      <4> HIDE DEF f, g
      <4> QED
        BY <3>1, SumSame
    <3>3. TokenSum(g, S) = Cardinality(S) * 1
      BY <2>1, SumConst
    <3>4. Cardinality(S) \in Nat
      BY <2>1, FS_CardinalityType
    <3> QED
      BY <2>3, <3>2, <3>3, <3>4
  <2> QED
    BY <2>2, <2>3
<1>5. ASSUME NEW a \in present
      PROVE  h[a] = TokenSum(f, group(a))
  <2>1. group(a) = {i \in DOMAIN choices : /\ AffiliationOf[choices[i].user] = a
                                           /\ choices[i].selectedOption = o}
    BY DEF Winners, Group
  <2>2. StatAmount(row, choices, a, o) = IF row.category = "betting"
          THEN sumTokenAmounts(choices, group(a)) ELSE Cardinality(group(a))
    BY <2>1 DEF StatAmount
  <2>3. TokenSum(f, group(a)) = IF row.category = "betting"
          THEN sumTokenAmounts(choices, group(a)) ELSE Cardinality(group(a))
    <3>1. group(a) \in SUBSET W
      BY DEF Group
    <3> HIDE DEF group, f, W
    <3> QED
      BY <1>4, <3>1
  <2> QED
    BY <2>2, <2>3
<1>6. TokenSum(h, present) = TokenSum(f, W)
  <2>1. \A a \in present : h[a] = TokenSum(f, Group(W, k, a))
    BY <1>5
  <2>2. (\A i \in W : k[i] \in present) /\ (\A i \in W : f[i] \in Nat)
    BY <1>3
  <2> HIDE DEF k, f, h, W, present
  <2> QED
    BY <1>1, <1>2, <2>1, <2>2, SumOfGroups
<1> QED
  BY <1>4, <1>6

\* What is left of the sum of two percentages, of a total of t, when rounded.
LEMMA RoundedSum ==
    ASSUME NEW t \in Nat \ {0}, NEW z \in Int, NEW m \in Nat,
           20002 * t = (2 * t) * z + m, m < 4 * t
    PROVE  z \in {10000, 10001}
<1> DEFINE k == 10001 - z
<1>1. k \in Int /\ m = (2 * t) * k
  OBVIOUS
<1>2. k >= 0
  <2>1. SUFFICES ASSUME k <= -1 PROVE FALSE
    BY <1>1
  <2>2. (2 * t) * k <= (2 * t) * (-1)
    BY <1>1, <2>1
  <2> QED
    BY <1>1, <2>2
<1>3. k <= 1
  <2>1. SUFFICES ASSUME k >= 2 PROVE FALSE
    BY <1>1
  <2>2. (2 * t) * k >= (2 * t) * 2
    BY <1>1, <2>1
  <2> QED
    BY <1>1, <2>2
<1> QED
  BY <1>1, <1>2, <1>3

\* x is 10000 * n / t, rounded with halves up.
Rounded(n, t, x) == \E r \in Nat : r < 2 * t /\ 20000 * n + t = (2 * t) * x + r

LEMMA PercentageOf ==
    ASSUME NEW n \in Nat, NEW t \in Nat, n <= t
    PROVE  /\ percentage(n, t) \in Nat /\ percentage(n, t) <= 10000
           /\ t = 0 => percentage(n, t) = 0
           /\ t > 0 => Rounded(n, t, percentage(n, t))
<1>1. CASE t = 0
  BY <1>1 DEF percentage
<1>2. CASE t > 0
  <2> DEFINE x == 20000 * n + t
             d == 2 * t
             q == x \div d
             r == x % d
  <2>1. x \in Nat /\ d \in Nat \ {0} /\ x <= 20001 * t
    BY <1>2
  <2>2. q \in Nat /\ r \in Nat /\ r < d /\ x = d * q + r
    <3> HIDE DEF x, d
    <3> QED
      BY <2>1, Division
  <2>3. percentage(n, t) = q
    BY <1>2 DEF percentage
  <2>4. q <= 10000
    <3> HIDE DEF x, q, r
    <3>1. SUFFICES ASSUME q >= 10001 PROVE FALSE
      BY <2>2
    <3>2. d * q >= d * 10001
      BY <2>1, <2>2, <3>1
    <3> QED
      BY <1>2, <2>1, <2>2, <3>2
  <2> HIDE DEF x, q, r
  <2>5. r < 2 * t /\ x = (2 * t) * q + r
    BY <2>2
  <2>6. Rounded(n, t, q)
    BY <2>2, <2>5 DEF Rounded, x
  <2> QED
    BY <1>2, <2>2, <2>3, <2>4, <2>6
<1> QED
  BY <1>1, <1>2

\* Two percentages of the same total.
LEMMA PercentagesAddUp ==
    ASSUME NEW a \in Nat, NEW b \in Nat
    PROVE  /\ a + b > 0 => percentage(a, a + b) + percentage(b, a + b) \in {10000, 10001}
           /\ a + b = 0 => percentage(a, a + b) + percentage(b, a + b) = 0
<1> DEFINE t == a + b
           x == percentage(a, t)
           y == percentage(b, t)
<1>1. t \in Nat /\ a <= t /\ b <= t
  OBVIOUS
<1>2. /\ x \in Nat /\ (t = 0 => x = 0)
      /\ t > 0 => Rounded(a, t, x)
  <2> HIDE DEF t
  <2> QED
    BY <1>1, PercentageOf
<1>3. /\ y \in Nat /\ (t = 0 => y = 0)
      /\ t > 0 => Rounded(b, t, y)
  <2> HIDE DEF t
  <2> QED
    BY <1>1, PercentageOf
<1> HIDE DEF x, y
<1>4. CASE t = 0
  BY <1>2, <1>3, <1>4 DEF x, y
<1>5. CASE t > 0
  <2>1. PICK r \in Nat : r < 2 * t /\ 20000 * a + t = (2 * t) * x + r
    BY <1>2, <1>5 DEF Rounded
  <2>2. PICK s \in Nat : s < 2 * t /\ 20000 * b + t = (2 * t) * y + s
    BY <1>3, <1>5 DEF Rounded
  <2>3. 20000 * a + 20000 * b = 20000 * t
    OBVIOUS
  <2> HIDE DEF t
  <2>4. (2 * t) * (x + y) = (2 * t) * x + (2 * t) * y
    BY <1>1, <1>2, <1>3
  <2>5. 20002 * t = (2 * t) * (x + y) + (r + s)
    BY <1>1, <1>2, <1>3, <2>1, <2>2, <2>3, <2>4
  <2>6. x + y \in {10000, 10001}
    <3>1. x + y \in Int /\ r + s \in Nat /\ r + s < 4 * t /\ t \in Nat \ {0}
      BY <1>1, <1>2, <1>3, <1>5, <2>1, <2>2
    <3> QED
      BY <2>5, <3>1, RoundedSum
  <2> QED
    BY <1>5, <2>6 DEF t, x, y
<1> QED
  BY <1>1, <1>4, <1>5 DEF x, y

-----------------------------------------------------------------------------
(* What the event goes through. *)

\* The definitions that TokenLedger takes from BettingPayout are the same.
LEMMA LedgerRule ==
    ASSUME NEW b, NEW o
    PROVE  Ledger!calculateBettingPayouts(b, o) = calculateBettingPayouts(b, o)
<1>1. \A S : Ledger!Cardinality(S) = Cardinality(S)
  BY DEF Ledger!Cardinality, Cardinality
<1>2. \A f, S : Ledger!TokenSum(f, S) = TokenSum(f, S)
  BY <1>1 DEF Ledger!TokenSum, TokenSum, Ledger!Units, Units
<1>3. /\ Ledger!Winners(b, o) = Winners(b, o)
      /\ Ledger!Losers(b, o) = Losers(b, o)
  BY DEF Ledger!Winners, Winners, Ledger!Losers, Losers
<1>4. /\ Ledger!WinningPool(b, o) = WinningPool(b, o)
      /\ Ledger!LosingPool(b, o) = LosingPool(b, o)
  BY <1>2, <1>3 DEF Ledger!WinningPool, WinningPool, Ledger!LosingPool,
     LosingPool, Ledger!sumTokenAmounts, sumTokenAmounts
<1>5. \A i : /\ Ledger!Profit(b, o, i) = Profit(b, o, i)
             /\ Ledger!Remainder(b, o, i) = Remainder(b, o, i)
  BY <1>4 DEF Ledger!Profit, Profit, Ledger!Remainder, Remainder,
     Ledger!Numerator, Numerator
<1>6. \A i : Ledger!Rank(b, o, i) = Rank(b, o, i)
  BY <1>1, <1>3, <1>5 DEF Ledger!Rank, Rank, Ledger!comparePayoutDrafts,
     comparePayoutDrafts
<1>7. Ledger!Remaining(b, o) = Remaining(b, o)
  BY <1>2, <1>3, <1>4, <1>5 DEF Ledger!Remaining, Remaining
<1> QED
  BY <1>3, <1>5, <1>6, <1>7
     DEF Ledger!calculateBettingPayouts, calculateBettingPayouts

\* What was placed, decided, opened and paid stays, and a decided event gets no
\* new participation.
GoesOn ==
    /\ \A i \in Ids : bets[i] # Null => bets'[i] = bets[i]
    /\ \A e \in Events : result[e] # Null =>
          /\ result'[e] = result[e]
          /\ \A i \in Ids : (bets[i] = Null /\ bets'[i] # Null) => bets'[i].event # e
    /\ \A e \in Events : events[e] # Null => events'[e] = events[e]
    /\ paid \subseteq paid'

LEMMA OpenStep ==
    ASSUME BoardInv, NEW e \in Events, NEW row \in Rows, Open(e, row)
    PROVE  BoardInv' /\ GoesOn
<1>1. row \in Row /\ events[e] = Null
  BY DetailAssumption DEF Open
<1>2. /\ wallet' = wallet /\ bets' = bets /\ result' = result /\ paid' = paid
      /\ now' = now /\ events' = [events EXCEPT ![e] = row] /\ row # Null
  BY DEF Open
<1>3. BoardTypes'
  BY <1>1, <1>2 DEF BoardInv, BoardTypes
<1>4. \A f \in Events : events[f] # Null => events'[f] = events[f]
  BY <1>1, <1>2 DEF BoardInv, BoardTypes
<1>5. \A i \in Ids : bets[i] # Null => bets[i].event \in Events
  BY DEF BoardInv, BoardTypes, Vote
<1>6. StakesFit'
  <2>1. ASSUME NEW i \in Ids, bets'[i] # Null
        PROVE  /\ events'[bets'[i].event] # Null
               /\ bets'[i].tokenAmount > 0
                    <=> events'[bets'[i].event].category = "betting"
    BY <1>2, <1>4, <1>5, <2>1 DEF BoardInv, StakesFit
  <2>2. ASSUME NEW f \in Events, result'[f] # Null
        PROVE  events'[f] # Null /\ events'[f].category = "betting"
    BY <1>2, <1>4, <2>2 DEF BoardInv, StakesFit
  <2> QED
    BY <2>1, <2>2 DEF StakesFit
<1>7. OneVoteEach' /\ PaidHaveWon'
  BY <1>2 DEF BoardInv, OneVoteEach, PaidHaveWon
<1> QED
  BY <1>2, <1>3, <1>4, <1>6, <1>7 DEF BoardInv, GoesOn

LEMMA CastStep ==
    ASSUME BoardInv, NEW i \in Ids, NEW b \in Votes, Cast(i, b)
    PROVE  BoardInv' /\ GoesOn
<1>1. /\ b \in Vote /\ b.user \in Users /\ b.event \in Events
      /\ b.tokenAmount \in Nat /\ b.createdAt \in Nat
  BY DetailAssumption DEF Vote
<1>2. /\ bets[i] = Null /\ b # Null /\ result[b.event] = Null
      /\ wallet[b.user] >= b.tokenAmount
      /\ bets' = [bets EXCEPT ![i] = b]
      /\ wallet' = [wallet EXCEPT ![b.user] = @ - b.tokenAmount]
      /\ result' = result /\ paid' = paid /\ events' = events /\ now' = now
      /\ events[b.event] # Null
      /\ b.tokenAmount > 0 <=> events[b.event].category = "betting"
      /\ \A j \in Ids : (bets[j] # Null /\ bets[j].event = b.event)
                            => bets[j].user # b.user
  BY DEF Cast, Ledger!Place, Ledger!Placed, Opened
<1>3. wallet[b.user] \in Nat /\ wallet[b.user] - b.tokenAmount \in Nat
  BY <1>1, <1>2 DEF BoardInv, BoardTypes
<1>4. BoardTypes'
  <2>1. wallet' \in [Users -> Nat]
    BY <1>1, <1>2, <1>3 DEF BoardInv, BoardTypes
  <2>2. bets' \in [Ids -> Vote \cup {Null}]
    BY <1>1, <1>2 DEF BoardInv, BoardTypes
  <2> QED
    BY <1>2, <2>1, <2>2 DEF BoardInv, BoardTypes
<1>5. \A j \in Ids : bets'[j] = IF j = i THEN b ELSE bets[j]
  BY <1>2 DEF BoardInv, BoardTypes
<1>6. StakesFit'
  BY <1>2, <1>5 DEF BoardInv, StakesFit
<1>7. OneVoteEach'
  BY <1>2, <1>5 DEF BoardInv, OneVoteEach
<1>8. PaidHaveWon'
  BY <1>2, <1>5 DEF BoardInv, PaidHaveWon, BoardTypes
<1>9. GoesOn
  BY <1>2, <1>5 DEF GoesOn
<1> QED
  BY <1>4, <1>6, <1>7, <1>8, <1>9 DEF BoardInv

LEMMA ConfirmStep ==
    ASSUME BoardInv, NEW e \in Events, NEW o \in Options, Confirm(e, o)
    PROVE  BoardInv' /\ GoesOn
<1>1. /\ events[e] # Null /\ events[e].category = "betting" /\ result[e] = Null
      /\ result' = [result EXCEPT ![e] = o]
      /\ wallet' = wallet /\ bets' = bets /\ paid' = paid
      /\ events' = events /\ now' = now
  BY DEF Confirm, Ledger!Settle, Opened
<1>2. BoardTypes'
  BY <1>1 DEF BoardInv, BoardTypes
<1>3. \A f \in Events : result'[f] = IF f = e THEN o ELSE result[f]
  BY <1>1 DEF BoardInv, BoardTypes
<1>4. \A i \in Ids : bets[i] # Null =>
         /\ bets[i].event \in Events
         /\ bets[i].selectedOption \in {"A", "B"} /\ bets[i].selectedOption # Null
  BY DetailNullAssumption DEF BoardInv, BoardTypes, Vote, Options
<1>5. StakesFit' /\ OneVoteEach'
  BY <1>1, <1>3 DEF BoardInv, StakesFit, OneVoteEach
<1>6. PaidHaveWon'
  BY <1>1, <1>3, <1>4 DEF BoardInv, PaidHaveWon, BoardTypes
<1>7. GoesOn
  BY <1>1, <1>3 DEF GoesOn
<1> QED
  BY <1>2, <1>5, <1>6, <1>7 DEF BoardInv

\* What a claim pays.
LEMMA ClaimPays ==
    ASSUME BoardInv, NEW i \in Ids, Claim(i)
    PROVE  LET e == bets[i].event
               payout == calculateBettingPayouts(BetsOn(e), result[e])[i]
           IN  /\ bets[i] \in Vote /\ bets[i] # Null /\ e \in Events
               /\ bets[i].user \in Users
               /\ i \notin paid /\ paid' = paid \cup {i}
               /\ result[e] = bets[i].selectedOption /\ result[e] # Null
               /\ payout \in Nat
               /\ wallet' = [wallet EXCEPT ![bets[i].user] = @ + payout]
               /\ bets' = bets /\ result' = result /\ events' = events /\ now' = now
<1> DEFINE e == bets[i].event
           o == bets[i].selectedOption
           payout == calculateBettingPayouts(BetsOn(e), o)[i]
<1>1. bets[i] # Null /\ i \notin paid /\ paid' = paid \cup {i} /\ result[e] = o
  BY DEF Claim, Ledger!Pay, Ledger!Placed
<1>2. wallet' = [wallet EXCEPT ![bets[i].user] = @ +
                    Ledger!calculateBettingPayouts(BetsOn(e), o)[i]]
  BY DEF Claim, Ledger!Pay, BetsOn
<1>3. bets' = bets /\ result' = result /\ events' = events /\ now' = now
  BY DEF Claim, Ledger!Pay
<1>4. bets[i] \in Vote
  BY <1>1 DEF BoardInv, BoardTypes
<1>5. /\ e \in Events /\ bets[i].user \in Users /\ o # Null
      /\ bets[i].tokenAmount \in Nat
  BY <1>4, DetailNullAssumption DEF Vote, Options
<1>6. bets[i].tokenAmount > 0
  BY <1>1, <1>5 DEF BoardInv, StakesFit
<1>7. payout \in Nat
  <2>1. bets \in Bets
    BY DEF BoardInv, BoardTypes, Bets
  <2>2. /\ IsFiniteSet(DOMAIN BetsOn(e))
        /\ \A j \in DOMAIN BetsOn(e) : BetsOn(e)[j].tokenAmount \in Nat
    <3>1. BetsOn(e) = On(bets, e)
      BY BetsOnIs
    <3> HIDE DEF e
    <3>2. /\ IsFiniteSet(DOMAIN On(bets, e))
          /\ \A j \in DOMAIN On(bets, e) : On(bets, e)[j].tokenAmount \in Nat
      BY <2>1, OnType
    <3> QED
      BY <3>1, <3>2
  <2>3. i \in DOMAIN BetsOn(e) /\ BetsOn(e)[i] = bets[i]
    BY <1>1, BetsOnIs
  <2>4. i \in Winners(BetsOn(e), o)
    BY <2>3 DEF Winners
  <2> QED
    BY <1>6, <2>2, <2>3, <2>4, PayoutType
<1>8. wallet' = [wallet EXCEPT ![bets[i].user] = @ + payout]
  BY <1>2, LedgerRule
<1> QED
  BY <1>1, <1>3, <1>4, <1>5, <1>7, <1>8

LEMMA ClaimStep ==
    ASSUME BoardInv, NEW i \in Ids, Claim(i)
    PROVE  BoardInv' /\ GoesOn
<1> DEFINE u == bets[i].user
<1>1. PICK payout \in Nat : wallet' = [wallet EXCEPT ![u] = @ + payout]
  BY ClaimPays
<1>2. /\ bets[i] # Null /\ u \in Users /\ paid' = paid \cup {i}
      /\ result[bets[i].event] = bets[i].selectedOption
      /\ bets' = bets /\ result' = result /\ events' = events /\ now' = now
  BY ClaimPays
<1>3. BoardTypes'
  <2>1. wallet' \in [Users -> Nat]
    BY <1>1, <1>2 DEF BoardInv, BoardTypes
  <2> QED
    BY <1>2, <2>1 DEF BoardInv, BoardTypes
<1>4. StakesFit' /\ OneVoteEach'
  BY <1>2 DEF BoardInv, StakesFit, OneVoteEach
<1>5. PaidHaveWon'
  BY <1>2 DEF BoardInv, PaidHaveWon
<1>6. GoesOn
  BY <1>2 DEF GoesOn
<1> QED
  BY <1>3, <1>4, <1>5, <1>6 DEF BoardInv

LEMMA TrafficStep ==
    ASSUME BoardInv, Traffic(Rows, Votes)
    PROVE  BoardInv' /\ GoesOn
<1>1. CASE \E e \in Events : \E row \in Rows : Open(e, row)
  BY <1>1, OpenStep
<1>2. CASE \E i \in Ids : \E b \in Votes : Cast(i, b)
  BY <1>2, CastStep
<1>3. CASE \E i \in Ids : Claim(i)
  BY <1>3, ClaimStep
<1>4. CASE \E e \in Events, option \in {"A", "B"} : Confirm(e, option)
  BY <1>4, ConfirmStep DEF Options
<1>5. CASE Tick
  <2>1. /\ wallet' = wallet /\ bets' = bets /\ result' = result /\ paid' = paid
        /\ events' = events /\ now' = now + 1
    BY <1>5 DEF Tick
  <2>2. BoardTypes'
    BY <2>1 DEF BoardInv, BoardTypes
  <2> QED
    BY <2>1, <2>2 DEF BoardInv, StakesFit, OneVoteEach, PaidHaveWon, GoesOn
<1> QED
  BY <1>1, <1>2, <1>3, <1>4, <1>5 DEF Traffic

LEMMA BoardStays ==
    ASSUME BoardInv, UNCHANGED board
    PROVE  BoardInv' /\ GoesOn
<1>1. /\ wallet' = wallet /\ bets' = bets /\ result' = result /\ paid' = paid
      /\ events' = events /\ now' = now
  BY DEF board
<1> QED
  BY <1>1 DEF BoardInv, BoardTypes, StakesFit, OneVoteEach, PaidHaveWon, GoesOn

LEMMA BoardStarts ==
    ASSUME BoardInit
    PROVE  BoardInv
<1>1. /\ wallet = [u \in Users |-> InitialVoteToken]
      /\ bets = [i \in Ids |-> Null] /\ result = [e \in Events |-> Null]
      /\ paid = {} /\ events = InitialRows /\ now = 0
  BY DEF BoardInit, Ledger!Init
<1>2. BoardTypes
  BY <1>1, DetailAssumption DEF BoardTypes
<1> QED
  BY <1>1, <1>2 DEF BoardInv, StakesFit, OneVoteEach, PaidHaveWon

-----------------------------------------------------------------------------
(* What a request has read remains true. *)

LEMMA OwnBetsIs ==
    ASSUME NEW e, NEW u
    PROVE  OwnBets(e, u) = {i \in Ids : /\ bets[i] # Null /\ bets[i].event = e
                                        /\ bets[i].user = u}
<1>1. DOMAIN BetsOn(e) = {i \in Ids : bets[i] # Null /\ bets[i].event = e}
  BY BetsOnIs
<1> QED
  BY <1>1 DEF OwnBets

LEMMA OwnBetsIsThen ==
    ASSUME NEW e, NEW u
    PROVE  OwnBets(e, u)' = {i \in Ids : /\ bets'[i] # Null /\ bets'[i].event = e
                                         /\ bets'[i].user = u}
<1>1. DOMAIN BetsOn(e)' = {i \in Ids : bets'[i] # Null /\ bets'[i].event = e}
  BY BetsOnIsThen DEF On
<1> QED
  BY <1>1 DEF OwnBets

LEMMA EventGoesOn ==
    ASSUME BoardTypes, GoesOn, NEW e \in Events, NEW u
    PROVE  /\ DOMAIN BetsOn(e) \subseteq DOMAIN BetsOn(e)'
           /\ \A i \in DOMAIN BetsOn(e) : /\ BetsOn(e)'[i] = BetsOn(e)[i]
                                          /\ bets'[i] = bets[i]
           /\ OwnBets(e, u) \subseteq OwnBets(e, u)'
           /\ result[e] # Null => /\ BetsOn(e)' = BetsOn(e)
                                  /\ OwnBets(e, u)' = OwnBets(e, u)
<1>1. \A i \in Ids : bets[i] # Null => bets'[i] = bets[i]
  BY DEF GoesOn
<1>2. BetsOn(e) = On(bets, e) /\ BetsOn(e)' = On(bets', e)
  BY BetsOnIs, BetsOnIsThen
<1>3. /\ DOMAIN On(bets, e) = {i \in Ids : bets[i] # Null /\ bets[i].event = e}
      /\ DOMAIN On(bets', e) = {i \in Ids : bets'[i] # Null /\ bets'[i].event = e}
  BY DEF On
<1>4. ASSUME result[e] # Null, NEW i \in Ids, bets'[i] # Null, bets'[i].event = e
      PROVE  bets[i] # Null
  BY <1>4 DEF GoesOn
<1>5. ASSUME result[e] # Null
      PROVE  DOMAIN On(bets', e) = DOMAIN On(bets, e)
  BY <1>1, <1>3, <1>4, <1>5
<1>6. ASSUME result[e] # Null
      PROVE  On(bets', e) = On(bets, e)
  <2>1. \A i \in DOMAIN On(bets, e) : bets'[i] = bets[i]
    BY <1>1, <1>3
  <2> QED
    BY <1>3, <1>5, <1>6, <2>1 DEF On
<1>7. \A i \in DOMAIN On(bets, e) : On(bets', e)[i] = On(bets, e)[i]
  BY <1>1 DEF On
<1>8. OwnBets(e, u) \subseteq OwnBets(e, u)'
  BY <1>1, OwnBetsIs, OwnBetsIsThen
<1>9. ASSUME result[e] # Null
      PROVE  OwnBets(e, u)' = OwnBets(e, u)
  <2>1. ASSUME NEW i \in OwnBets(e, u)'
        PROVE  i \in OwnBets(e, u)
    BY <1>1, <1>4, <1>9, <2>1, OwnBetsIs, OwnBetsIsThen
  <2> QED
    BY <1>8, <2>1
<1> QED
  BY <1>1, <1>2, <1>3, <1>6, <1>7, <1>8, <1>9

LEMMA TotalsStay ==
    ASSUME NEW row, NEW b, NEW c, TotalsWithin(row, b),
           \A o \in Options : row.participantCount[o] \in Nat /\ row.tokenAmount[o] \in Nat,
           IsFiniteSet(DOMAIN c), DOMAIN b \subseteq DOMAIN c,
           \A i \in DOMAIN b : b[i] = c[i],
           \A i \in DOMAIN c : c[i].tokenAmount \in Nat,
           row.bettingResultOption # Null => c = b
    PROVE  TotalsWithin(row, c)
<1>c. CASE row.bettingResultOption # Null
  BY <1>c
<1> SUFFICES ASSUME row.bettingResultOption = Null, NEW o \in Options
             PROVE  /\ row.participantCount[o] <= Cardinality(Winners(c, o))
                    /\ row.tokenAmount[o] <= sumTokenAmounts(c, Winners(c, o))
  BY <1>c DEF TotalsWithin
<1>1. /\ Cardinality(Winners(b, o)) <= Cardinality(Winners(c, o))
      /\ sumTokenAmounts(b, Winners(b, o)) <= sumTokenAmounts(c, Winners(c, o))
  BY TotalsGrow
<1>2. /\ Winners(b, o) \in SUBSET DOMAIN b /\ Winners(c, o) \in SUBSET DOMAIN c
      /\ IsFiniteSet(DOMAIN b) /\ \A i \in DOMAIN b : b[i].tokenAmount \in Nat
  BY FS_Subset DEF Winners
<1>3. /\ Cardinality(Winners(c, o)) \in Nat
      /\ sumTokenAmounts(c, Winners(c, o)) \in Nat
  BY <1>2, StakeSum
<1>4. /\ Cardinality(Winners(b, o)) \in Nat
      /\ sumTokenAmounts(b, Winners(b, o)) \in Nat
  BY <1>2, StakeSum
<1>5. /\ row.participantCount[o] <= Cardinality(Winners(b, o))
      /\ row.tokenAmount[o] <= sumTokenAmounts(b, Winners(b, o))
  BY DEF TotalsWithin
<1> QED
  BY <1>1, <1>3, <1>4, <1>5

LEMMA RowStays ==
    ASSUME BoardInv, GoesOn, NEW row, NEW e \in Opened, NEW u, RowOK(row, e, u)
    PROVE  RowOK(row, e, u)' /\ e \in Opened'
<1>1. e \in Events /\ events[e] # Null /\ events'[e] = events[e]
  BY DEF Opened, GoesOn
<1>2. /\ OwnBets(e, u) \subseteq OwnBets(e, u)'
      /\ result[e] # Null => result'[e] = result[e] /\ OwnBets(e, u)' = OwnBets(e, u)
      /\ \A i \in OwnBets(e, u) : bets'[i] = bets[i]
      /\ paid \subseteq paid'
  <2>1. BoardTypes
    BY DEF BoardInv
  <2>2. OwnBets(e, u) \subseteq DOMAIN BetsOn(e)
    BY DEF OwnBets
  <2> QED
    BY <1>1, <2>1, <2>2, EventGoesOn DEF GoesOn
<1>3. e \in Opened'
  BY <1>1 DEF Opened
<1>4. row.bettingResultOption # Null =>
         /\ row.bettingResultOption = result'[e]
         /\ OwnBets(e, u)' # {} => row.isParticipated
  BY <1>2 DEF RowOK
<1>5. row.isParticipated => \E i \in OwnBets(e, u)' :
          /\ row.selectedOption = bets'[i].selectedOption
          /\ row.myTokenAmount = bets'[i].tokenAmount
          /\ row.category = "betting" =>
                row.myTokenAmount <= row.tokenAmount[row.selectedOption]
          /\ row.rewardClaimed => i \in paid'
  BY <1>2 DEF RowOK
<1> QED
  BY <1>1, <1>3, <1>4, <1>5 DEF RowOK

LEMMA ViewStays ==
    ASSUME BoardInv, BoardInv', GoesOn, ViewInv, view' = view
    PROVE  ViewInv'
<1>1. PICK v : v = view
  OBVIOUS
<1>2. /\ v = [at |-> v.at, user |-> v.user, event |-> v.event,
              date |-> v.date, row |-> v.row, choices |-> v.choices]
      /\ v.at # "idle" => v.event \in Events
  BY <1>1 DEF ViewInv
<1>3. ASSUME v.at \in {"choices", "answered"}
      PROVE  /\ v.event \in Opened /\ v.event \in Events
             /\ RowOK(v.row, v.event, v.user)
             /\ RowOK(v.row, v.event, v.user)' /\ v.event \in Opened'
  <2>1. v.event \in Opened /\ RowOK(v.row, v.event, v.user)
    BY <1>1, <1>3 DEF ViewInv
  <2> QED
    BY <2>1, RowStays DEF Opened
<1>4. ASSUME v.at \in {"choices", "answered"}
      PROVE  LET old == BetsOn(v.event)
                 new == BetsOn(v.event)'
             IN  /\ DOMAIN old \subseteq DOMAIN new
                 /\ \A i \in DOMAIN old : old[i] = new[i] /\ bets'[i] = bets[i]
                 /\ IsFiniteSet(DOMAIN new)
                 /\ \A i \in DOMAIN new : new[i].tokenAmount \in Nat
                 /\ v.row.bettingResultOption # Null => new = old
  <2>1. bets' \in Bets
    BY DEF BoardInv, BoardTypes, Bets
  <2>2. /\ IsFiniteSet(DOMAIN On(bets', v.event))
        /\ \A i \in DOMAIN On(bets', v.event) :
              On(bets', v.event)[i].tokenAmount \in Nat
    BY <2>1, OnType
  <2>3. v.row.bettingResultOption # Null => result[v.event] # Null
    BY <1>3, <1>4 DEF RowOK
  <2>4. BoardTypes
    BY DEF BoardInv
  <2> QED
    BY <1>3, <1>4, <2>2, <2>3, <2>4, BetsOnIsThen, EventGoesOn
<1>5. ASSUME v.at = "choices"
      PROVE  TotalsWithin(v.row, BetsOn(v.event)')
  <2>1. TotalsWithin(v.row, BetsOn(v.event))
    BY <1>1, <1>5 DEF ViewInv
  <2>2. \A o \in Options : v.row.participantCount[o] \in Nat /\ v.row.tokenAmount[o] \in Nat
    BY <1>3, <1>5 DEF RowOK
  <2> QED
    BY <1>4, <1>5, <2>1, <2>2, TotalsStay
<1>6. ASSUME v.at = "answered", RevealResults(v.row)
      PROVE  ChoicesOK(v.row, v.choices, v.event)' /\ TotalsWithin(v.row, v.choices)
  <2>1. ChoicesOK(v.row, v.choices, v.event) /\ TotalsWithin(v.row, v.choices)
    BY <1>1, <1>6 DEF ViewInv, Revealed, Answered
  <2>2. ChoicesOK(v.row, v.choices, v.event)'
    BY <1>4, <1>6, <2>1 DEF ChoicesOK
  <2> QED
    BY <2>1, <2>2
<1>7. view' = v
  BY <1>1
<1>8. v.at \in {"choices", "answered"} =>
         (v.event \in Opened /\ RowOK(v.row, v.event, v.user))'
  BY <1>3
<1>9. (Revealed => /\ ChoicesOK(view.row, view.choices, view.event)
                   /\ TotalsWithin(view.row, view.choices))'
  BY <1>6, <1>7 DEF Revealed, Answered
<1>10. (view.at = "choices" => TotalsWithin(view.row, BetsOn(view.event)))'
  BY <1>5, <1>7
<1> QED
  BY <1>2, <1>7, <1>8, <1>9, <1>10 DEF ViewInv

-----------------------------------------------------------------------------
(* What a request reads is true. *)

LEMMA RowIsTrue ==
    ASSUME BoardInv, NEW e \in Opened, NEW u, NEW date
    PROVE  LET row == DetailRow(e, u, date)
           IN  RowOK(row, e, u) /\ TotalsWithin(row, BetsOn(e))
<1> DEFINE row == DetailRow(e, u, date)
           own == OwnBets(e, u)
           bet == CHOOSE i \in own : TRUE
           b == BetsOn(e)
<1>1. /\ row.category = events[e].category
      /\ row.isParticipated = (own # {})
      /\ row.selectedOption = IF own = {} THEN Null ELSE bets[bet].selectedOption
      /\ row.myTokenAmount = IF own = {} THEN Null ELSE bets[bet].tokenAmount
      /\ row.rewardClaimed = (own \cap paid # {})
      /\ row.bettingResultOption = result[e]
      /\ \A o \in Options :
            /\ row.participantCount[o] = Cardinality(Winners(b, o))
            /\ row.tokenAmount[o] = sumTokenAmounts(b, Winners(b, o))
  BY DEF DetailRow, participantCount, tokenAmount
<1>2. /\ IsFiniteSet(DOMAIN b)
      /\ \A i \in DOMAIN b : /\ b[i] = bets[i] /\ bets[i] \in Vote
                             /\ b[i].tokenAmount \in Nat
      /\ DOMAIN b \subseteq Ids
  <2>1. bets \in Bets /\ b = On(bets, e)
    BY BetsOnIs DEF BoardInv, BoardTypes, Bets
  <2> HIDE DEF b
  <2> QED
    BY <2>1, OnType
<1>3. own \subseteq DOMAIN b
  BY DEF OwnBets
<1> HIDE DEF row, own, b
<1>4. \A o : /\ Winners(b, o) \in SUBSET DOMAIN b
             /\ Cardinality(Winners(b, o)) \in Nat
             /\ sumTokenAmounts(b, Winners(b, o)) \in Nat
             /\ \A i \in Winners(b, o) :
                   b[i].tokenAmount <= sumTokenAmounts(b, Winners(b, o))
  <2>1. TAKE o
  <2>2. Winners(b, o) \in SUBSET DOMAIN b
    BY DEF Winners
  <2> QED
    BY <1>2, <2>2, StakeSum
<1>5. TotalsWithin(row, b)
  BY <1>1, <1>4 DEF TotalsWithin
<1>6. \A o \in Options : row.participantCount[o] \in Nat /\ row.tokenAmount[o] \in Nat
  BY <1>1, <1>4
<1>7. ASSUME own # {}
      PROVE  \E i \in own :
          /\ row.selectedOption = bets[i].selectedOption
          /\ row.myTokenAmount = bets[i].tokenAmount
          /\ row.category = "betting" =>
                row.myTokenAmount <= row.tokenAmount[row.selectedOption]
          /\ row.rewardClaimed => i \in paid
  <2> DEFINE o == bets[bet].selectedOption
  <2>1. bet \in own
    BY <1>7
  <2> HIDE DEF bet
  <2>2. bet \in DOMAIN b /\ b[bet] = bets[bet] /\ bets[bet] \in Vote
    BY <1>2, <1>3, <2>1
  <2>3. o \in Options /\ bet \in Winners(b, o)
    BY <2>2 DEF Winners, Vote, Options
  <2>4. b[bet].tokenAmount <= sumTokenAmounts(b, Winners(b, o))
    BY <1>4, <2>3
  <2>5. row.tokenAmount[o] = sumTokenAmounts(b, Winners(b, o))
    BY <1>1, <2>3
  <2>6. row.selectedOption = o /\ row.myTokenAmount = bets[bet].tokenAmount
    BY <1>1, <1>7
  <2>7. row.myTokenAmount <= row.tokenAmount[row.selectedOption]
    BY <2>2, <2>4, <2>5, <2>6
  <2>8. \A i \in own : i = bet
    BY <2>1, OwnBetsIs DEF own, BoardInv, OneVoteEach
  <2>9. row.rewardClaimed => bet \in paid
    BY <1>1, <2>8
  <2> QED
    BY <2>1, <2>6, <2>7, <2>9
<1>8. RowOK(row, e, u)
  BY <1>1, <1>6, <1>7 DEF RowOK, own
<1> QED
  BY <1>5, <1>8 DEF row, b

LEMMA ReadStep ==
    ASSUME BoardInv, ViewInv, GetDetail \/ FindDetail \/ FindParticipationChoices
    PROVE  ViewInv'
<1>1. PICK v : v = view
  OBVIOUS
<1>2. /\ v = [at |-> v.at, user |-> v.user, event |-> v.event,
              date |-> v.date, row |-> v.row, choices |-> v.choices]
      /\ v.at # "idle" => v.event \in Events
  BY <1>1 DEF ViewInv
<1>3. CASE GetDetail
  <2>1. UNCHANGED board
    BY <1>3 DEF GetDetail
  <2>2. PICK u \in Users \cup {Null}, e \in Events :
           view' = [NoView EXCEPT !.at = "findDetail", !.user = u, !.event = e,
                                  !.date = now]
    BY <1>3 DEF GetDetail
  <2>3. view' = [at |-> "findDetail", user |-> u, event |-> e, date |-> now,
                 row |-> Null, choices |-> <<>>]
    BY <2>2 DEF NoView
  <2> QED
    BY <2>3 DEF ViewInv, Revealed, Answered
<1>4. CASE FindDetail /\ view.event \notin Opened
  <2>1. view' = [v EXCEPT !.at = "not_found"]
    BY <1>1, <1>4 DEF FindDetail
  <2>2. v.event \in Events
    BY <1>1, <1>2, <1>4 DEF FindDetail
  <2>3. view' = [at |-> "not_found", user |-> v.user, event |-> v.event,
                 date |-> v.date, row |-> v.row, choices |-> v.choices]
    BY <1>2, <2>1
  <2> QED
    BY <2>2, <2>3 DEF ViewInv, Revealed, Answered
<1>5. CASE FindDetail /\ view.event \in Opened
  <2>0. PICK row : row = DetailRow(v.event, v.user, v.date)
    OBVIOUS
  <2> DEFINE at == IF RevealResults(row) THEN "choices" ELSE "answered"
  <2>1. view' = [v EXCEPT !.row = row, !.at = at]
    BY <1>1, <1>5, <2>0 DEF FindDetail
  <2>2. v.event \in Opened /\ v.event \in Events
    BY <1>1, <1>5 DEF Opened
  <2>3. RowOK(row, v.event, v.user) /\ TotalsWithin(row, BetsOn(v.event))
    BY <2>0, <2>2, RowIsTrue
  <2>4. view' = [at |-> at, user |-> v.user, event |-> v.event,
                 date |-> v.date, row |-> row, choices |-> v.choices]
    BY <1>2, <2>1
  <2>5. /\ bets' = bets /\ result' = result /\ events' = events /\ paid' = paid
    BY <1>5 DEF FindDetail, board
  <2>6. Opened' = Opened /\ BetsOn(v.event)' = BetsOn(v.event)
    BY <2>5, BetsOnIs, BetsOnIsThen DEF Opened
  <2>7. RowOK(row, v.event, v.user)'
    <3>1. \A u : OwnBets(v.event, u)' = OwnBets(v.event, u)
      BY <2>5, OwnBetsIs, OwnBetsIsThen
    <3> QED
      BY <2>3, <2>5, <3>1 DEF RowOK
  <2>8. (v.event \in Opened /\ RowOK(view.row, view.event, view.user))'
    BY <2>2, <2>4, <2>6, <2>7
  <2>9. (view.at = "choices" => TotalsWithin(view.row, BetsOn(view.event)))'
    BY <2>3, <2>4, <2>6
  <2>10. ~Revealed'
    BY <2>4 DEF Revealed, Answered
  <2> QED
    BY <2>2, <2>4, <2>8, <2>9, <2>10 DEF ViewInv
<1>6. CASE FindParticipationChoices
  <2>0. PICK b : b = BetsOn(v.event)
    OBVIOUS
  <2>1. v.at = "choices" /\ view' = [v EXCEPT !.at = "answered", !.choices = b]
    BY <1>1, <1>6, <2>0 DEF FindParticipationChoices
  <2>2. /\ v.event \in Opened /\ v.event \in Events
        /\ RowOK(v.row, v.event, v.user) /\ TotalsWithin(v.row, b)
    BY <1>1, <1>2, <2>0, <2>1 DEF ViewInv
  <2>3. view' = [at |-> "answered", user |-> v.user, event |-> v.event,
                 date |-> v.date, row |-> v.row, choices |-> b]
    BY <1>2, <2>1
  <2>4. /\ bets' = bets /\ result' = result /\ events' = events /\ paid' = paid
    BY <1>6 DEF FindParticipationChoices, board
  <2>5. Opened' = Opened /\ BetsOn(v.event)' = b
    BY <2>0, <2>4, BetsOnIs, BetsOnIsThen DEF Opened
  <2>6. RowOK(v.row, v.event, v.user)'
    <3>1. \A u : OwnBets(v.event, u)' = OwnBets(v.event, u)
      BY <2>4, OwnBetsIs, OwnBetsIsThen
    <3> QED
      BY <2>2, <2>4, <3>1 DEF RowOK
  <2>7. ChoicesOK(v.row, b, v.event)'
    <3>1. \A i \in DOMAIN b : b[i] = bets'[i]
      BY <2>0, <2>4, BetsOnIs
    <3> QED
      BY <2>5, <3>1 DEF ChoicesOK
  <2>8. (v.event \in Opened /\ RowOK(view.row, view.event, view.user))'
    BY <2>2, <2>3, <2>5, <2>6
  <2>9. /\ ChoicesOK(view.row, view.choices, view.event)'
        /\ TotalsWithin(view.row, view.choices)'
    BY <2>2, <2>3, <2>7
  <2> QED
    BY <2>2, <2>3, <2>8, <2>9 DEF ViewInv
<1> QED
  BY <1>3, <1>4, <1>5, <1>6

\* DetailInv holds at first and every step keeps it.
THEOREM DetailInvHolds == Spec => []DetailInv
<1>1. Init => DetailInv
  <2>1. SUFFICES ASSUME Init PROVE DetailInv
    OBVIOUS
  <2>2. view = NoView /\ BoardInv
    BY <2>1, BoardStarts DEF Init
  <2>3. ViewInv
    BY <2>2 DEF NoView, ViewInv, Revealed, Answered
  <2> QED
    BY <2>2, <2>3 DEF DetailInv
<1>2. DetailInv /\ [Next]_vars => DetailInv'
  <2>1. SUFFICES ASSUME BoardInv, ViewInv, [Next]_vars PROVE DetailInv'
    BY DEF DetailInv
  <2>2. CASE GetDetail \/ FindDetail \/ FindParticipationChoices
    <3>1. UNCHANGED board
      BY <2>2 DEF GetDetail, FindDetail, FindParticipationChoices
    <3> QED
      BY <2>1, <2>2, <3>1, BoardStays, ReadStep DEF DetailInv
  <2>3. CASE Traffic(Rows, Votes) /\ UNCHANGED view
    BY <2>1, <2>3, TrafficStep, ViewStays DEF DetailInv
  <2>4. CASE UNCHANGED vars
    <3>1. UNCHANGED board /\ view' = view
      BY <2>4 DEF vars, board
    <3> QED
      BY <2>1, <3>1, BoardStays, ViewStays DEF DetailInv
  <2> QED
    BY <2>1, <2>2, <2>3, <2>4 DEF Next
<1> QED
  BY <1>1, <1>2, PTL DEF Spec

-----------------------------------------------------------------------------
(* The properties. *)

\* In a revealed answer, the choices and the row's totals.
LEMMA RevealedTotals ==
    ASSUME DetailInv, Revealed
    PROVE  LET amounts == calculateResultAmounts(view.row)
               counted(o) == IF view.row.category = "betting"
                             THEN sumTokenAmounts(view.choices, Winners(view.choices, o))
                             ELSE Cardinality(Winners(view.choices, o))
           IN  /\ IsFiniteSet(DOMAIN view.choices)
               /\ \A i \in DOMAIN view.choices : view.choices[i].tokenAmount \in Nat
               /\ view.event \in Opened /\ RowOK(view.row, view.event, view.user)
               /\ \A o \in Options :
                     /\ amounts[o] \in Nat /\ counted(o) \in Nat
                     /\ amounts[o] <= counted(o)
                     /\ view.row.bettingResultOption # Null => amounts[o] = counted(o)
<1> DEFINE row == view.row
           choices == view.choices
           e == view.event
<1>1. /\ e \in Opened /\ RowOK(row, e, view.user)
      /\ ChoicesOK(row, choices, e) /\ TotalsWithin(row, choices)
  BY DEF DetailInv, ViewInv, Revealed, Answered
<1>2. /\ IsFiniteSet(DOMAIN BetsOn(e))
      /\ \A i \in DOMAIN BetsOn(e) : bets[i].tokenAmount \in Nat
  <2>1. bets \in Bets /\ BetsOn(e) = On(bets, e)
    BY BetsOnIs DEF DetailInv, BoardInv, BoardTypes, Bets
  <2> HIDE DEF e
  <2> QED
    BY <2>1, OnType
<1>3. /\ IsFiniteSet(DOMAIN choices)
      /\ \A i \in DOMAIN choices : choices[i].tokenAmount \in Nat
  BY <1>1, <1>2, FS_Subset DEF ChoicesOK
<1> HIDE DEF row, choices, e
<1>4. ASSUME NEW o \in Options
      PROVE  /\ Cardinality(Winners(choices, o)) \in Nat
             /\ sumTokenAmounts(choices, Winners(choices, o)) \in Nat
             /\ row.participantCount[o] \in Nat /\ row.tokenAmount[o] \in Nat
  <2>1. Winners(choices, o) \in SUBSET DOMAIN choices
    BY DEF Winners
  <2> QED
    BY <1>1, <1>3, <2>1, StakeSum DEF RowOK
<1>5. calculateResultAmounts(row)
        = IF row.category = "betting" THEN row.tokenAmount ELSE row.participantCount
  BY DEF calculateResultAmounts
<1> QED
  BY <1>1, <1>3, <1>4, <1>5 DEF TotalsWithin, row, choices, e

\* The statistics of an answer cover the totals of the row read before them.
THEOREM DetailStatsCoverTotals == Spec => []StatsCoverTotals
<1>1. DetailInv => StatsCoverTotals
  <2> SUFFICES ASSUME DetailInv, Revealed, NEW o \in Options
               PROVE  LET stats == buildAffiliationStats(view.row, view.choices)
                          sum == TokenSum([a \in DOMAIN stats |-> stats[a][o]],
                                          DOMAIN stats)
                          amount == calculateResultAmounts(view.row)[o]
                      IN  /\ sum >= amount
                          /\ view.row.bettingResultOption # Null => sum = amount
    BY DEF StatsCoverTotals
  <2> DEFINE choices == view.choices
             present == {AffiliationOf[choices[i].user] : i \in DOMAIN choices}
             stats == buildAffiliationStats(view.row, choices)
             f == [a \in DOMAIN stats |-> stats[a][o]]
             g == [a \in present |-> StatAmount(view.row, choices, a, o)]
             counted == IF view.row.category = "betting"
                        THEN sumTokenAmounts(choices, Winners(choices, o))
                        ELSE Cardinality(Winners(choices, o))
             amount == calculateResultAmounts(view.row)[o]
  <2>1. /\ IsFiniteSet(DOMAIN choices)
        /\ \A i \in DOMAIN choices : choices[i].tokenAmount \in Nat
        /\ amount \in Nat /\ counted \in Nat /\ amount <= counted
        /\ view.row.bettingResultOption # Null => amount = counted
    BY RevealedTotals
  <2>2. DOMAIN stats = present /\ f = g
    <3>1. stats = [a \in present |->
                     [p \in Options |-> StatAmount(view.row, choices, a, p)]]
      BY DEF buildAffiliationStats
    <3>2. DOMAIN stats = present
      BY <3>1
    <3>3. \A a \in present : stats[a][o] = StatAmount(view.row, choices, a, o)
      BY <3>1
    <3> HIDE DEF stats, present
    <3> QED
      BY <3>2, <3>3
  <2>3. TokenSum(g, present) = counted
    <3> HIDE DEF choices
    <3> QED
      BY <2>1, StatsAddUp
  <2> HIDE DEF stats, present, f, g, counted, amount, choices
  <2>4. TokenSum(f, DOMAIN stats) = counted
    BY <2>2, <2>3
  <2> QED
    BY <2>1, <2>4 DEF f, stats, amount, choices
<1> QED
  BY <1>1, DetailInvHolds, PTL

LEMMA RatiosOfAmounts ==
    ASSUME NEW row,
           \A o \in Options : calculateResultAmounts(row)[o] \in Nat
    PROVE  RatiosFit(row)
<1> DEFINE a == calculateResultAmounts(row)["A"]
           b == calculateResultAmounts(row)["B"]
           sum == percentage(a, a + b) + percentage(b, a + b)
<1>1. a \in Nat /\ b \in Nat
  BY DEF Options
<1>2. /\ a + b > 0 => sum \in {10000, 10001}
      /\ a + b = 0 => sum = 0
  <2> HIDE DEF a, b
  <2> QED
    BY <1>1, PercentagesAddUp
<1>3. /\ calculateRatios(row)["A"] = percentage(a, a + b)
      /\ calculateRatios(row)["B"] = percentage(b, a + b)
  BY DEF calculateRatios, Options
<1>4. sum \in {0, 10000, 10001} /\ (sum = 0 <=> a + b = 0)
  <2> HIDE DEF a, b, sum
  <2> QED
    BY <1>1, <1>2
<1> HIDE DEF sum
<1>5. sum = calculateRatios(row)["A"] + calculateRatios(row)["B"]
  BY <1>3 DEF sum
<1> QED
  BY <1>4, <1>5 DEF RatiosFit

LEMMA RateOfStake ==
    ASSUME NEW row,
           NEW n \in Nat, n = row.myTokenAmount,
           NEW t \in Nat, t = row.tokenAmount[row.selectedOption], n <= t
    PROVE  row.isParticipated => PayoutRate(row) <= 10000
<1>1. percentage(n, t) <= 10000
  BY PercentageOf
<1>2. row.isParticipated => PayoutRate(row) = percentage(n, t)
  BY DEF PayoutRate
<1> QED
  BY <1>1, <1>2

\* The percentages of an answer add up.
THEOREM DetailRatiosAddUp == Spec => []RatiosAddUp
<1>1. ASSUME DetailInv, Revealed
      PROVE  RatiosFit(view.row)
  <2>1. PICK row : row = view.row
    OBVIOUS
  <2>2. \A o \in Options : calculateResultAmounts(row)[o] \in Nat
    BY <1>1, <2>1, RevealedTotals
  <2> QED
    BY <2>1, <2>2, RatiosOfAmounts
<1>2. ASSUME DetailInv, Revealed
      PROVE  (view.row.category = "betting" /\ view.row.isParticipated)
                => PayoutRate(view.row) <= 10000
  <2>1. PICK row : row = view.row
    OBVIOUS
  <2>2. RowOK(row, view.event, view.user)
    BY <1>2, <2>1, RevealedTotals
  <2>3. ASSUME NEW i \in OwnBets(view.event, view.user),
               row.selectedOption = bets[i].selectedOption,
               row.myTokenAmount = bets[i].tokenAmount,
               row.myTokenAmount <= row.tokenAmount[row.selectedOption]
        PROVE  row.isParticipated => PayoutRate(row) <= 10000
    <3>1. bets[i] \in Vote
      BY <1>2, <2>3, OwnBetsIs DEF DetailInv, BoardInv, BoardTypes
    <3>2. row.myTokenAmount \in Nat /\ row.selectedOption \in Options
      BY <2>3, <3>1 DEF Vote, Options
    <3>3. row.tokenAmount[row.selectedOption] \in Nat
      BY <2>2, <3>2 DEF RowOK
    <3> QED
      BY <2>3, <3>2, <3>3, RateOfStake
  <2>4. (row.category = "betting" /\ row.isParticipated)
          => \E i \in OwnBets(view.event, view.user) :
                /\ row.selectedOption = bets[i].selectedOption
                /\ row.myTokenAmount = bets[i].tokenAmount
                /\ row.myTokenAmount <= row.tokenAmount[row.selectedOption]
    BY <2>2 DEF RowOK
  <2> QED
    BY <2>1, <2>3, <2>4
<1>3. DetailInv => RatiosAddUp
  BY <1>1, <1>2, PTL DEF RatiosAddUp
<1> QED
  BY <1>3, DetailInvHolds, PTL

\* The claim that pays bet i, when its user has the row of an answer.
LEMMA ClaimAfterAnswer ==
    ASSUME DetailInv, [Next]_vars, NEW i \in paid' \ paid,
           view.at = "answered", view.event = bets[i].event, view.user = bets[i].user
    PROVE  LET e == bets[i].event
           IN  /\ i \in Ids /\ bets[i] # Null /\ bets[i] \in Vote
               /\ e \in Events /\ view.user \in Users
               /\ result[e] = bets[i].selectedOption /\ result[e] # Null
               /\ OwnBets(e, view.user) = {i}
               /\ RowOK(view.row, e, view.user)
               /\ calculateBettingPayouts(BetsOn(e), result[e])[i] \in Nat
               /\ wallet' = [wallet EXCEPT ![view.user] = @ +
                                calculateBettingPayouts(BetsOn(e), result[e])[i]]
<1>1. paid' # paid
  OBVIOUS
<1>2. \E j \in Ids : Claim(j)
  <2>1. ASSUME UNCHANGED board PROVE FALSE
    BY <1>1, <2>1 DEF board
  <2>2. ~UNCHANGED vars
    BY <1>1 DEF vars
  <2>3. Traffic(Rows, Votes)
    BY <2>1, <2>2 DEF Next, GetDetail, FindDetail, FindParticipationChoices
  <2> QED
    BY <1>1, <2>3 DEF Traffic, Open, Cast, Confirm, Tick, Ledger!Place, Ledger!Settle
<1>3. PICK j \in Ids : Claim(j)
  BY <1>2
<1>4. BoardInv /\ ViewInv
  BY DEF DetailInv
<1>5. paid' = paid \cup {j}
  BY <1>3, <1>4, ClaimPays
<1>6. Claim(i) /\ i \in Ids
  BY <1>3, <1>5
<1> DEFINE e == bets[i].event
<1>7. /\ bets[i] # Null /\ bets[i] \in Vote /\ e \in Events /\ view.user \in Users
      /\ result[e] = bets[i].selectedOption /\ result[e] # Null
      /\ calculateBettingPayouts(BetsOn(e), result[e])[i] \in Nat
      /\ wallet' = [wallet EXCEPT ![view.user] = @ +
                       calculateBettingPayouts(BetsOn(e), result[e])[i]]
  BY <1>4, <1>6, ClaimPays
<1>8. OwnBets(e, view.user) = {i}
  BY <1>4, <1>6, <1>7, OwnBetsIs DEF BoardInv, OneVoteEach
<1>9. RowOK(view.row, e, view.user)
  BY <1>4 DEF ViewInv
<1> QED
  BY <1>6, <1>7, <1>8, <1>9

\* Who is told that nothing is left to claim is not paid any more.
THEOREM DetailClaimedIsFinal == Spec => ClaimedIsFinal
<1>1. ASSUME DetailInv, [Next]_vars, NEW i \in paid' \ paid,
             Answered, view.event = bets[i].event, view.user = bets[i].user,
             RewardClaimed(view.row) = TRUE
      PROVE  FALSE
  <2> DEFINE row == view.row
             e == bets[i].event
  <2>1. /\ result[e] = bets[i].selectedOption /\ OwnBets(e, view.user) = {i}
        /\ RowOK(row, e, view.user)
    BY <1>1, ClaimAfterAnswer DEF Answered
  <2>2. row.bettingResultOption # Null /\ row.isParticipated
    BY <1>1, DetailNullAssumption DEF RewardClaimed
  <2>3. IsWinner(row) => row.rewardClaimed
    BY <1>1, <2>2 DEF RewardClaimed
  <2>4. /\ row.bettingResultOption = result[e]
        /\ row.selectedOption = bets[i].selectedOption
        /\ row.rewardClaimed => i \in paid
    BY <2>1, <2>2 DEF RowOK
  <2> QED
    BY <1>1, <2>1, <2>2, <2>3, <2>4 DEF IsWinner
<1>2. DetailInv /\ [Next]_vars
        => [\A i \in paid' \ paid :
               ~(/\ Answered /\ view.row # Null /\ view.event = bets[i].event
                 /\ view.user = bets[i].user /\ RewardClaimed(view.row) = TRUE)]_vars
  BY <1>1
<1> QED
  BY <1>2, DetailInvHolds, PTL DEF Spec, ClaimedIsFinal

\* What a winner is shown is what his claim credits.
THEOREM DetailEarnedIsCredited == Spec => EarnedIsCredited
<1>1. ASSUME DetailInv, [Next]_vars, NEW i \in paid' \ paid,
             Revealed, view.event = bets[i].event, view.user = bets[i].user,
             view.row.bettingResultOption # Null
      PROVE  wallet'[view.user] = wallet[view.user]
               + EarnedTokenAmount(view.row, view.choices, view.user)
  <2> DEFINE row == view.row
             u == view.user
             e == bets[i].event
             payouts == calculateBettingPayouts(BetsOn(e), result[e])
  <2>1. /\ result[e] = bets[i].selectedOption /\ OwnBets(e, u) = {i}
        /\ RowOK(row, e, u) /\ u \in Users /\ i \in Ids /\ bets[i] # Null
        /\ payouts[i] \in Nat
        /\ wallet' = [wallet EXCEPT ![u] = @ + payouts[i]]
    BY <1>1, ClaimAfterAnswer DEF Revealed, Answered
  <2>2. /\ row.bettingResultOption = result[e] /\ row.isParticipated
        /\ row.selectedOption = bets[i].selectedOption
    BY <1>1, <2>1 DEF RowOK
  <2>3. view.choices = BetsOn(e)
    BY <1>1 DEF DetailInv, ViewInv, ChoicesOK
  <2>4. IsWinner(row)
    BY <1>1, <2>1, <2>2 DEF IsWinner
  <2>5. DOMAIN payouts = Winners(BetsOn(e), result[e])
    BY DEF calculateBettingPayouts
  <2>6. i \in DOMAIN payouts
    <3>1. i \in DOMAIN BetsOn(e)
      BY <2>1 DEF OwnBets
    <3>2. BetsOn(e)[i].selectedOption = result[e]
      BY <2>1, <3>1, BetsOnIs
    <3> QED
      BY <2>5, <3>1, <3>2 DEF Winners
  <2>7. \A j \in DOMAIN payouts : BetsOn(e)[j].user = u <=> j = i
    <3>1. ASSUME NEW j \in DOMAIN payouts
          PROVE  BetsOn(e)[j].user = u <=> j = i
      <4>1. j \in DOMAIN BetsOn(e) /\ BetsOn(e)[j] = bets[j]
        BY <2>5, BetsOnIs DEF Winners
      <4>2. j \in OwnBets(e, u) <=> bets[j].user = u
        BY <4>1 DEF OwnBets
      <4> QED
        BY <2>1, <4>1, <4>2
    <3> QED
      BY <3>1
  <2>8. EarnedTokenAmount(row, view.choices, u)
          = payouts[CHOOSE j \in DOMAIN payouts : BetsOn(e)[j].user = u]
    BY <2>2, <2>3, <2>4 DEF EarnedTokenAmount
  <2>9. (CHOOSE j \in DOMAIN payouts : BetsOn(e)[j].user = u) = i
    BY <2>6, <2>7
  <2>10. wallet \in [Users -> Nat]
    BY <1>1 DEF DetailInv, BoardInv, BoardTypes
  <2> HIDE DEF payouts
  <2> QED
    BY <2>1, <2>8, <2>9, <2>10
<1>2. DetailInv /\ [Next]_vars
        => [\A i \in paid' \ paid :
              (Revealed /\ view.event = bets[i].event /\ view.user = bets[i].user
                 /\ view.row.bettingResultOption # Null)
                => wallet'[view.user] = wallet[view.user]
                     + EarnedTokenAmount(view.row, view.choices, view.user)]_vars
  BY <1>1
<1> QED
  BY <1>2, DetailInvHolds, PTL DEF Spec, EarnedIsCredited

-----------------------------------------------------------------------------
(* The specifications the detail rests on. *)

LEMMA TrafficOnBoard ==
    ASSUME BoardTypes, Traffic(Rows, Votes)
    PROVE  BoardNext
<1>1. ASSUME NEW e \in Events, NEW row \in Rows, Open(e, row)
      PROVE  BoardNext
  <2>1. events'[e] = row
    BY <1>1 DEF Open, BoardTypes
  <2> QED
    BY <1>1, <2>1 DEF BoardNext
<1>2. ASSUME NEW i \in Ids, NEW b \in Votes, Cast(i, b)
      PROVE  BoardNext
  <2>1. bets'[i] = b
    BY <1>2 DEF Cast, Ledger!Place, BoardTypes
  <2> QED
    BY <1>2, <2>1 DEF BoardNext
<1> QED
  BY <1>1, <1>2 DEF Traffic, BoardNext

\* What a detail is read from are steps of EventBoard, none of them the reader's;
\* so it is read from what VoteEvents commits, which implements EventBoard.
THEOREM DetailReadsBoard == Spec => BoardSpec
<1>1. Init => BoardInit
  BY DEF Init
<1>2. DetailInv /\ [Next]_vars => [BoardNext]_board
  <2> SUFFICES ASSUME DetailInv, [Next]_vars
               PROVE  BoardNext \/ UNCHANGED board
    OBVIOUS
  <2>1. BoardTypes
    BY DEF DetailInv, BoardInv
  <2>2. CASE Traffic(Rows, Votes)
    BY <2>1, <2>2, TrafficOnBoard
  <2>3. CASE GetDetail \/ FindDetail \/ FindParticipationChoices
    BY <2>3 DEF GetDetail, FindDetail, FindParticipationChoices
  <2>4. CASE UNCHANGED vars
    BY <2>4 DEF vars, board
  <2> QED
    BY <2>2, <2>3, <2>4 DEF Next
<1> QED
  BY <1>1, <1>2, DetailInvHolds, PTL DEF Spec, BoardSpec

=============================================================================
