--------------------------- MODULE AccountsProofs ---------------------------
(***************************************************************************)
(* Proofs about Accounts, for any users, requests and bounds.  The         *)
(* invariant IInv says how far each request has got and where every token  *)
(* comes from; what was answered never changes (Persist), so that a login  *)
(* stays the reason for all that is done with its tokens.                  *)
(***************************************************************************)
EXTENDS Accounts, TLAPS

\* The nickname a suggestion asks for after count others.
Tried(start, count) == 1 + ((start - 1 + count) % Len(Pool))

\* Where each request is agrees with what it asked for.
RequestOK(r) ==
    /\ pc[r] # "done" <=> answer[r] = Null
    /\ pc[r] \in Kinds => call[r].kind = pc[r]
    /\ pc[r] = "findByCode" => call[r].kind = "signup"
    /\ pc[r] = "insert" => call[r].kind = "signup" /\ call[r].code \in AffiliationCodes
    /\ pc[r] = "verifyPassword" =>
          /\ call[r].kind = "login" /\ who[r] # Null
          /\ users[who[r]].nickname = call[r].nickname
    /\ pc[r] = "findById" => call[r].kind \in {"refresh", "act", "view"} /\ who[r] # Null
    /\ pc[r] \in Kinds \cup {"idle", "findByCode", "insert"} => who[r] = Null
    /\ pc[r] # "done" => offered[r] = Null
    /\ stamp[r] <= now /\ signed[r] <= now

Requested == \A r \in Requests : RequestOK(r)

\* A new user's row is what a signup that has ended asked for.
NewUsersSigned ==
    \A r \in Requests \cap DOMAIN users :
        /\ call[r].kind = "signup" /\ answer[r] \in {OK, InternalError}
        /\ users[r].nickname = call[r].nickname /\ users[r].affiliation = call[r].code

\* Login l of user i with the right password.
Login(i, l) ==
    /\ answer[l] = OK /\ call[l].kind = "login" /\ who[l] = i
    /\ call[l].nickname = users[i].nickname /\ call[l].password = users[i].password

Refresh(i, f) == answer[f] = OK /\ call[f].kind = "refresh" /\ who[f] = i

\* Every token was signed by a login or, if it is an access token, a refresh.
TokenOrigin ==
    \A token \in tokens :
        /\ token.secret = token.type
        /\ token.type = "refresh" =>
              \E l \in Requests : Login(token.sub, l) /\ token.exp = signed[l] + RefreshTTL
        /\ token.type = "access" =>
              \/ \E l \in Requests :
                    Login(token.sub, l) /\ token.exp = signed[l] + AccessTTL
              \/ \E f \in Requests :
                    Refresh(token.sub, f) /\ token.exp = signed[f] + AccessTTL

\* What the token of a request that was accepted shows.
Session(r) ==
    /\ call[r].kind \in {"act", "view"} =>
          LoggedIn(who[r], stamp[r], AccessTTL) \/ Refreshed(who[r], stamp[r])
    /\ call[r].kind = "refresh" => LoggedIn(who[r], stamp[r], RefreshTTL)

Sessions ==
    \A r \in Requests : pc[r] = "findById" \/ (who[r] # Null /\ answer[r] = OK) => Session(r)

\* A suggestion that goes on has found the nicknames it tried taken, and what was
\* taken when a request arrived still is.
SuggestionOK(r) ==
    /\ taken[r] \subseteq TakenNicknames
    /\ pc[r] = "suggest" =>
          /\ tried[r][1] \in 1 .. Len(Pool)
          /\ \A k \in 0 .. tried[r][2] - 1 : Pool[Tried(tried[r][1], k)] \in TakenNicknames

SuggestionsOK == \A r \in Requests : SuggestionOK(r)

\* SuggestionHonest of one request.
Honest(r) ==
    /\ offered[r] # Null => offered[r] \notin taken[r]
    /\ answer[r] = "nickname_suggestion_unavailable" =>
          {Pool[n] : n \in DOMAIN Pool} \subseteq TakenNicknames

IInv ==
    /\ TypeOK /\ Requested
    /\ UniqueNicknames /\ NewUsersSigned /\ SignupAnswersMatch
    /\ TokenOrigin /\ Sessions
    /\ SuggestionsOK /\ SuggestionHonest

-----------------------------------------------------------------------------

\* Tried stays in the pool, and within one turn it comes by every place of it.
LEMMA PoolPlaces ==
    ASSUME NEW start \in 1 .. Len(Pool)
    PROVE  /\ \A k \in Nat : Tried(start, k) \in 1 .. Len(Pool)
           /\ \A n \in 1 .. Len(Pool) : \E k \in 0 .. Len(Pool) - 1 : Tried(start, k) = n
<1> DEFINE L == Len(Pool)
<1>1. L \in Nat \ {0}
  BY AccountsAssumption
<1>2. \A a \in Nat : a % L \in 0 .. L - 1
  BY <1>1
<1>3. \A a \in 0 .. L - 1 : a % L = a /\ (a + L) % L = a
  BY <1>1
<1>4. ASSUME NEW k \in Nat PROVE Tried(start, k) \in 1 .. L
  <2>1. start - 1 + k \in Nat
    OBVIOUS
  <2> HIDE DEF L
  <2>2. (start - 1 + k) % L \in 0 .. L - 1
    BY <2>1, <1>2
  <2> QED BY <2>2, <1>1 DEF Tried, L
<1>5. ASSUME NEW n \in 1 .. L PROVE \E k \in 0 .. L - 1 : Tried(start, k) = n
  <2> HIDE DEF L
  <2>0. start \in 1 .. L
    BY DEF L
  <2>1. CASE n >= start
    <3>1. n - start \in 0 .. L - 1 /\ start - 1 + (n - start) = n - 1 /\ n - 1 \in 0 .. L - 1
      BY <2>0, <2>1, <1>1
    <3>2. Tried(start, n - start) = 1 + ((n - 1) % L)
      BY <3>1 DEF Tried, L
    <3> QED BY <3>1, <3>2, <1>3
  <2>2. CASE n < start
    <3>1. /\ n - start + L \in 0 .. L - 1
          /\ start - 1 + (n - start + L) = n - 1 + L
          /\ n - 1 \in 0 .. L - 1
      BY <2>0, <2>2, <1>1
    <3>2. Tried(start, n - start + L) = 1 + ((n - 1 + L) % L)
      BY <3>1 DEF Tried, L
    <3>3. (n - 1 + L) % L = n - 1
      BY <3>1, <1>3
    <3> QED BY <3>1, <3>2, <3>3
  <2> QED BY <2>0, <2>1, <2>2
<1> QED BY <1>4, <1>5

-----------------------------------------------------------------------------

\* What may happen to one request.
Act(r) == Receive(r) \/ Step(r) \/ Fail(r)

\* Whatever happens to a request leaves the others alone, and happens only while
\* the request has no answer; what it asked for stays.
LEMMA OwnStep ==
    ASSUME TypeOK, Requested, NEW r \in Requests, Act(r)
    PROVE  /\ now' = now
           /\ answer[r] = Null /\ pc[r] # "done"
           /\ pc[r] # "idle" => call'[r] = call[r] /\ taken'[r] = taken[r]
           /\ \A q \in Requests \ {r} :
                 /\ pc'[q] = pc[q] /\ call'[q] = call[q] /\ who'[q] = who[q]
                 /\ stamp'[q] = stamp[q] /\ signed'[q] = signed[q]
                 /\ tried'[q] = tried[q] /\ offered'[q] = offered[q]
                 /\ taken'[q] = taken[q] /\ answer'[q] = answer[q]
<1> USE DEF TypeOK, Goto, Answer
<1>1. CASE Receive(r)
  BY <1>1 DEF Receive, Requested, RequestOK
<1>2. CASE SignupCheck(r) \/ FindAffiliation(r)
  BY <1>2 DEF SignupCheck, FindAffiliation, Requested, RequestOK
<1>3. CASE SignupInsert(r)
  BY <1>3 DEF SignupInsert, Requested, RequestOK
<1>4. CASE CheckAvailability(r)
  BY <1>4 DEF CheckAvailability, Requested, RequestOK
<1>5. CASE Suggest(r)
  BY <1>5 DEF Suggest, Requested, RequestOK
<1>6. CASE LoginFind(r)
  BY <1>6 DEF LoginFind, Requested, RequestOK
<1>7. CASE LoginVerify(r)
  BY <1>7 DEF LoginVerify, Requested, RequestOK
<1>8. CASE RefreshVerify(r)
  BY <1>8 DEF RefreshVerify, Present, Requested, RequestOK
<1>9. CASE GuardVerify(r)
  BY <1>9 DEF GuardVerify, Present, Requested, RequestOK
<1>10. CASE FindById(r)
  BY <1>10 DEF FindById, Requested, RequestOK
<1>11. CASE Fail(r)
  BY <1>11 DEF Fail, Kinds, Requested, RequestOK
<1> QED BY <1>1, <1>2, <1>3, <1>4, <1>5, <1>6, <1>7, <1>8, <1>9, <1>10, <1>11 DEF Act, Step

\* A signup adds a user, and nothing else changes the table.
LEMMA UsersStep ==
    ASSUME NEW r \in Requests, Act(r)
    PROVE  users' = users \/ (SignupInsert(r) /\ ~DuplicateKey(r))
<1>1. CASE SignupInsert(r)
  BY <1>1 DEF SignupInsert
<1>2. CASE Receive(r)
  BY <1>2 DEF Receive
<1>3. CASE Fail(r)
  BY <1>3 DEF Fail
<1> QED
  BY <1>1, <1>2, <1>3 DEF Act, Step, SignupCheck, FindAffiliation, CheckAvailability,
     Suggest, LoginFind, LoginVerify, RefreshVerify, GuardVerify, FindById

\* Users stay, as do answers and what they are about; clock and faults only grow.
Persists ==
    /\ \A i \in DOMAIN users : i \in DOMAIN users' /\ users'[i] = users[i]
    /\ TakenNicknames \subseteq TakenNicknames'
    /\ now <= now' /\ faults <= faults'
    /\ \A q \in Requests :
          answer[q] # Null =>
              /\ answer'[q] = answer[q] /\ call'[q] = call[q] /\ who'[q] = who[q]
              /\ stamp'[q] = stamp[q] /\ signed'[q] = signed[q]
              /\ offered'[q] = offered[q] /\ pc'[q] = pc[q] /\ taken'[q] = taken[q]

\* No step takes back a row, an answer or what an answered request is about.
LEMMA Persist ==
    ASSUME TypeOK, Requested, NewUsersSigned, [Next]_vars
    PROVE  Persists
<1>1. CASE UNCHANGED vars
  BY <1>1 DEF vars, Persists, TakenNicknames, TypeOK
<1>2. CASE Tick
  BY <1>2 DEF Tick, Persists, TakenNicknames, TypeOK
<1>3. ASSUME NEW r \in Requests, Act(r)
      PROVE  Persists
  <2>1. \A i \in DOMAIN users : i \in DOMAIN users' /\ users'[i] = users[i]
    <3>1. CASE users' = users
      BY <3>1
    <3>2. CASE SignupInsert(r) /\ ~DuplicateKey(r)
      <4>1. r \notin DOMAIN users
        BY <1>3, OwnStep, AccountsNullAssumption DEF NewUsersSigned, Answers, OK,
           InternalError
      <4> QED BY <3>2, <4>1 DEF SignupInsert
    <3> QED BY <1>3, <3>1, <3>2, UsersStep
  <2>2. TakenNicknames \subseteq TakenNicknames'
    BY <2>1 DEF TakenNicknames
  <2>3. faults <= faults'
    BY <1>3 DEF Act, Step, Receive, Fail, SignupCheck, FindAffiliation, SignupInsert,
       CheckAvailability, Suggest, LoginFind, LoginVerify, RefreshVerify, GuardVerify,
       FindById, TypeOK
  <2>4. now <= now'
    BY <1>3, OwnStep DEF TypeOK
  <2>5. \A q \in Requests : answer[q] # Null => q # r
    BY <1>3, OwnStep
  <2> QED BY <1>3, <2>1, <2>2, <2>3, <2>4, <2>5, OwnStep DEF Persists
<1> QED BY <1>1, <1>2, <1>3 DEF Next, Act

-----------------------------------------------------------------------------

\* The part of TypeOK about the requests, which does not depend on the tables.
TypeRequests ==
    /\ call \in [Requests -> Calls \cup {Null}]
    /\ pc \in [Requests -> PcValues]
    /\ \A r \in Requests : pc[r] # "idle" => call[r] \in Calls
    /\ stamp \in [Requests -> Nat] /\ signed \in [Requests -> Nat]
    /\ tried \in [Requests -> (0 .. Len(Pool)) \X (0 .. Len(Pool))]
    /\ \A r \in Requests : pc[r] = "suggest" => tried[r][2] < Len(Pool)
    /\ offered \in [Requests -> Nicknames \cup {Null}]
    /\ taken \in [Requests -> SUBSET Nicknames]
    /\ answer \in [Requests -> Answers \cup {Null}]
    /\ faults \in 0 .. MaxFaults

\* The nicknames of users are nicknames.
LEMMA TakenAreNicknames ==
    ASSUME TypeOK
    PROVE  TakenNicknames \subseteq Nicknames
BY DEF TypeOK, TakenNicknames, User

\* What most steps of a request change: where it is, its answer and a few times.
Ordinary(r) ==
    /\ UNCHANGED <<call, tried, taken, offered>>
    /\ pc' = [pc EXCEPT ![r] = pc'[r]]
    /\ pc'[r] \in {"findByCode", "insert", "verifyPassword", "findById", "done"}
    /\ answer' = [answer EXCEPT ![r] = answer'[r]]
    /\ answer'[r] \in Answers \cup {Null}
    /\ stamp' \in [Requests -> Nat] /\ signed' \in [Requests -> Nat]
    /\ faults' \in 0 .. MaxFaults
    /\ pc[r] # "idle"

\* Every step of a request but those of a suggestion, and its arrival, is ordinary.
LEMMA OrdinarySteps ==
    ASSUME TypeRequests, now \in Nat, NEW r \in Requests,
           Step(r) \/ Fail(r), ~Suggest(r)
    PROVE  Ordinary(r)
<1> USE AccountsAssumption DEF Ordinary, TypeRequests, Goto, Answer, Answers, OK, InternalError
<1>1. CASE SignupCheck(r) \/ FindAffiliation(r)
  BY <1>1 DEF SignupCheck, FindAffiliation
<1>2. CASE SignupInsert(r)
  <2>1. /\ UNCHANGED <<call, tried, taken, offered, stamp, signed>> /\ pc[r] = "insert"
        /\ pc' = [pc EXCEPT ![r] = "done"]
    BY <1>2 DEF SignupInsert
  <2>2. /\ answer' = [answer EXCEPT ![r] = answer'[r]]
        /\ answer'[r] \in Answers
    BY <1>2 DEF SignupInsert, DuplicateAnswer
  <2>3. faults' \in 0 .. MaxFaults
    BY <1>2 DEF SignupInsert
  <2> QED BY <2>1, <2>2, <2>3
<1>3. CASE CheckAvailability(r)
  BY <1>3 DEF CheckAvailability
<1>4. CASE LoginFind(r)
  BY <1>4 DEF LoginFind
<1>5. CASE LoginVerify(r)
  <2>1. /\ UNCHANGED <<call, tried, taken, offered, stamp, faults>>
        /\ pc[r] = "verifyPassword" /\ pc' = [pc EXCEPT ![r] = "done"]
    BY <1>5 DEF LoginVerify
  <2>2. /\ answer' = [answer EXCEPT ![r] = answer'[r]]
        /\ answer'[r] \in Answers
    BY <1>5 DEF LoginVerify
  <2>3. signed' \in [Requests -> Nat]
    BY <1>5 DEF LoginVerify
  <2> QED BY <2>1, <2>2, <2>3
<1>6. CASE RefreshVerify(r)
  <2>1. UNCHANGED <<call, tried, taken, offered, signed, faults>> /\ pc[r] = "refresh"
    BY <1>6 DEF RefreshVerify
  <2>2. /\ answer' = [answer EXCEPT ![r] = answer'[r]]
        /\ answer'[r] \in Answers \cup {Null}
    BY <1>6 DEF RefreshVerify, Present
  <2>3. pc' = [pc EXCEPT ![r] = pc'[r]] /\ pc'[r] \in {"findById", "done"}
    BY <1>6 DEF RefreshVerify, Present
  <2>4. stamp' \in [Requests -> Nat]
    BY <1>6 DEF RefreshVerify, Present
  <2> QED BY <2>1, <2>2, <2>3, <2>4
<1>7. CASE GuardVerify(r)
  BY <1>7 DEF GuardVerify, Present
<1>8. CASE FindById(r)
  BY <1>8 DEF FindById
<1>9. CASE Fail(r)
  BY <1>9 DEF Fail
<1> QED BY <1>1, <1>2, <1>3, <1>4, <1>5, <1>6, <1>7, <1>8, <1>9 DEF Step

\* What is kept of the requests keeps its type.
LEMMA TypeRequestsStep ==
    ASSUME TypeOK, Requested, SuggestionsOK, [Next]_vars
    PROVE  TypeRequests'
<1> USE AccountsAssumption
<1>0. TypeRequests /\ now \in Nat
  BY DEF TypeOK, TypeRequests
<1>1. CASE UNCHANGED vars
  BY <1>0, <1>1 DEF vars, TypeRequests
<1>2. CASE Tick
  BY <1>0, <1>2 DEF Tick, TypeRequests
<1>3. ASSUME NEW r \in Requests, Receive(r)
      PROVE  TypeRequests'
  <2> USE DEF TypeRequests
  <2>1. PICK c \in Inbox[r] :
              /\ call' = [call EXCEPT ![r] = c]
              /\ Goto(r, c.kind)
              /\ \E n \in DOMAIN Pool :
                    tried' = [tried EXCEPT ![r] = IF c.kind = "suggest" THEN <<n, 0>> ELSE @]
    BY <1>3 DEF Receive
  <2>2. c \in Calls /\ c.kind \in Kinds
    BY <2>1 DEF Calls
  <2>3. PICK n \in DOMAIN Pool :
          tried' = [tried EXCEPT ![r] = IF c.kind = "suggest" THEN <<n, 0>> ELSE @]
    BY <2>1
  <2>4. n \in 1 .. Len(Pool) /\ Len(Pool) \in Nat \ {0}
    BY <2>3
  <2>5. <<n, 0>> \in (0 .. Len(Pool)) \X (0 .. Len(Pool)) /\ <<n, 0>>[2] = 0
    BY <2>4
  <2>6. tried' \in [Requests -> (0 .. Len(Pool)) \X (0 .. Len(Pool))]
    BY <1>0, <2>3, <2>5
  <2>7. \A q \in Requests : pc'[q] = "suggest" => tried'[q][2] < Len(Pool)
    <3>1. c.kind = "suggest" => tried'[r] = <<n, 0>>
      BY <1>0, <2>3
    <3>2. pc'[r] = c.kind
      BY <1>0, <2>1 DEF Goto
    <3>3. \A q \in Requests \ {r} : pc'[q] = pc[q] /\ tried'[q] = tried[q]
      BY <1>0, <2>1, <2>3 DEF Goto
    <3>4. pc'[r] = "suggest" => tried'[r][2] < Len(Pool)
      BY <2>4, <2>5, <3>1, <3>2
    <3> QED BY <1>0, <3>3, <3>4
  <2>8. pc' \in [Requests -> PcValues]
    BY <1>0, <2>1, <2>2 DEF Goto, PcValues
  <2>9. call' \in [Requests -> Calls \cup {Null}]
        /\ \A q \in Requests : pc'[q] # "idle" => call'[q] \in Calls
    BY <1>0, <2>1, <2>2 DEF Goto
  <2>10. UNCHANGED <<stamp, signed, offered, answer, faults>>
         /\ taken' \in [Requests -> SUBSET Nicknames]
    BY <1>0, <1>3, TakenAreNicknames DEF Receive
  <2> QED BY <1>0, <2>6, <2>7, <2>8, <2>9, <2>10
<1>4. ASSUME NEW r \in Requests, Suggest(r)
      PROVE  TypeRequests'
  <2> USE DEF TypeRequests
  <2> DEFINE start    == tried[r][1]
             count    == tried[r][2]
             nickname == Pool[Tried(start, count)]
  <2>1. start \in 1 .. Len(Pool) /\ count \in Nat /\ count < Len(Pool)
    BY <1>0, <1>4 DEF Suggest, SuggestionsOK, SuggestionOK
  <2>2. nickname \in Nicknames
    <3>1. \A k \in 1 .. Len(Pool) : Pool[k] \in Nicknames
      OBVIOUS
    <3>2. Tried(start, count) \in 1 .. Len(Pool)
      BY <2>1, PoolPlaces
    <3> QED BY <3>1, <3>2
  <2>0. UNCHANGED <<call, stamp, signed, taken, faults>> /\ pc[r] = "suggest"
    BY <1>4 DEF Suggest
  <2>6. \/ /\ Answer(r, OK)
           /\ offered' = [offered EXCEPT ![r] = nickname]
           /\ UNCHANGED tried
        \/ /\ UNCHANGED offered /\ UNCHANGED tried
           /\ Answer(r, "nickname_suggestion_unavailable")
        \/ /\ UNCHANGED offered /\ ~IsLast(count) /\ UNCHANGED <<pc, answer>>
           /\ tried' = [tried EXCEPT ![r] = <<start, count + 1>>]
    BY <1>4 DEF Suggest, Tried
  <2> HIDE DEF nickname, count, start
  <2>3. CASE /\ Answer(r, OK)
             /\ offered' = [offered EXCEPT ![r] = nickname]
             /\ UNCHANGED tried
    BY <1>0, <2>0, <2>2, <2>3 DEF Answer, Goto, OK, Answers, PcValues
  <2>4. CASE /\ UNCHANGED offered /\ UNCHANGED tried
             /\ Answer(r, "nickname_suggestion_unavailable")
    BY <1>0, <2>0, <2>4 DEF Answer, Goto, Answers, PcValues
  <2>5. CASE /\ UNCHANGED offered /\ ~IsLast(count) /\ UNCHANGED <<pc, answer>>
             /\ tried' = [tried EXCEPT ![r] = <<start, count + 1>>]
    <3>1. count + 1 \in 0 .. Len(Pool) /\ count + 1 < Len(Pool)
      BY <2>1, <2>5 DEF IsLast
    <3>2. <<start, count + 1>> \in (0 .. Len(Pool)) \X (0 .. Len(Pool))
          /\ <<start, count + 1>>[2] = count + 1
      BY <2>1, <3>1
    <3>3. tried' \in [Requests -> (0 .. Len(Pool)) \X (0 .. Len(Pool))]
      BY <1>0, <2>5, <3>2
    <3>4. \A q \in Requests : pc'[q] = "suggest" => tried'[q][2] < Len(Pool)
      BY <1>0, <2>5, <3>1, <3>2
    <3> QED BY <1>0, <2>0, <2>5, <3>3, <3>4
  <2> QED BY <2>3, <2>4, <2>5, <2>6
<1>5. ASSUME NEW r \in Requests, Step(r) \/ Fail(r), ~Suggest(r)
      PROVE  TypeRequests'
  <2>1. Ordinary(r)
    BY <1>0, <1>5, OrdinarySteps
  <2>2. pc' \in [Requests -> PcValues]
    BY <1>0, <2>1 DEF Ordinary, TypeRequests, PcValues
  <2>3. answer' \in [Requests -> Answers \cup {Null}]
    BY <1>0, <2>1 DEF Ordinary, TypeRequests
  <2>4. \A q \in Requests : pc'[q] # "idle" => call'[q] \in Calls
    BY <1>0, <2>1 DEF Ordinary, TypeRequests
  <2>5. \A q \in Requests : pc'[q] = "suggest" => tried'[q][2] < Len(Pool)
    BY <1>0, <2>1 DEF Ordinary, TypeRequests
  <2> QED BY <1>0, <2>1, <2>2, <2>3, <2>4, <2>5 DEF Ordinary, TypeRequests
<1> QED BY <1>1, <1>2, <1>3, <1>4, <1>5 DEF Next, Step

\* The row of a new user.
LEMMA SignupRow ==
    ASSUME TypeOK, Requested, NEW r \in Requests, SignupInsert(r), ~DuplicateKey(r)
    PROVE  /\ DOMAIN users' = DOMAIN users \cup {r}
           /\ users'[r] \in User
           /\ users'[r].nickname = call[r].nickname
           /\ users'[r].affiliation = call[r].code
           /\ call[r].kind = "signup" /\ call[r].nickname \notin TakenNicknames
           /\ \A i \in DOMAIN users : i # r => users'[i] = users[i]
<1>1. call[r] \in Calls /\ call[r].kind = "signup" /\ call[r].code \in AffiliationCodes
  BY DEF SignupInsert, TypeOK, Requested, RequestOK
<1>2. DOMAIN users' = DOMAIN users \cup {r}
      /\ users'[r] = [nickname |-> call[r].nickname, password |-> call[r].password,
                      affiliation |-> call[r].code]
      /\ \A i \in DOMAIN users : i # r => users'[i] = users[i]
  BY DEF SignupInsert
<1> QED BY <1>1, <1>2 DEF DuplicateKey, Calls, User

\* The table of users keeps its type.
LEMMA TypeUsersStep ==
    ASSUME TypeOK, Requested, [Next]_vars
    PROVE  /\ users' \in [DOMAIN users' -> User]
           /\ DOMAIN users \subseteq DOMAIN users' /\ DOMAIN users' \subseteq UserIds
<1>1. CASE users' = users
  BY <1>1 DEF TypeOK
<1>2. ASSUME NEW r \in Requests, SignupInsert(r), ~DuplicateKey(r)
      PROVE  /\ users' \in [DOMAIN users' -> User]
             /\ DOMAIN users \subseteq DOMAIN users' /\ DOMAIN users' \subseteq UserIds
  <2>1. \A i \in DOMAIN users' : users'[i] \in User
    BY <1>2, SignupRow DEF TypeOK
  <2>2. users' = [i \in DOMAIN users' |-> users'[i]]
    BY <1>2 DEF SignupInsert
  <2> QED BY <1>2, <2>1, <2>2, SignupRow DEF TypeOK, UserIds
<1> QED BY <1>1, <1>2, UsersStep DEF Next, Act, Tick, vars

\* TypeOK is kept: the tables, the tokens and then the rest.
LEMMA TypeStep ==
    ASSUME TypeOK, Requested, NewUsersSigned, SuggestionsOK, [Next]_vars
    PROVE  TypeOK'
<1> USE AccountsAssumption
<1>1. /\ users' \in [DOMAIN users' -> User]
      /\ DOMAIN users \subseteq DOMAIN users' /\ DOMAIN users' \subseteq UserIds
  BY TypeUsersStep
<1>2. now' \in Nat
  BY OwnStep DEF Next, Tick, vars, TypeOK, Act
<1>3. ASSUME NEW token \in tokens'
      PROVE  /\ token.sub \in DOMAIN users'
             /\ token.type \in TokenTypes /\ token.secret \in TokenTypes
             /\ token.exp \in Nat
  <2>1. CASE token \in tokens
    BY <1>1, <2>1 DEF TypeOK
  <2>2. CASE token \notin tokens
    <3>1. PICK r \in Requests : pc[r] \in {"verifyPassword", "findById"}
                                /\ token \in {Token(who[r], "access"), Token(who[r], "refresh")}
      BY <1>3, <2>2 DEF Next, Tick, vars, Receive, Fail, Step, SignupCheck,
         FindAffiliation, SignupInsert, CheckAvailability, Suggest, LoginFind,
         LoginVerify, RefreshVerify, GuardVerify, FindById
    <3>2. who[r] \in DOMAIN users
      BY <3>1 DEF Requested, RequestOK, TypeOK
    <3> QED BY <1>1, <3>1, <3>2 DEF Token, TokenTypes, TypeOK
  <2> QED BY <2>1, <2>2
<1>4. who' \in [Requests -> DOMAIN users' \cup {Null}]
  <2>1. who' \in [Requests -> DOMAIN users \cup {Null}]
    <3>1. ASSUME NEW r \in Requests, Act(r)
          PROVE  who' \in [Requests -> DOMAIN users \cup {Null}]
      <4>1. CASE LoginFind(r)
        BY <4>1 DEF LoginFind, TypeOK
      <4>2. CASE RefreshVerify(r) \/ GuardVerify(r)
        BY <4>2 DEF RefreshVerify, GuardVerify, Present, TypeOK
      <4>3. CASE UNCHANGED who
        BY <4>3 DEF TypeOK
      <4> QED
        BY <3>1, <4>1, <4>2, <4>3 DEF Act, Step, Receive, Fail, SignupCheck,
           FindAffiliation, SignupInsert, CheckAvailability, Suggest, LoginVerify,
           FindById
    <3> QED BY <3>1 DEF Next, Act, Tick, vars, TypeOK
  <2> QED BY <1>1, <2>1
<1>5. TypeRequests'
  BY TypeRequestsStep
<1>6. DOMAIN InitialUsers \subseteq DOMAIN users'
  BY <1>1 DEF TypeOK
<1> QED BY <1>1, <1>2, <1>3, <1>4, <1>5, <1>6 DEF TypeOK, TypeRequests

-----------------------------------------------------------------------------

\* Every call that may arrive is a call of some kind.
LEMMA InboxCalls ==
    ASSUME NEW r \in Requests, NEW c \in Inbox[r]
    PROVE  c \in Calls /\ c.kind \in Kinds
<1>1. c \in Calls
  BY AccountsAssumption
<1> QED BY <1>1 DEF Calls

\* Requests stay where what they ask for agrees with; the step of a request is
\* checked action by action.
LEMMA RequestedStep ==
    ASSUME TypeOK, Requested, NewUsersSigned, [Next]_vars
    PROVE  Requested'
<1> USE DEF Requested
<1>0. Persists
  BY Persist
<1>1. CASE UNCHANGED vars
  BY <1>1 DEF vars, RequestOK
<1>2. CASE Tick
  BY <1>2 DEF Tick, RequestOK, TypeOK
<1>3. ASSUME NEW r \in Requests, Act(r)
      PROVE  Requested'
  <2>1. ASSUME NEW q \in Requests \ {r}
        PROVE  RequestOK(q)'
    <3>1. RequestOK(q) /\ (who[q] # Null => who[q] \in DOMAIN users)
      BY DEF TypeOK
    <3> QED BY <1>0, <1>3, <3>1, OwnStep DEF RequestOK, Persists
  <2>2. RequestOK(r)'
    <3> USE <1>3 DEF RequestOK, TypeOK, Kinds, Goto, Answer
    <3>0. Null \notin Answers /\ OK \in Answers /\ InternalError \in Answers
      BY AccountsNullAssumption DEF Answers
    <3>1. CASE Receive(r)
      <4>1. PICK c \in Inbox[r] :
                  /\ call' = [call EXCEPT ![r] = c]
                  /\ Goto(r, c.kind)
                  /\ \E n \in DOMAIN Pool :
                        tried' = [tried EXCEPT ![r] = IF c.kind = "suggest" THEN <<n, 0>> ELSE @]
        BY <3>1 DEF Receive
      <4>2. c \in Calls /\ c.kind \in Kinds
        BY InboxCalls
      <4>3. pc'[r] = c.kind /\ call'[r] = c
        BY <4>1
      <4>4. pc[r] = "idle" /\ UNCHANGED <<who, stamp, signed, now, answer, users, offered>>
        BY <3>1 DEF Receive
      <4> QED BY <4>2, <4>3, <4>4
    <3>2. CASE SignupCheck(r) \/ FindAffiliation(r)
      BY <3>0, <3>2 DEF SignupCheck, FindAffiliation, Answers
    <3>3. CASE SignupInsert(r)
      BY <3>0, <3>3 DEF SignupInsert, DuplicateAnswer, Answers
    <3>4. CASE CheckAvailability(r)
      BY <3>0, <3>4 DEF CheckAvailability, Answers
    <3>5. CASE Suggest(r)
      BY <3>0, <3>5 DEF Suggest, Answers
    <3>6. CASE LoginFind(r)
      BY <3>0, <3>6, AccountsNullAssumption DEF LoginFind, Answers
    <3>7. CASE LoginVerify(r)
      BY <3>0, <3>7 DEF LoginVerify, Answers
    <3>8. CASE RefreshVerify(r)
      BY <3>0, <3>8, AccountsNullAssumption DEF RefreshVerify, Present, Answers
    <3>9. CASE GuardVerify(r)
      BY <3>0, <3>9, AccountsNullAssumption DEF GuardVerify, Present, Answers
    <3>10. CASE FindById(r)
      BY <3>0, <3>10 DEF FindById
    <3>11. CASE Fail(r)
      BY <3>0, <3>11 DEF Fail
    <3> QED
      BY <3>1, <3>2, <3>3, <3>4, <3>5, <3>6, <3>7, <3>8, <3>9, <3>10, <3>11 DEF Act, Step
  <2> QED BY <2>1, <2>2
<1> QED BY <1>1, <1>2, <1>3 DEF Next, Act

-----------------------------------------------------------------------------

\* The unique index keeps the nicknames apart.
LEMMA UniqueStep ==
    ASSUME TypeOK, Requested, NewUsersSigned, UniqueNicknames, [Next]_vars
    PROVE  UniqueNicknames'
<1>1. CASE users' = users
  BY <1>1 DEF UniqueNicknames
<1>2. ASSUME NEW r \in Requests, SignupInsert(r), ~DuplicateKey(r)
      PROVE  UniqueNicknames'
  <2>1. /\ DOMAIN users' = DOMAIN users \cup {r}
        /\ users'[r].nickname = call[r].nickname
        /\ call[r].nickname \notin TakenNicknames
        /\ \A i \in DOMAIN users : i # r => users'[i] = users[i]
    BY <1>2, SignupRow
  <2>2. \A i \in DOMAIN users : users[i].nickname # call[r].nickname
    BY <2>1 DEF TakenNicknames
  <2> QED BY <2>1, <2>2 DEF UniqueNicknames
<1> QED BY <1>1, <1>2, UsersStep DEF Next, Act, Tick, vars

\* A row is added by the signup that ends with it, as success or lost in the commit.
LEMMA SignedStep ==
    ASSUME TypeOK, Requested, NewUsersSigned, [Next]_vars
    PROVE  NewUsersSigned'
<1>0. Persists
  BY Persist
<1>1. ASSUME NEW q \in Requests, q \in DOMAIN users
      PROVE  /\ call'[q].kind = "signup" /\ answer'[q] \in {OK, InternalError}
             /\ users'[q].nickname = call'[q].nickname
             /\ users'[q].affiliation = call'[q].code
  <2>1. answer[q] # Null
    BY <1>1, AccountsNullAssumption DEF NewUsersSigned, Answers
  <2> QED BY <1>0, <1>1, <2>1 DEF NewUsersSigned, Persists
<1>2. ASSUME NEW r \in Requests, SignupInsert(r), ~DuplicateKey(r)
      PROVE  /\ call'[r].kind = "signup" /\ answer'[r] \in {OK, InternalError}
             /\ users'[r].nickname = call'[r].nickname
             /\ users'[r].affiliation = call'[r].code
  <2>1. UNCHANGED call /\ answer'[r] \in {OK, InternalError}
    BY <1>2 DEF SignupInsert, Answer, TypeOK
  <2> QED BY <1>2, <2>1, SignupRow
<1>3. ASSUME NEW q \in Requests \cap DOMAIN users', q \notin DOMAIN users
      PROVE  SignupInsert(q) /\ ~DuplicateKey(q)
  <2>1. PICK r \in Requests : SignupInsert(r) /\ ~DuplicateKey(r)
    BY <1>3, UsersStep DEF Next, Act, Tick, vars
  <2> QED BY <1>3, <2>1, SignupRow
<1> QED BY <1>1, <1>2, <1>3 DEF NewUsersSigned

\* The number of faults never falls.
LEMMA FaultsType ==
    ASSUME TypeOK, [Next]_vars
    PROVE  faults \in Nat /\ faults' \in Nat
<1>1. faults \in Nat
  BY AccountsAssumption DEF TypeOK
<1>2. faults' = faults \/ faults' = faults + 1
  BY DEF Next, vars, Tick, Receive, Fail, Step, SignupCheck, FindAffiliation,
     SignupInsert, CheckAvailability, Suggest, LoginFind, LoginVerify, RefreshVerify,
     GuardVerify, FindById
<1> QED BY <1>1, <1>2

\* SignupAnswersMatch of one request.
SignupAnswer(r) ==
    /\ answer[r] = OK =>
          /\ r \in DOMAIN users
          /\ users[r].nickname = call[r].nickname
          /\ users[r].affiliation = call[r].code
    /\ answer[r] \in {"nickname_already_exists", "invalid_affiliation"} =>
          r \notin DOMAIN users
    /\ answer[r] = "nickname_already_exists" => call[r].nickname \in TakenNicknames
    /\ answer[r] = InternalError => faults > 0

\* Answers that were right stay right, and the answer of a step is right.
LEMMA SignupAnswersStep ==
    ASSUME TypeOK, Requested, NewUsersSigned, SignupAnswersMatch, [Next]_vars
    PROVE  SignupAnswersMatch'
<1>0. Persists
  BY Persist
<1>1. CASE UNCHANGED answer
  <2>1. ASSUME NEW q \in Requests, answer[q] \in {"nickname_already_exists", "invalid_affiliation"}
        PROVE  q \in DOMAIN users' => q \in DOMAIN users
    <3>1. answer'[q] \notin {OK, InternalError}
      BY <1>1, <2>1 DEF OK, InternalError
    <3> QED BY <3>1, SignedStep DEF NewUsersSigned
  <2>2. ASSUME NEW q \in Requests, answer[q] # Null, call[q].kind = "signup"
        PROVE  SignupAnswer(q)'
    <3>1. SignupAnswer(q) /\ answer'[q] = answer[q] /\ call'[q] = call[q]
      BY <1>0, <2>2 DEF SignupAnswersMatch, SignupAnswer, Persists
    <3>2. faults > 0 => faults' > 0
      BY <1>0, FaultsType DEF Persists
    <3> QED BY <1>0, <2>1, <3>1, <3>2 DEF SignupAnswer, Persists
  <2> QED BY <1>0, <1>1, <2>2 DEF SignupAnswersMatch, SignupAnswer, Persists
<1>2. ASSUME NEW r \in Requests, Act(r)
      PROVE  SignupAnswersMatch'
  <2>1. ASSUME NEW q \in Requests \ {r}, answer[q] # Null, call[q].kind = "signup"
        PROVE  SignupAnswer(q)'
    <3>1. answer'[q] \in {"nickname_already_exists", "invalid_affiliation"} =>
             q \notin DOMAIN users'
      BY SignedStep DEF NewUsersSigned, OK, InternalError
    <3>2. SignupAnswer(q) /\ answer'[q] = answer[q] /\ call'[q] = call[q]
      BY <1>0, <2>1 DEF SignupAnswersMatch, SignupAnswer, Persists
    <3>3. faults > 0 => faults' > 0
      BY <1>0, FaultsType DEF Persists
    <3> QED BY <1>0, <3>1, <3>2, <3>3 DEF SignupAnswer, Persists
  <2>2. ASSUME answer'[r] # Null, call'[r].kind = "signup"
        PROVE  SignupAnswer(r)'
    <3> USE DEF SignupAnswer
    <3>0. pc[r] # "idle" => call'[r] = call[r]
      BY <1>2, OwnStep
    <3>1. CASE SignupCheck(r) \/ FindAffiliation(r)
      <4>1. answer'[r] \in {"nickname_already_exists", "invalid_affiliation"}
            /\ (answer'[r] = "nickname_already_exists" => call[r].nickname \in TakenNicknames)
        BY <2>2, <3>1, <1>2, OwnStep DEF SignupCheck, FindAffiliation, Answer, TypeOK
      <4>2. r \notin DOMAIN users'
        BY <4>1, SignedStep DEF NewUsersSigned, OK, InternalError
      <4> QED BY <1>0, <3>1, <4>1, <4>2 DEF SignupCheck, FindAffiliation, Persists, OK,
                 InternalError
    <3>2. CASE SignupInsert(r)
      <4>1. CASE DuplicateKey(r)
        <5>1. answer'[r] = "nickname_already_exists" /\ users' = users /\ UNCHANGED call
          BY <3>2, <4>1 DEF SignupInsert, Answer, DuplicateAnswer, TypeOK
        <5>2. r \notin DOMAIN users'
          BY <5>1, SignedStep DEF NewUsersSigned, OK, InternalError
        <5> QED BY <4>1, <5>1, <5>2 DEF DuplicateKey, TakenNicknames, OK, InternalError
      <4>2. CASE ~DuplicateKey(r)
        <5>1. /\ answer'[r] \in {OK, InternalError} /\ UNCHANGED call
              /\ answer'[r] = InternalError => faults' = faults + 1
          BY <3>2, <4>2 DEF SignupInsert, Answer, TypeOK, OK, InternalError
        <5>2. answer'[r] = InternalError => faults' > 0
          BY <5>1, AccountsAssumption DEF TypeOK
        <5> QED BY <3>2, <4>2, <5>1, <5>2, SignupRow DEF OK, InternalError
      <4> QED BY <4>1, <4>2
    <3>3. CASE Fail(r)
      <4>1. answer'[r] = InternalError /\ faults' = faults + 1
        BY <3>3 DEF Fail, Answer, TypeOK
      <4> QED BY <4>1, AccountsAssumption DEF TypeOK, OK, InternalError
    <3>4. CASE Receive(r)
      BY <2>2, <3>4, <1>2, OwnStep DEF Receive
    <3>5. CASE CheckAvailability(r) \/ Suggest(r) \/ LoginFind(r) \/ LoginVerify(r)
               \/ RefreshVerify(r) \/ GuardVerify(r) \/ FindById(r)
      <4>1. pc[r] \in {"available", "suggest", "login", "verifyPassword", "refresh", "act",
                       "view", "findById"}
        BY <3>5 DEF CheckAvailability, Suggest, LoginFind, LoginVerify, RefreshVerify,
           GuardVerify, FindById
      <4>2. call[r].kind # "signup"
        BY <4>1 DEF Requested, RequestOK, Kinds
      <4> QED BY <2>2, <3>0, <4>1, <4>2
    <3> QED BY <1>2, <3>1, <3>2, <3>3, <3>4, <3>5 DEF Act, Step
  <2>3. \A q \in Requests \ {r} : answer'[q] = answer[q] /\ call'[q] = call[q]
    BY <1>2, OwnStep
  <2> QED BY <2>1, <2>2, <2>3 DEF SignupAnswersMatch, SignupAnswer
<1> QED BY <1>1, <1>2 DEF Next, Act, Tick, vars

-----------------------------------------------------------------------------

\* LoggedIn and Refreshed stay true, the login or refresh being answered.
LEMMA LoginsPersist ==
    ASSUME TypeOK, Persists, NEW i \in DOMAIN users, NEW l \in Requests
    PROVE  /\ Login(i, l) => Login(i, l)' /\ signed'[l] = signed[l]
           /\ Refresh(i, l) => Refresh(i, l)' /\ signed'[l] = signed[l]
<1>1. OK # Null
  BY AccountsNullAssumption DEF Answers
<1> QED BY <1>1 DEF Login, Refresh, Persists

\* The tokens a step adds: those of a login, or the access token of a refresh.
LEMMA NewTokens ==
    ASSUME TypeOK, Requested, [Next]_vars, NEW token \in tokens', token \notin tokens
    PROVE  \E r \in Requests :
              /\ \/ token = Token(token.sub, "access")
                 \/ token = Token(token.sub, "refresh") /\ Login(token.sub, r)'
              /\ signed'[r] = now
              /\ Login(token.sub, r)' \/ Refresh(token.sub, r)'
<1>1. PICK r \in Requests :
        \/ LoginVerify(r) /\ users[who[r]].password = call[r].password
           /\ token \in {Token(who[r], "access"), Token(who[r], "refresh")}
        \/ FindById(r) /\ call[r].kind = "refresh" /\ token = Token(who[r], "access")
  BY DEF Next, Tick, vars, Receive, Fail, Step, SignupCheck, FindAffiliation, SignupInsert,
     CheckAvailability, Suggest, LoginFind, LoginVerify, RefreshVerify, GuardVerify, FindById
<1>2. CASE LoginVerify(r) /\ users[who[r]].password = call[r].password
           /\ token \in {Token(who[r], "access"), Token(who[r], "refresh")}
  <2>1. call[r].kind = "login" /\ who[r] \in DOMAIN users
        /\ users[who[r]].nickname = call[r].nickname
    BY <1>2 DEF LoginVerify, Requested, RequestOK, TypeOK
  <2>2. UNCHANGED <<users, call, who>> /\ signed'[r] = now /\ answer'[r] = OK
    BY <1>2 DEF LoginVerify, Answer, TypeOK
  <2>3. token.sub = who[r] /\ token \in {Token(token.sub, "access"), Token(token.sub, "refresh")}
    BY <1>2 DEF Token
  <2> QED BY <1>2, <2>1, <2>2, <2>3 DEF Login
<1>3. CASE FindById(r) /\ call[r].kind = "refresh" /\ token = Token(who[r], "access")
  <2>1. who[r] \in DOMAIN users
    BY <1>3 DEF FindById, Requested, RequestOK, TypeOK
  <2>2. UNCHANGED <<users, call, who>> /\ signed'[r] = now /\ answer'[r] = OK
    BY <1>3 DEF FindById, Answer, TypeOK
  <2>3. token.sub = who[r] /\ token = Token(token.sub, "access")
    BY <1>3 DEF Token
  <2> QED BY <1>3, <2>1, <2>2, <2>3 DEF Refresh
<1> QED BY <1>1, <1>2, <1>3

\* Where one token comes from.
Origin(token) ==
    /\ token.secret = token.type
    /\ token.type = "refresh" =>
          \E l \in Requests : Login(token.sub, l) /\ token.exp = signed[l] + RefreshTTL
    /\ token.type = "access" =>
          \/ \E l \in Requests :
                Login(token.sub, l) /\ token.exp = signed[l] + AccessTTL
          \/ \E f \in Requests :
                Refresh(token.sub, f) /\ token.exp = signed[f] + AccessTTL

\* Tokens keep their origin, and those of a step have one.
LEMMA OriginStep ==
    ASSUME TypeOK, Requested, NewUsersSigned, TokenOrigin, [Next]_vars
    PROVE  TokenOrigin'
<1>0. Persists
  BY Persist
<1>1. ASSUME NEW token \in tokens
      PROVE  Origin(token)'
  <2>1. Origin(token) /\ token.sub \in DOMAIN users
    BY DEF TokenOrigin, Origin, TypeOK
  <2>2. \A l \in Requests :
           /\ Login(token.sub, l) => Login(token.sub, l)' /\ signed'[l] = signed[l]
           /\ Refresh(token.sub, l) => Refresh(token.sub, l)' /\ signed'[l] = signed[l]
    BY <1>0, <2>1, LoginsPersist
  <2> QED BY <2>1, <2>2 DEF Origin
<1>2. ASSUME NEW token \in tokens', token \notin tokens
      PROVE  Origin(token)'
  <2>1. PICK r \in Requests :
              /\ \/ token = Token(token.sub, "access")
                 \/ token = Token(token.sub, "refresh") /\ Login(token.sub, r)'
              /\ signed'[r] = now
              /\ Login(token.sub, r)' \/ Refresh(token.sub, r)'
    BY <1>2, NewTokens
  <2>2. /\ token.secret = token.type
        /\ token.type = "refresh" => token.exp = now + RefreshTTL /\ Login(token.sub, r)'
        /\ token.type = "access" => token.exp = now + AccessTTL
    BY <2>1 DEF Token
  <2>3. token.type = "refresh" => Login(token.sub, r)' /\ token.exp = signed'[r] + RefreshTTL
    BY <2>1, <2>2
  <2>4. token.type = "access" => /\ Login(token.sub, r)' \/ Refresh(token.sub, r)'
                                 /\ token.exp = signed'[r] + AccessTTL
    BY <2>1, <2>2
  <2> QED BY <2>2, <2>3, <2>4 DEF Origin
<1> QED BY <1>1, <1>2 DEF TokenOrigin, Origin

\* A token that is accepted shows a login or a refresh that is not too long ago.
LEMMA AcceptedToken ==
    ASSUME TypeOK, Requested, TokenOrigin, NEW token \in tokens, NEW type, Accepts(token, type)
    PROVE  /\ type = "access" =>
                 LoggedIn(token.sub, now, AccessTTL) \/ Refreshed(token.sub, now)
           /\ type = "refresh" => LoggedIn(token.sub, now, RefreshTTL)
<1>1. Origin(token) /\ token.type = type /\ now < token.exp
  BY DEF TokenOrigin, Origin, Accepts
<1>2. \A l \in Requests : signed[l] <= now
  BY DEF Requested, RequestOK
<1>3. ASSUME type = "access"
      PROVE  LoggedIn(token.sub, now, AccessTTL) \/ Refreshed(token.sub, now)
  <2>1. CASE \E l \in Requests : Login(token.sub, l) /\ token.exp = signed[l] + AccessTTL
    BY <1>1, <1>2, <2>1 DEF Login, LoggedIn
  <2>2. CASE \E f \in Requests : Refresh(token.sub, f) /\ token.exp = signed[f] + AccessTTL
    BY <1>1, <1>2, <2>2 DEF Refresh, Refreshed
  <2> QED BY <1>1, <1>3, <2>1, <2>2 DEF Origin
<1>4. ASSUME type = "refresh"
      PROVE  LoggedIn(token.sub, now, RefreshTTL)
  BY <1>1, <1>2, <1>4 DEF Origin, Login, LoggedIn
<1> QED BY <1>3, <1>4

\* A request is accepted by its token's origin, which persists.
LEMMA SessionsStep ==
    ASSUME TypeOK, Requested, NewUsersSigned, TokenOrigin, Sessions, [Next]_vars
    PROVE  Sessions'
<1>0. Persists
  BY Persist
<1>1. \A i \in DOMAIN users, t, ttl \in Nat :
         /\ LoggedIn(i, t, ttl) => LoggedIn(i, t, ttl)'
         /\ Refreshed(i, t) => Refreshed(i, t)'
  <2>1. OK # Null
    BY AccountsNullAssumption DEF Answers
  <2> QED BY <1>0, <2>1 DEF LoggedIn, Refreshed, Persists
<1>2. ASSUME NEW q \in Requests, who[q] # Null, Session(q),
             who'[q] = who[q], call'[q] = call[q], stamp'[q] = stamp[q]
      PROVE  Session(q)'
  <2>1. who[q] \in DOMAIN users /\ stamp[q] \in Nat
    BY <1>2 DEF TypeOK
  <2>2. AccessTTL \in Nat /\ RefreshTTL \in Nat
    BY AccountsAssumption
  <2> QED BY <1>1, <1>2, <2>1, <2>2 DEF Session
<1>3. \A q \in Requests : pc[q] = "findById" => who[q] # Null
  BY DEF Requested, RequestOK
<1>4. CASE UNCHANGED vars \/ Tick
  BY <1>2, <1>3, <1>4 DEF vars, Tick, Sessions
<1>5. ASSUME NEW r \in Requests, Act(r)
      PROVE  Sessions'
  <2>1. ASSUME NEW q \in Requests \ {r}, pc'[q] = "findById" \/ (who'[q] # Null /\ answer'[q] = OK)
        PROVE  Session(q)'
    <3>1. /\ pc'[q] = pc[q] /\ who'[q] = who[q] /\ answer'[q] = answer[q]
          /\ call'[q] = call[q] /\ stamp'[q] = stamp[q]
      BY <1>5, OwnStep
    <3>2. who[q] # Null /\ Session(q)
      BY <1>3, <2>1, <3>1 DEF Sessions
    <3> QED BY <1>2, <3>1, <3>2
  <2>2. ASSUME pc'[r] = "findById" \/ (who'[r] # Null /\ answer'[r] = OK)
        PROVE  Session(r)'
    <3>1. CASE RefreshVerify(r) \/ GuardVerify(r)
      <4>1. /\ UNCHANGED <<users, call, signed>> /\ call[r].kind = pc[r] /\ who[r] = Null
            /\ pc[r] \in {"refresh", "act", "view"}
        BY <3>1 DEF RefreshVerify, GuardVerify, Requested, RequestOK, Kinds
      <4>2. PICK token \in tokens : /\ Accepts(token, IF pc[r] = "refresh" THEN "refresh" ELSE "access")
                                    /\ who'[r] = token.sub /\ stamp'[r] = now /\ UNCHANGED answer
        <5>1. CASE RefreshVerify(r)
          BY <2>2, <4>1, <5>1, AccountsNullAssumption
             DEF RefreshVerify, Present, Answer, Goto, Answers, TypeOK, OK
        <5>2. CASE GuardVerify(r)
          BY <2>2, <4>1, <5>2, AccountsNullAssumption
             DEF GuardVerify, Present, Answer, Goto, Answers, TypeOK, OK
        <5> QED BY <3>1, <5>1, <5>2
      <4>3. token.sub \in DOMAIN users /\ now \in Nat /\ AccessTTL \in Nat /\ RefreshTTL \in Nat
        BY AccountsAssumption DEF TypeOK
      <4>4. /\ pc[r] # "refresh" =>
                  LoggedIn(token.sub, now, AccessTTL) \/ Refreshed(token.sub, now)
            /\ pc[r] = "refresh" => LoggedIn(token.sub, now, RefreshTTL)
        BY <4>2, AcceptedToken
      <4>5. now' = now
        BY <1>5, OwnStep
      <4>6. PICK i \in DOMAIN users, t \in Nat : i = token.sub /\ t = now
        BY <4>3
      <4>7. /\ pc[r] # "refresh" => LoggedIn(i, t, AccessTTL)' \/ Refreshed(i, t)'
            /\ pc[r] = "refresh" => LoggedIn(i, t, RefreshTTL)'
        BY <1>1, <4>3, <4>4, <4>6
      <4>8. who'[r] = i /\ stamp'[r] = t /\ call'[r].kind = pc[r]
        BY <4>1, <4>2, <4>6
      <4> QED BY <4>1, <4>7, <4>8 DEF Session
    <3>2. CASE FindById(r)
      <4>1. pc[r] = "findById" /\ UNCHANGED <<who, call, stamp>>
        BY <3>2 DEF FindById
      <4> QED BY <1>2, <1>3, <4>1 DEF Sessions
    <3>3. CASE LoginVerify(r) \/ LoginFind(r)
      <4>1. UNCHANGED call /\ call[r].kind = "login"
        BY <3>3 DEF LoginVerify, LoginFind, Requested, RequestOK, Kinds
      <4> QED BY <4>1 DEF Session
    <3>4. CASE Receive(r) \/ SignupCheck(r) \/ FindAffiliation(r) \/ SignupInsert(r)
               \/ CheckAvailability(r) \/ Suggest(r)
      <4>1. pc[r] \in {"idle", "signup", "findByCode", "insert", "available", "suggest"}
            /\ UNCHANGED who
        BY <3>4 DEF Receive, SignupCheck, FindAffiliation, SignupInsert,
           CheckAvailability, Suggest
      <4>2. who'[r] = Null
        BY <4>1 DEF Requested, RequestOK, Kinds
      <4>3. pc'[r] # "findById"
        <5>1. CASE Receive(r)
          <6>1. PICK c \in Inbox[r] :
                  /\ call' = [call EXCEPT ![r] = c]
                  /\ Goto(r, c.kind)
                  /\ \E n \in DOMAIN Pool :
                        tried' = [tried EXCEPT ![r] = IF c.kind = "suggest" THEN <<n, 0>> ELSE @]
            BY <5>1 DEF Receive
          <6> QED BY <6>1, InboxCalls DEF Goto, Kinds, TypeOK
        <5>2. CASE SignupCheck(r) \/ FindAffiliation(r) \/ CheckAvailability(r)
          BY <5>2 DEF SignupCheck, FindAffiliation, CheckAvailability, Goto, Answer, TypeOK
        <5>3. CASE SignupInsert(r)
          BY <5>3 DEF SignupInsert, Goto, Answer, TypeOK
        <5>4. CASE Suggest(r)
          BY <5>4 DEF Suggest, Goto, Answer, TypeOK
        <5> QED BY <3>4, <5>1, <5>2, <5>3, <5>4
      <4> QED BY <2>2, <4>2, <4>3
    <3>5. CASE Fail(r)
      BY <2>2, <3>5 DEF Fail, Answer, Goto, TypeOK, OK, InternalError
    <3> QED BY <1>5, <3>1, <3>2, <3>3, <3>4, <3>5 DEF Act, Step
  <2> QED BY <2>1, <2>2 DEF Sessions
<1> QED BY <1>4, <1>5 DEF Next, Act

-----------------------------------------------------------------------------

\* The nicknames a suggestion has tried are taken, the one at its place included
\* when it moves on.
LEMMA SuggestionsStep ==
    ASSUME TypeOK, Requested, NewUsersSigned, SuggestionsOK, [Next]_vars
    PROVE  SuggestionsOK'
<1>0. Persists
  BY Persist
<1>1. ASSUME NEW q \in Requests, taken'[q] = taken[q], tried'[q] = tried[q], pc'[q] = pc[q]
      PROVE  SuggestionOK(q)'
  BY <1>0, <1>1 DEF SuggestionsOK, SuggestionOK, Persists
<1>2. CASE UNCHANGED vars \/ Tick
  BY <1>1, <1>2 DEF vars, Tick, SuggestionsOK, SuggestionOK
<1>3. ASSUME NEW r \in Requests, Act(r)
      PROVE  SuggestionsOK'
  <2>1. \A q \in Requests \ {r} : SuggestionOK(q)'
    BY <1>1, <1>3, OwnStep
  <2>2. SuggestionOK(r)'
    <3>1. CASE Receive(r)
      <4>1. PICK c \in Inbox[r] :
                  /\ call' = [call EXCEPT ![r] = c]
                  /\ Goto(r, c.kind)
                  /\ \E n \in DOMAIN Pool :
                        tried' = [tried EXCEPT ![r] = IF c.kind = "suggest" THEN <<n, 0>> ELSE @]
        BY <3>1 DEF Receive
      <4>2. PICK n \in DOMAIN Pool :
                  tried' = [tried EXCEPT ![r] = IF c.kind = "suggest" THEN <<n, 0>> ELSE @]
        BY <4>1
      <4>3. n \in 1 .. Len(Pool)
        BY <4>2, AccountsAssumption
      <4>4. pc'[r] = "suggest" => tried'[r] = <<n, 0>>
        BY <4>1, <4>2 DEF Goto, TypeOK
      <4>5. taken'[r] = TakenNicknames
        BY <3>1 DEF Receive, TypeOK
      <4> QED BY <1>0, <4>3, <4>4, <4>5 DEF SuggestionOK, Persists
    <3>2. CASE Suggest(r)
      <4> DEFINE start    == tried[r][1]
                 count    == tried[r][2]
                 nickname == Pool[Tried(start, count)]
      <4>1. /\ start \in 1 .. Len(Pool) /\ count \in Nat
            /\ \A k \in 0 .. count - 1 : Pool[Tried(start, k)] \in TakenNicknames
            /\ taken[r] \subseteq TakenNicknames
        BY <3>2 DEF Suggest, SuggestionsOK, SuggestionOK, TypeOK
      <4>2. taken'[r] = taken[r] /\ users' = users
        BY <3>2 DEF Suggest
      <4>3. \/ pc'[r] = "done"
            \/ /\ nickname \in TakenNicknames
               /\ tried'[r] = <<start, count + 1>>
        BY <3>2 DEF Suggest, Tried, Answer, Goto, TypeOK
      <4> HIDE DEF nickname, count, start
      <4>4. nickname \in TakenNicknames =>
               \A k \in 0 .. count : Pool[Tried(start, k)] \in TakenNicknames
        BY <4>1 DEF nickname
      <4>5. count + 1 - 1 = count
        BY <4>1
      <4>6. TakenNicknames' = TakenNicknames
        BY <4>2 DEF TakenNicknames
      <4> QED BY <4>1, <4>2, <4>3, <4>4, <4>5, <4>6 DEF SuggestionOK
    <3>3. CASE Step(r) \/ Fail(r)
      <4>1. CASE ~Suggest(r)
        <5>1. Ordinary(r)
          BY <3>3, <4>1, OrdinarySteps DEF TypeOK, TypeRequests
        <5>2. pc'[r] # "suggest" /\ taken'[r] = taken[r]
          BY <5>1 DEF Ordinary
        <5> QED BY <1>0, <5>2 DEF SuggestionsOK, SuggestionOK, Persists
      <4> QED BY <3>2, <4>1
    <3> QED BY <1>3, <3>1, <3>3 DEF Act
  <2> QED BY <2>1, <2>2 DEF SuggestionsOK, SuggestionOK
<1> QED BY <1>2, <1>3 DEF Next, Act

\* A suggestion is answered right: it stops at a nickname that is free, or when it
\* has come by all of the pool.
LEMMA HonestStep ==
    ASSUME TypeOK, Requested, NewUsersSigned, SuggestionsOK, SuggestionHonest, [Next]_vars
    PROVE  SuggestionHonest'
<1>0. Persists
  BY Persist
<1>1. ASSUME NEW q \in Requests, taken'[q] = taken[q] \/ offered[q] = Null,
             offered'[q] = offered[q],
             answer'[q] = answer[q] \/ answer'[q] # "nickname_suggestion_unavailable"
      PROVE  Honest(q)'
  BY <1>0, <1>1 DEF SuggestionHonest, Honest, Persists
<1>2. CASE UNCHANGED vars \/ Tick
  BY <1>1, <1>2 DEF vars, Tick, SuggestionHonest, Honest
<1>3. ASSUME NEW r \in Requests, Act(r)
      PROVE  SuggestionHonest'
  <2>1. \A q \in Requests \ {r} : Honest(q)'
    BY <1>1, <1>3, OwnStep
  <2>2. Honest(r)'
    <3>1. CASE Suggest(r)
      <4> DEFINE start    == tried[r][1]
                 count    == tried[r][2]
                 nickname == Pool[Tried(start, count)]
      <4>1. /\ start \in 1 .. Len(Pool) /\ count \in Nat
            /\ \A k \in 0 .. count - 1 : Pool[Tried(start, k)] \in TakenNicknames
            /\ taken[r] \subseteq TakenNicknames
        BY <3>1 DEF Suggest, SuggestionsOK, SuggestionOK, TypeOK
      <4>2. taken'[r] = taken[r] /\ users' = users
        BY <3>1 DEF Suggest
      <4>3. \/ /\ nickname \notin TakenNicknames
               /\ offered'[r] = nickname /\ answer'[r] = OK
            \/ /\ nickname \in TakenNicknames /\ IsLast(count)
               /\ offered'[r] = offered[r]
            \/ answer'[r] = answer[r] /\ offered'[r] = offered[r]
        BY <3>1 DEF Suggest, Tried, Answer, TypeOK
      <4> HIDE DEF nickname, count, start
      <4>4. Honest(r)
        BY DEF SuggestionHonest, Honest
      <4>5. CASE nickname \notin TakenNicknames /\ offered'[r] = nickname /\ answer'[r] = OK
        BY <4>1, <4>2, <4>5 DEF Honest, OK
      <4>6. CASE nickname \in TakenNicknames /\ IsLast(count) /\ offered'[r] = offered[r]
        <5>1. \A k \in 0 .. count : Pool[Tried(start, k)] \in TakenNicknames
          BY <4>1, <4>6 DEF nickname
        <5>2. count = Len(Pool) - 1
          BY <4>1, <4>6 DEF IsLast
        <5>3. \A n \in 1 .. Len(Pool) : Pool[n] \in TakenNicknames
          BY <4>1, <5>1, <5>2, PoolPlaces
        <5>4. DOMAIN Pool = 1 .. Len(Pool)
          BY AccountsAssumption
        <5>5. TakenNicknames \subseteq TakenNicknames'
          BY <1>0 DEF Persists
        <5> QED BY <4>2, <4>4, <4>6, <5>3, <5>4, <5>5 DEF Honest
      <4>7. CASE answer'[r] = answer[r] /\ offered'[r] = offered[r]
        BY <1>1, <4>2, <4>7
      <4> QED BY <4>3, <4>5, <4>6, <4>7
    <3>2. CASE Receive(r)
      <4>1. UNCHANGED <<offered, answer>> /\ offered[r] = Null
        BY <3>2 DEF Receive, Requested, RequestOK, Kinds
      <4> QED BY <1>1, <4>1
    <3>3. CASE (Step(r) \/ Fail(r)) /\ ~Suggest(r)
      <4>1. UNCHANGED <<offered, taken>>
        BY <3>3, OrdinarySteps DEF Ordinary, TypeOK, TypeRequests
      <4>2. answer'[r] = answer[r] \/ answer'[r] # "nickname_suggestion_unavailable"
        BY <3>3 DEF Step, Fail, SignupCheck, FindAffiliation, SignupInsert,
           CheckAvailability, LoginFind, LoginVerify, RefreshVerify, GuardVerify,
           FindById, Present, Answer, DuplicateAnswer, OK, InternalError, TypeOK
      <4> QED BY <1>1, <4>1, <4>2
    <3> QED BY <1>3, <3>1, <3>2, <3>3 DEF Act
  <2> QED BY <2>1, <2>2 DEF SuggestionHonest, Honest
<1> QED BY <1>2, <1>3 DEF Next, Act

-----------------------------------------------------------------------------

\* IInv holds at first.
LEMMA InitIInv ==
    ASSUME Init
    PROVE  IInv
<1> USE AccountsAssumption, AccountsNullAssumption DEF Init
<1>1. TypeOK
  <2>1. <<0, 0>> \in (0 .. Len(Pool)) \X (0 .. Len(Pool))
    OBVIOUS
  <2> QED BY <2>1 DEF TypeOK, PcValues, UserIds
<1>2. Requested
  BY DEF Requested, RequestOK, Kinds
<1>3. UniqueNicknames /\ NewUsersSigned
  BY DEF UniqueNicknames, NewUsersSigned
<1>4. TokenOrigin /\ Sessions
  BY DEF TokenOrigin, Sessions
<1>5. SignupAnswersMatch
  BY DEF SignupAnswersMatch
<1>6. SuggestionsOK
  BY DEF SuggestionsOK, SuggestionOK
<1>7. SuggestionHonest
  BY DEF SuggestionHonest, Answers
<1> QED BY <1>1, <1>2, <1>3, <1>4, <1>5, <1>6, <1>7 DEF IInv

\* IInv holds throughout, for any users, requests, pool, lifetimes and bounds.
THEOREM Invariance == Spec => []IInv
<1>1. Init => IInv
  BY InitIInv
<1>2. IInv /\ [Next]_vars => IInv'
  BY TypeStep, RequestedStep, UniqueStep, SignedStep, SignupAnswersStep, OriginStep,
     SessionsStep, SuggestionsStep, HonestStep DEF IInv
<1> QED BY <1>1, <1>2, PTL DEF Spec

\* The variables have their types: users keep to their columns, every token is a
\* user's, a suggestion stays in its pool (users.service.ts:72).
THEOREM TypeCorrect == Spec => []TypeOK
<1>1. IInv => TypeOK
  BY DEF IInv
<1> QED BY <1>1, Invariance, PTL

\* No two users have one nickname, however many sign up at once
\* (users.service.ts:51).
THEOREM NicknamesUnique == Spec => []UniqueNicknames
<1>1. IInv => UniqueNicknames
  BY DEF IInv
<1> QED BY <1>1, Invariance, PTL

\* A signup is told what became of it (users.service.ts:46).
THEOREM SignupTold == Spec => []SignupAnswersMatch
<1>1. IInv => SignupAnswersMatch
  BY DEF IInv
<1> QED BY <1>1, Invariance, PTL

\* A suggestion was free when it was asked for, and none is offered only when all
\* are taken (users.service.ts:72).
THEOREM SuggestionsHonest == Spec => []SuggestionHonest
<1>1. IInv => SuggestionHonest
  BY DEF IInv
<1> QED BY <1>1, Invariance, PTL

\* Nobody acts as a user for longer than a login of that user allows
\* (auth.service.ts:53, 77, 97).
THEOREM SessionsNeedLogin == Spec => []SessionNeedsLogin
<1>1. IInv => SessionNeedsLogin
  BY DEF IInv, Sessions, Session, SessionNeedsLogin
<1> QED BY <1>1, Invariance, PTL

=============================================================================
