------------------------------ MODULE Accounts ------------------------------
(***************************************************************************)
(* Users and their tokens (users.service.ts, auth.service.ts and the       *)
(* guards): signup, the check and the suggestion of nicknames, login,      *)
(* refresh, and requests that come with an access token.  Each is a chain  *)
(* of awaited statements; the tokens are signed and kept by the clients    *)
(* only, so any token that was issued may be sent at any time.             *)
(*                                                                         *)
(* A definition named D_How is a slip of D that a check has to notice; the *)
(* specification does not use it.                                          *)
(***************************************************************************)
EXTENDS Naturals, FiniteSets, Sequences

CONSTANTS
    Nicknames, Passwords, Codes,
    AffiliationCodes, \* the codes there are affiliations of
    Pool,             \* the nicknames suggestNickname tries, in order
    InitialUsers,     \* the users there are at first, by id
    Requests,         \* one id per HTTP request; also the new user's uuid
    Inbox,            \* Inbox[r]: the calls request r may turn out to be
    AccessTTL, RefreshTTL,
    MaxTime,          \* bound: the clock stops there
    MaxFaults,        \* bound: statements lost to faults
    Null

\* "act" and "view" are requests to the rest of the API, guarded by JwtAuthGuard
\* and by OptionalJwtAuthGuard.
Kinds == {"signup", "available", "suggest", "login", "refresh", "act", "view"}

\* A request and its body; a field its kind does not use has any value.
Calls == [kind : Kinds, nickname : Nicknames, password : Passwords, code : Codes]

UserIds == Requests \cup DOMAIN InitialUsers

User == [nickname : Nicknames, password : Passwords, affiliation : AffiliationCodes]

OK            == "ok"
InternalError == "internal_server_error"

\* The codes a response may have.
Answers == {OK, InternalError, "nickname_already_exists", "invalid_affiliation",
            "taken", "available", "nickname_suggestion_unavailable",
            "invalid_credentials", "invalid_refresh_token", "invalid_access_token"}

ASSUME AccountsAssumption ==
    /\ DOMAIN InitialUsers \cap Requests = {}
    /\ InitialUsers \in [DOMAIN InitialUsers -> User]
    /\ \A i, j \in DOMAIN InitialUsers :
          InitialUsers[i].nickname = InitialUsers[j].nickname => i = j
    /\ Pool \in Seq(Nicknames) /\ Pool # <<>>
    /\ Inbox \in [Requests -> SUBSET Calls]
    /\ AccessTTL \in Nat \ {0} /\ RefreshTTL \in Nat \ {0}
    /\ MaxTime \in Nat /\ MaxFaults \in Nat

ASSUME AccountsNullAssumption ==
    /\ Null \notin Calls /\ Null \notin UserIds
    /\ Null \notin Nicknames /\ Null \notin Answers

VARIABLES
    users,   \* users: the row of each id there is
    tokens,  \* the tokens issued so far
    now,     \* the clock, in seconds as in a token
    call,    \* the call each request is, Null before it arrives
    pc,      \* what each request does next
    who,     \* id of the user a request has found or acts as
    stamp,   \* when a request's token was verified
    signed,  \* when a request's new tokens were signed
    tried,   \* nicknames a suggestion has found taken: index of the first, count
    offered, \* the nickname a suggestion answers
    taken,   \* for the properties: nicknames taken when the request arrived
    answer,  \* code of each request's response, Null before it
    faults   \* statements lost so far

vars == <<users, tokens, now, call, pc, who, stamp, signed, tried, offered,
          taken, answer, faults>>

TakenNicknames == {users[i].nickname : i \in DOMAIN users}

Goto(r, next) == pc' = [pc EXCEPT ![r] = next]

\* The response is sent.
Answer(r, code) ==
    /\ Goto(r, "done")
    /\ answer' = [answer EXCEPT ![r] = code]

\* The request arrives; a suggestion starts anywhere in its pool.
Receive(r) ==
    /\ pc[r] = "idle"
    /\ \E c \in Inbox[r] :
          /\ call' = [call EXCEPT ![r] = c]
          /\ Goto(r, c.kind)
          /\ \E n \in DOMAIN Pool :
                tried' = [tried EXCEPT ![r] = IF c.kind = "suggest" THEN <<n, 0>> ELSE @]
    /\ taken' = [taken EXCEPT ![r] = TakenNicknames]
    /\ UNCHANGED <<users, tokens, now, who, stamp, signed, offered, answer, faults>>

\* A statement of the request is lost.
Fail(r) ==
    /\ pc[r] \in {"signup", "findByCode", "insert", "available", "suggest", "login",
                  "findById"}
    /\ faults < MaxFaults
    /\ faults' = faults + 1
    /\ Answer(r, InternalError)
    /\ UNCHANGED <<users, tokens, now, call, who, stamp, signed, tried, offered, taken>>

-----------------------------------------------------------------------------
(* POST register: UsersService.create *)

\* existsByNickname, which only reads: the nickname may be taken afterwards.
SignupCheck(r) ==
    /\ pc[r] = "signup"
    /\ IF call[r].nickname \in TakenNicknames
       THEN Answer(r, "nickname_already_exists")
       ELSE Goto(r, "findByCode") /\ UNCHANGED answer
    /\ UNCHANGED <<users, tokens, now, call, who, stamp, signed, tried, offered,
                   taken, faults>>

\* findByCode; the password is hashed before the INSERT.
FindAffiliation(r) ==
    /\ pc[r] = "findByCode"
    /\ IF call[r].code \in AffiliationCodes
       THEN Goto(r, "insert") /\ UNCHANGED answer
       ELSE Answer(r, "invalid_affiliation")
    /\ UNCHANGED <<users, tokens, now, call, who, stamp, signed, tried, offered,
                   taken, faults>>

DuplicateKey_NoIndex(r) == FALSE

\* users_nickname_unique has the nickname by now.
DuplicateKey(r) == call[r].nickname \in TakenNicknames

DuplicateAnswer_Untranslated == InternalError

\* isDuplicateKeyError: what the loser of a race is told.
DuplicateAnswer == "nickname_already_exists"

\* The INSERT and its commit, whose acknowledgement may be lost.
SignupInsert(r) ==
    /\ pc[r] = "insert"
    /\ IF DuplicateKey(r)
       THEN Answer(r, DuplicateAnswer) /\ UNCHANGED <<users, faults>>
       ELSE /\ users' = [i \in DOMAIN users \cup {r} |->
                  IF i = r THEN [nickname |-> call[r].nickname,
                                 password |-> call[r].password,
                                 affiliation |-> call[r].code]
                  ELSE users[i]]
            /\ \/ Answer(r, OK) /\ UNCHANGED faults
               \/ /\ faults < MaxFaults /\ faults' = faults + 1
                  /\ Answer(r, InternalError)
    /\ UNCHANGED <<tokens, now, call, who, stamp, signed, tried, offered, taken>>

-----------------------------------------------------------------------------
(* Nicknames *)

CheckAvailability(r) ==
    /\ pc[r] = "available"
    /\ Answer(r, IF call[r].nickname \in TakenNicknames THEN "taken" ELSE "available")
    /\ UNCHANGED <<users, tokens, now, call, who, stamp, signed, tried, offered,
                   taken, faults>>

IsLast_OneEarly(count) == count + 2 >= Len(Pool)

IsLast_Never(count) == count > Len(Pool)

\* The loop has one more nickname to try.
IsLast(count) == count + 1 = Len(Pool)

\* One turn of suggestNickname's loop, from the index it started at.
Suggest(r) ==
    /\ pc[r] = "suggest"
    /\ LET start    == tried[r][1]
           count    == tried[r][2]
           nickname == Pool[1 + ((start - 1 + count) % Len(Pool))]
       IN  IF nickname \notin TakenNicknames
           THEN /\ Answer(r, OK)
                /\ offered' = [offered EXCEPT ![r] = nickname]
                /\ UNCHANGED tried
           ELSE /\ UNCHANGED offered
                /\ IF IsLast(count)
                   THEN Answer(r, "nickname_suggestion_unavailable") /\ UNCHANGED tried
                   ELSE /\ tried' = [tried EXCEPT ![r] = <<start, count + 1>>]
                        /\ UNCHANGED <<pc, answer>>
    /\ UNCHANGED <<users, tokens, now, call, who, stamp, signed, taken, faults>>

-----------------------------------------------------------------------------
(* Tokens *)

\* signToken: each type has a secret and a lifetime of its own.
Token(i, type) ==
    [sub |-> i, type |-> type, secret |-> type,
     exp |-> now + (IF type = "access" THEN AccessTTL ELSE RefreshTTL)]

Accepts_AnyToken(token, type) == now < token.exp

\* verifyToken and the comparison of the type.
Accepts(token, type) ==
    token.secret = type /\ now < token.exp /\ token.type = type

\* login: findByNickname; nobody has the nickname, or the password is compared.
LoginFind(r) ==
    /\ pc[r] = "login"
    /\ IF call[r].nickname \notin TakenNicknames
       THEN Answer(r, "invalid_credentials") /\ UNCHANGED who
       ELSE \E i \in DOMAIN users :
               /\ users[i].nickname = call[r].nickname
               /\ who' = [who EXCEPT ![r] = i]
               /\ Goto(r, "verifyPassword") /\ UNCHANGED answer
    /\ UNCHANGED <<users, tokens, now, call, stamp, signed, tried, offered, taken,
                   faults>>

\* verifyPassword and issueTokens.
LoginVerify(r) ==
    /\ pc[r] = "verifyPassword"
    /\ IF users[who[r]].password # call[r].password
       THEN Answer(r, "invalid_credentials") /\ UNCHANGED <<tokens, signed>>
       ELSE /\ tokens' = tokens \cup {Token(who[r], "access"), Token(who[r], "refresh")}
            /\ signed' = [signed EXCEPT ![r] = now]
            /\ Answer(r, OK)
    /\ UNCHANGED <<users, now, call, who, stamp, tried, offered, taken, faults>>

\* A token of any kind, or none that is any good, is sent where one of the given
\* type is expected; findById follows when it is accepted.
Present(r, type, refusal) ==
    \/ Answer(r, refusal) /\ UNCHANGED <<who, stamp>>
    \/ \E token \in tokens :
          /\ Accepts(token, type)
          /\ who' = [who EXCEPT ![r] = token.sub]
          /\ stamp' = [stamp EXCEPT ![r] = now]
          /\ Goto(r, "findById") /\ UNCHANGED answer

\* refresh up to findById, with the cookie as the token.
RefreshVerify(r) ==
    /\ pc[r] = "refresh"
    /\ Present(r, "refresh", "invalid_refresh_token")
    /\ UNCHANGED <<users, tokens, now, call, signed, tried, offered, taken, faults>>

\* A guard, and the gateway's authenticate, up to findById.  The optional guard
\* lets a request without an authorization header pass as nobody.
GuardVerify(r) ==
    /\ pc[r] \in {"act", "view"}
    /\ \/ Present(r, "access", "invalid_access_token")
       \/ /\ pc[r] = "view"
          /\ Answer(r, OK)
          /\ UNCHANGED <<who, stamp>>
    /\ UNCHANGED <<users, tokens, now, call, signed, tried, offered, taken, faults>>

\* The user exists, since none is ever deleted.  refresh signs an access token;
\* the guard lets the request pass as this user.
FindById(r) ==
    /\ pc[r] = "findById"
    /\ IF call[r].kind = "refresh"
       THEN /\ tokens' = tokens \cup {Token(who[r], "access")}
            /\ signed' = [signed EXCEPT ![r] = now]
       ELSE UNCHANGED <<tokens, signed>>
    /\ Answer(r, OK)
    /\ UNCHANGED <<users, now, call, who, stamp, tried, offered, taken, faults>>

-----------------------------------------------------------------------------

Init ==
    /\ users = InitialUsers
    /\ tokens = {}
    /\ now = 0
    /\ call = [r \in Requests |-> Null]
    /\ pc = [r \in Requests |-> "idle"]
    /\ who = [r \in Requests |-> Null]
    /\ stamp = [r \in Requests |-> 0]
    /\ signed = [r \in Requests |-> 0]
    /\ tried = [r \in Requests |-> <<0, 0>>]
    /\ offered = [r \in Requests |-> Null]
    /\ taken = [r \in Requests |-> {}]
    /\ answer = [r \in Requests |-> Null]
    /\ faults = 0

Tick ==
    /\ now < MaxTime
    /\ now' = now + 1
    /\ UNCHANGED <<users, tokens, call, pc, who, stamp, signed, tried, offered,
                   taken, answer, faults>>

\* What the API does for a request that has arrived.
Step(r) ==
    \/ SignupCheck(r) \/ FindAffiliation(r) \/ SignupInsert(r)
    \/ CheckAvailability(r) \/ Suggest(r)
    \/ LoginFind(r) \/ LoginVerify(r)
    \/ RefreshVerify(r) \/ GuardVerify(r) \/ FindById(r)

Next == (\E r \in Requests : Receive(r) \/ Step(r) \/ Fail(r)) \/ Tick

Spec == Init /\ [][Next]_vars

-----------------------------------------------------------------------------
(* Properties *)

PcValues ==
    Kinds \cup {"idle", "findByCode", "insert", "verifyPassword", "findById", "done"}

TokenTypes == {"access", "refresh"}

\* Every variable has its type: users keep to the columns of their table and a
\* suggestion stops within its pool (users.service.ts:72).
TypeOK ==
    /\ users \in [DOMAIN users -> User]
    /\ DOMAIN InitialUsers \subseteq DOMAIN users /\ DOMAIN users \subseteq UserIds
    /\ \A token \in tokens :
          /\ token.sub \in DOMAIN users
          /\ token.type \in TokenTypes /\ token.secret \in TokenTypes
          /\ token.exp \in Nat
    /\ now \in Nat
    /\ call \in [Requests -> Calls \cup {Null}]
    /\ pc \in [Requests -> PcValues]
    /\ \A r \in Requests : pc[r] # "idle" => call[r] \in Calls
    /\ who \in [Requests -> DOMAIN users \cup {Null}]
    /\ stamp \in [Requests -> Nat] /\ signed \in [Requests -> Nat]
    /\ tried \in [Requests -> (0 .. Len(Pool)) \X (0 .. Len(Pool))]
    /\ \A r \in Requests : pc[r] = "suggest" => tried[r][2] < Len(Pool)
    /\ offered \in [Requests -> Nicknames \cup {Null}]
    /\ taken \in [Requests -> SUBSET Nicknames]
    /\ answer \in [Requests -> Answers \cup {Null}]
    /\ faults \in 0 .. MaxFaults

\* No two users have one nickname, however many signups have found it free at
\* the same time: the unique index settles the race (users.service.ts:51).
UniqueNicknames ==
    \A i, j \in DOMAIN users : users[i].nickname = users[j].nickname => i = j

\* What a signup is told is what became of it.  A success has a user with that
\* nickname and affiliation; a refusal has none, and a nickname that is said to
\* be taken is; only a lost statement is an internal error (users.service.ts:46).
SignupAnswersMatch ==
    \A r \in Requests :
        answer[r] # Null /\ call[r].kind = "signup" =>
            /\ answer[r] = OK =>
                  /\ r \in DOMAIN users
                  /\ users[r].nickname = call[r].nickname
                  /\ users[r].affiliation = call[r].code
            /\ answer[r] \in {"nickname_already_exists", "invalid_affiliation"} =>
                  r \notin DOMAIN users
            /\ answer[r] = "nickname_already_exists" => call[r].nickname \in TakenNicknames
            /\ answer[r] = InternalError => faults > 0

\* A suggested nickname was free when the suggestion was asked for, and only a
\* pool that is all taken by the end has none to offer, whatever signups have
\* taken while the loop went round (users.service.ts:72).
SuggestionHonest ==
    \A r \in Requests :
        /\ offered[r] # Null => offered[r] \notin taken[r]
        /\ answer[r] = "nickname_suggestion_unavailable" =>
              {Pool[n] : n \in DOMAIN Pool} \subseteq TakenNicknames

\* A login of user i with the right password, whose tokens of lifetime ttl were
\* good at time t.
LoggedIn(i, t, ttl) ==
    \E l \in Requests :
        /\ answer[l] = OK /\ call[l].kind = "login" /\ who[l] = i
        /\ call[l].nickname = users[i].nickname /\ call[l].password = users[i].password
        /\ signed[l] <= t /\ t < signed[l] + ttl

\* The same of a refresh, whose access token was good at time t.
Refreshed(i, t) ==
    \E f \in Requests :
        /\ answer[f] = OK /\ call[f].kind = "refresh" /\ who[f] = i
        /\ signed[f] <= t /\ t < signed[f] + AccessTTL

\* Nobody acts as a user for longer than a login of that user allows: a request
\* comes within the lifetime of an access token of a login or a refresh, and a
\* refresh within that of the refresh token of a login.  A refresh token is no
\* access token, nor an access token a refresh token, so that refreshing does not
\* prolong itself (auth.service.ts:53, 77, 97).
SessionNeedsLogin ==
    \A r \in Requests :
        who[r] # Null /\ answer[r] = OK =>
            /\ call[r].kind \in {"act", "view"} =>
                  LoggedIn(who[r], stamp[r], AccessTTL) \/ Refreshed(who[r], stamp[r])
            /\ call[r].kind = "refresh" => LoggedIn(who[r], stamp[r], RefreshTTL)

=============================================================================
