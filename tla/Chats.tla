-------------------------------- MODULE Chats --------------------------------
(***************************************************************************)
(* The chat of vote events: sockets that join the room of an event, the    *)
(* idempotent send with its broadcast (chats.gateway.ts, chats.service.ts  *)
(* and chat-messages.repository.ts), and the history a client reads page   *)
(* by page over HTTP.                                                      *)
(*                                                                         *)
(* Rooms and sockets live in the memory of one process, as v1 of the       *)
(* contract has it; messages live in the database.  A send is a chain of   *)
(* awaited statements, so sends and page reads interleave.  Its INSERT is  *)
(* committed by itself: whoever waits for its unique key goes on after the *)
(* commit, which is one step here.                                         *)
(*                                                                         *)
(* A definition named D_How is a slip of D that a check has to notice; the *)
(* specification does not use it.                                          *)
(***************************************************************************)
EXTENDS Integers, FiniteSets, Sequences

CONSTANTS
    Users, Events, Sockets, ClientIds,
    Existing,    \* the events of vote_events; none is ever deleted
    UserOf,      \* UserOf[s]: the user whose token opened socket s
    Sends,       \* one id per chat:message:send; also the message's uuid
    Outbox,      \* Outbox[r]: the commands send r may turn out to be
    Visits,      \* Visits[s]: the events whose history the client of s may read
    PageLimit,   \* limit of the history queries
    MaxTime,     \* bound: the clock stops there
    MaxFaults,   \* bound: faults and broken connections
    Null

\* What a client sends: content is "none" when a field is missing and "blank"
\* when it is empty, too long, or an id is not a uuid.
Commands == [socket : Sockets, event : Events, clientMessageId : ClientIds,
             content : {"text", "blank", "none"}]

\* A row of vote_event_chat_messages.
Message == [user : Users, event : Events, clientMessageId : ClientIds,
            createdAt : Nat]

ASSUME ChatsAssumption ==
    /\ Existing \subseteq Events
    /\ UserOf \in [Sockets -> Users]
    /\ Sends \subseteq Nat \ {0} /\ IsFiniteSet(Sends)
    /\ Outbox \in [Sends -> SUBSET Commands]
    /\ Visits \in [Sockets -> SUBSET Events]
    /\ PageLimit \in Nat \ {0} /\ MaxTime \in Nat /\ MaxFaults \in Nat
    /\ Null \notin Message /\ Null \notin Commands

VARIABLES
    messages,  \* vote_event_chat_messages, by the send that inserted the row
    now,       \* the clock of the API, in seconds like the column created_at
    status,    \* each socket: "new", "open" or "closed"
    rooms,     \* the sockets in the room of each event
    outgoing,  \* chat:message:new packets on their way to each socket
    received,  \* chat:message:new packets each client has got
    command,   \* what each send asks for, Null before it arrives
    pc,        \* what each send does next
    createdAt, \* the createdAt of the message a send inserts
    ack,       \* code of each send's acknowledgement, "" before it
    acked,     \* id of the message a successful acknowledgement carries, or 0
    walk,      \* the reading of the history by each socket's client
    faults     \* faults and broken connections so far

sendVars   == <<command, pc, createdAt, ack, acked>>
socketVars == <<status, rooms, outgoing, received>>
vars == <<messages, now, status, rooms, outgoing, received, command, pc,
          createdAt, ack, acked, walk, faults>>

OK            == "ok"
InternalError == "internal_server_error"

Stored == {i \in Sends : messages[i] # Null}

MessagesOf(e) == {i \in Stored : messages[i].event = e}

-----------------------------------------------------------------------------
(* Sockets and rooms *)

\* authenticate found a valid access token.
Connect(s) ==
    /\ status[s] = "new"
    /\ status' = [status EXCEPT ![s] = "open"]
    /\ UNCHANGED <<messages, now, rooms, outgoing, received, sendVars, walk, faults>>

\* chat:join, which does not ask whether the event exists.  A body without an
\* event is refused with validation_error and changes nothing.
handleJoin(s) ==
    /\ status[s] = "open"
    /\ \E e \in Events :
          /\ s \notin rooms[e]
          /\ rooms' = [rooms EXCEPT ![e] = @ \cup {s}]
    /\ UNCHANGED <<messages, now, status, outgoing, received, sendVars, walk, faults>>

\* The sockets of gone leave their rooms and lose what is on its way to them.
Close(gone) ==
    /\ status' = [s \in Sockets |-> IF s \in gone THEN "closed" ELSE status[s]]
    /\ rooms' = [e \in Events |-> rooms[e] \ gone]
    /\ outgoing' = [s \in Sockets |-> IF s \in gone THEN <<>> ELSE outgoing[s]]
    /\ faults < MaxFaults
    /\ faults' = faults + 1
    /\ UNCHANGED received

\* A connection breaks.  The sends that came over it go on.
Disconnect(s) ==
    /\ status[s] = "open"
    /\ Close({s})
    /\ UNCHANGED <<messages, now, sendVars, walk>>

\* The network hands the next packet to the client.
Deliver(s) ==
    /\ outgoing[s] # <<>>
    /\ received' = [received EXCEPT ![s] = Append(@, Head(outgoing[s]))]
    /\ outgoing' = [outgoing EXCEPT ![s] = Tail(@)]
    /\ UNCHANGED <<messages, now, status, rooms, sendVars, walk, faults>>

-----------------------------------------------------------------------------
(* chat:message:send *)

Acknowledge_NoDefault(r, code, i) ==
    /\ pc' = [pc EXCEPT ![r] = IF code = InternalError THEN "failed" ELSE "done"]
    /\ ack' = [ack EXCEPT ![r] = IF code = InternalError THEN Null ELSE code]
    /\ acked' = [acked EXCEPT ![r] = i]

\* The handler returns its acknowledgement.
Acknowledge(r, code, i) ==
    /\ pc' = [pc EXCEPT ![r] = IF code = InternalError THEN "failed" ELSE "done"]
    /\ ack' = [ack EXCEPT ![r] = code]
    /\ acked' = [acked EXCEPT ![r] = i]

\* handleSend up to its first await: the checks of the fields and of the message.
Receive(r) ==
    /\ pc[r] = "idle"
    /\ \E c \in Outbox[r] :
          /\ status[c.socket] = "open"
          /\ command' = [command EXCEPT ![r] = c]
          /\ IF c.content = "none" THEN Acknowledge(r, "validation_error", 0)
             ELSE IF c.content = "blank" THEN Acknowledge(r, "invalid_chat_message", 0)
             ELSE /\ pc' = [pc EXCEPT ![r] = "find"]
                  /\ UNCHANGED <<ack, acked>>
    /\ UNCHANGED <<messages, now, socketVars, createdAt, walk, faults>>

User(r) == UserOf[command[r].socket]

\* What the room's sockets are sent for message i.
Emit_ToOthers(i) ==
    outgoing' = [s \in Sockets |->
        IF s \in rooms[messages[i].event] \ {command[i].socket}
        THEN Append(outgoing[s], i) ELSE outgoing[s]]

Emit(i) ==
    outgoing' = [s \in Sockets |->
        IF s \in rooms[messages[i].event] THEN Append(outgoing[s], i)
        ELSE outgoing[s]]

SameClientId_AnyUser(r) ==
    {i \in Stored : messages[i].clientMessageId = command[r].clientMessageId}

\* The message the unique index has under the send's user and clientMessageId.
SameClientId(r) ==
    {i \in Stored : /\ messages[i].user = User(r)
                    /\ messages[i].clientMessageId = command[r].clientMessageId}

FindDuplicate_Rebroadcast(r) ==
    /\ pc[r] = "find"
    /\ IF command[r].event \notin Existing
       THEN Acknowledge(r, "vote_event_not_found", 0) /\ UNCHANGED <<createdAt, outgoing>>
       ELSE \/ \E i \in SameClientId(r) :
                  Acknowledge(r, OK, i) /\ Emit(i) /\ UNCHANGED createdAt
            \/ /\ SameClientId(r) = {}
               /\ pc' = [pc EXCEPT ![r] = "insert"]
               /\ createdAt' = [createdAt EXCEPT ![r] = now]
               /\ UNCHANGED <<ack, acked, outgoing>>
    /\ UNCHANGED <<messages, now, status, rooms, received, command, walk, faults>>

\* The reads of the event and of a message with the same clientMessageId (one
\* step: events do not change).  A duplicate is acknowledged and not broadcast.
FindDuplicate(r) ==
    /\ pc[r] = "find"
    /\ IF command[r].event \notin Existing
       THEN Acknowledge(r, "vote_event_not_found", 0) /\ UNCHANGED createdAt
       ELSE \/ \E i \in SameClientId(r) : Acknowledge(r, OK, i) /\ UNCHANGED createdAt
            \/ /\ SameClientId(r) = {}
               /\ pc' = [pc EXCEPT ![r] = "insert"]
               /\ createdAt' = [createdAt EXCEPT ![r] = now]
               /\ UNCHANGED <<ack, acked>>
    /\ UNCHANGED <<messages, now, socketVars, command, walk, faults>>

DuplicateKey_NoIndex(r) == FALSE

\* The unique index has the key by now.
DuplicateKey(r) == SameClientId(r) # {}

\* create: the INSERT and its commit, whose answer may be lost.  A duplicate key
\* is an error that nothing translates.
Insert(r) ==
    /\ pc[r] = "insert"
    /\ IF DuplicateKey(r)
       THEN Acknowledge(r, InternalError, 0) /\ UNCHANGED <<messages, faults>>
       ELSE /\ messages' = [messages EXCEPT ![r] =
                  [user |-> User(r), event |-> command[r].event,
                   clientMessageId |-> command[r].clientMessageId,
                   createdAt |-> createdAt[r]]]
            /\ \/ /\ pc' = [pc EXCEPT ![r] = "publish"]
                  /\ UNCHANGED <<ack, acked, faults>>
               \/ /\ faults < MaxFaults
                  /\ faults' = faults + 1
                  /\ Acknowledge(r, InternalError, 0)
    /\ UNCHANGED <<now, socketVars, command, createdAt, walk>>

\* The row is read back; the room is sent the message and the sender the
\* acknowledgement without an await in between.
Publish(r) ==
    /\ pc[r] = "publish"
    /\ Emit(r)
    /\ Acknowledge(r, OK, r)
    /\ UNCHANGED <<messages, now, status, rooms, received, command, createdAt,
                   walk, faults>>

\* A statement of the send is lost.
Fail(r) ==
    /\ pc[r] \in {"find", "insert", "publish"}
    /\ faults < MaxFaults
    /\ faults' = faults + 1
    /\ Acknowledge(r, InternalError, 0)
    /\ UNCHANGED <<messages, now, socketVars, command, createdAt, walk>>

-----------------------------------------------------------------------------
(* The history: GET chat-messages, from the newest page to the oldest *)

\* No walk yet.  joined, known and pages are for the properties: whether the
\* client had joined the room before it asked, the messages stored when the
\* first page was read, and the pages read so far.
NoWalk == [at |-> "idle", event |-> Null, hasNext |-> FALSE, pages |-> <<>>,
           totalCount |-> 0, joined |-> FALSE, known |-> {}]

\* Message i comes before message j in the order of created_at and id.
Before(i, j) ==
    \/ messages[i].createdAt < messages[j].createdAt
    \/ messages[i].createdAt = messages[j].createdAt /\ i < j

\* The page that ends with the newest rows of candidates.
NewestOf(candidates) ==
    {i \in candidates :
        Cardinality({j \in candidates : Before(i, j)}) < PageLimit}

\* encodeCursor: the oldest message of the last page read.
Cursor(pages) ==
    LET page == pages[Len(pages)]
    IN  CHOOSE i \in page : \A j \in page \ {i} : Before(i, j)

Candidates_BySecond(e, pages) ==
    IF pages = <<>> THEN MessagesOf(e)
    ELSE {i \in MessagesOf(e) :
             messages[i].createdAt < messages[Cursor(pages)].createdAt}

Candidates_FromCursor(e, pages) ==
    IF pages = <<>> THEN MessagesOf(e)
    ELSE {i \in MessagesOf(e) : ~Before(Cursor(pages), i)}

\* The where clause of the page's query.
Candidates(e, pages) ==
    IF pages = <<>> THEN MessagesOf(e)
    ELSE {i \in MessagesOf(e) : Before(i, Cursor(pages))}

\* The client of socket s asks for the newest page, or for the next one.
AskPage(s) ==
    /\ \/ /\ walk[s].at = "idle"
          /\ \E e \in Visits[s] :
                walk' = [walk EXCEPT ![s].at = IF e \in Existing THEN "page" ELSE "none",
                                     ![s].event = e, ![s].joined = s \in rooms[e]]
       \/ /\ walk[s].at = "answered" /\ walk[s].hasNext
          /\ walk' = [walk EXCEPT ![s].at = "page"]
    /\ UNCHANGED <<messages, now, socketVars, sendVars, faults>>

\* The first statement of list: the page and whether there is another.
ReadPage(s) ==
    /\ walk[s].at = "page"
    /\ LET candidates == Candidates(walk[s].event, walk[s].pages)
       IN  walk' = [walk EXCEPT
               ![s].at = "count",
               ![s].pages = Append(@, NewestOf(candidates)),
               ![s].hasNext = Cardinality(candidates) > PageLimit,
               ![s].known = IF walk[s].pages = <<>> THEN candidates ELSE @]
    /\ UNCHANGED <<messages, now, socketVars, sendVars, faults>>

ReadCount_Candidates(s) ==
    /\ walk[s].at = "count"
    /\ walk' = [walk EXCEPT ![s].at = "answered",
           ![s].totalCount = Cardinality(Candidates(walk[s].event, walk[s].pages))]
    /\ UNCHANGED <<messages, now, socketVars, sendVars, faults>>

\* The second statement of list; then the answer.
ReadCount(s) ==
    /\ walk[s].at = "count"
    /\ walk' = [walk EXCEPT ![s].at = "answered",
                            ![s].totalCount = Cardinality(MessagesOf(walk[s].event))]
    /\ UNCHANGED <<messages, now, socketVars, sendVars, faults>>

-----------------------------------------------------------------------------

\* The process restarts: every socket is closed and what was under way is lost.
Restart ==
    /\ Close({s \in Sockets : status[s] = "open"})
    /\ pc' = [r \in Sends |-> IF pc[r] \in {"find", "insert", "publish"}
                              THEN "failed" ELSE pc[r]]
    /\ walk' = [s \in Sockets |-> IF walk[s].at \in {"page", "count"}
                                  THEN [walk[s] EXCEPT !.at = "none"] ELSE walk[s]]
    /\ UNCHANGED <<messages, now, command, createdAt, ack, acked>>

Tick ==
    /\ now < MaxTime
    /\ now' = now + 1
    /\ UNCHANGED <<messages, socketVars, sendVars, walk, faults>>

Init ==
    /\ messages = [i \in Sends |-> Null]
    /\ now = 0
    /\ status = [s \in Sockets |-> "new"]
    /\ rooms = [e \in Events |-> {}]
    /\ outgoing = [s \in Sockets |-> <<>>]
    /\ received = [s \in Sockets |-> <<>>]
    /\ command = [r \in Sends |-> Null]
    /\ pc = [r \in Sends |-> "idle"]
    /\ createdAt = [r \in Sends |-> 0]
    /\ ack = [r \in Sends |-> ""]
    /\ acked = [r \in Sends |-> 0]
    /\ walk = [s \in Sockets |-> NoWalk]
    /\ faults = 0

\* What the process does for a send that arrived and for the history queries.
Step(r) == FindDuplicate(r) \/ Insert(r) \/ Publish(r)

Read(s) == ReadPage(s) \/ ReadCount(s)

Next ==
    \/ \E r \in Sends : Receive(r) \/ Step(r) \/ Fail(r)
    \/ \E s \in Sockets :
          Connect(s) \/ handleJoin(s) \/ Disconnect(s) \/ Deliver(s)
            \/ AskPage(s) \/ Read(s)
    \/ Restart
    \/ Tick

Spec == Init /\ [][Next]_vars

\* Promises go on, and a packet arrives unless its connection breaks.
FairSpec ==
    /\ Spec
    /\ \A r \in Sends : WF_vars(Step(r))
    /\ \A s \in Sockets : WF_vars(Deliver(s)) /\ WF_vars(Read(s))

=============================================================================
