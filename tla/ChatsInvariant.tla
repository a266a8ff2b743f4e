---------------------------- MODULE ChatsInvariant ----------------------------
(***************************************************************************)
(* The inductive invariant behind the safety properties of Chats.          *)
(***************************************************************************)
EXTENDS ChatsProperties

\* A send that has arrived has a command; its row is stored by its INSERT, says
\* what the command says, and is published and acknowledged after that.
SendOK(r) ==
    /\ pc[r] # "idle" => command[r] \in Commands
    /\ ack[r] # "" => pc[r] \in {"done", "failed"}
    /\ pc[r] = "publish" => r \in Stored
    /\ r \in Stored =>
          /\ pc[r] \in {"publish", "done", "failed"}
          /\ messages[r].user = User(r)
          /\ messages[r].event = command[r].event
          /\ messages[r].clientMessageId = command[r].clientMessageId

\* The packets sent to socket s that have not been lost.
Sent(s) == received[s] \o outgoing[s]

SentTo(s, i) == \E n \in DOMAIN Sent(s) : Sent(s)[n] = i

\* A message is sent to the room by the step that ends its send.
SentWhenDone(s) == \A n \in DOMAIN Sent(s) : pc[Sent(s)[n]] = "done"

\* The pages a client has read, and what it knew of, are of the event it reads;
\* there is a next page only after a full one.
WalkOfEvent(s) ==
    LET w == walk[s]
    IN  /\ w.at = "idle" => w = NoWalk
        /\ w.at \in {"count", "answered"} => w.pages # <<>>
        /\ w.at = "page" => (w.hasNext <=> w.pages # <<>>)
        /\ w.hasNext => w.pages # <<>> /\ w.pages[Len(w.pages)] # {}
        /\ PagesRead(s) \subseteq MessagesOf(w.event)
        /\ w.known \subseteq MessagesOf(w.event)

\* What was stored when the first page was read is in the pages read, or is
\* older than the cursor and in pages to come.
KnownReadOrToCome(s) ==
    \A i \in walk[s].known :
        \/ i \in PagesRead(s)
        \/ walk[s].hasNext /\ Before(i, Cursor(walk[s].pages))

\* A client that joined before it asked is in the room while its connection
\* lasts, and gets what it did not know of when it read the first page.
JoinedGetsTheRest(s) ==
    LET w == walk[s]
    IN  (w.joined /\ status[s] = "open") =>
            /\ s \in rooms[w.event]
            /\ w.pages # <<>> => \A i \in MessagesOf(w.event) :
                  i \in w.known \/ SentTo(s, i) \/ pc[i] \in {"publish", "failed"}

\* Only open sockets are in rooms, so whoever has joined one has connected.
RoomsAreOpen(s) ==
    /\ \A e \in Events : s \in rooms[e] => status[s] = "open"
    /\ walk[s].joined => walk[s].event \in Events /\ status[s] # "new"

WalkOK(s) == RoomsAreOpen(s) /\ WalkOfEvent(s) /\ KnownReadOrToCome(s) /\ JoinedGetsTheRest(s)

IInv ==
    /\ TypeOK
    /\ \A r \in Sends : SendOK(r)
    /\ OneMessagePerClientId
    /\ AckNamesOwnMessage
    /\ \A s \in Sockets : SentWhenDone(s)
    /\ SentOnce
    /\ \A s \in Sockets : WalkOK(s)
    /\ PagesInOrder
    /\ TotalCountCoversPages

=============================================================================
