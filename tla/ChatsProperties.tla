--------------------------- MODULE ChatsProperties ---------------------------
(* What senders and readers of a chat may rely on. *)
EXTENDS Chats

Walk == [at : {"idle", "page", "count", "answered", "none"},
         event : Events \cup {Null}, hasNext : BOOLEAN,
         pages : Seq(SUBSET Sends), totalCount : Nat, joined : BOOLEAN,
         known : SUBSET Sends]

\* The variables hold what they should.
TypeOK ==
    /\ messages \in [Sends -> Message \cup {Null}]
    /\ now \in 0 .. MaxTime
    /\ status \in [Sockets -> {"new", "open", "closed"}]
    /\ rooms \in [Events -> SUBSET Sockets]
    /\ outgoing \in [Sockets -> Seq(Sends)]
    /\ received \in [Sockets -> Seq(Sends)]
    /\ command \in [Sends -> Commands \cup {Null}]
    /\ pc \in [Sends -> {"idle", "find", "insert", "publish", "done", "failed"}]
    /\ createdAt \in [Sends -> Nat]
    /\ ack \in [Sends -> {"", OK, InternalError, "validation_error",
                          "invalid_chat_message", "vote_event_not_found"}]
    /\ acked \in [Sends -> Sends \cup {0}]
    /\ walk \in [Sockets -> Walk]
    /\ faults \in 0 .. MaxFaults

\* However often a message is sent, and however the sends interleave and fail,
\* it is stored once per user and clientMessageId.
OneMessagePerClientId ==
    \A i, j \in Stored :
        (/\ messages[i].user = messages[j].user
         /\ messages[i].clientMessageId = messages[j].clientMessageId) => i = j

\* A success carries a stored message that the sender sent under the
\* clientMessageId of the command, whether it was new or a duplicate.
AckNamesOwnMessage ==
    \A r \in Sends : ack[r] = OK =>
        /\ acked[r] \in Stored
        /\ messages[acked[r]].user = User(r)
        /\ messages[acked[r]].clientMessageId = command[r].clientMessageId

\* No client is sent a message twice: a resend is not broadcast again.
SentOnce ==
    \A s \in Sockets :
        LET all == received[s] \o outgoing[s]
        IN  \A m, n \in DOMAIN all : all[m] = all[n] => m = n

PagesRead(s) == UNION {walk[s].pages[n] : n \in DOMAIN walk[s].pages}

\* A page of the history is older than the pages read before it, messages of
\* one second included, so none is shown twice.
PagesInOrder ==
    \A s \in Sockets : \A m, n \in DOMAIN walk[s].pages : m < n =>
        \A i \in walk[s].pages[m], j \in walk[s].pages[n] : Before(j, i)

ReadToTheEnd(s) == walk[s].at = "answered" /\ ~walk[s].hasNext

\* Who reads the history to its end has seen every message that was stored when
\* the first page was read, whatever is stored between the pages.
HistoryComplete ==
    \A s \in Sockets : ReadToTheEnd(s) => walk[s].known \subseteq PagesRead(s)

\* Who joins the room, then reads the history to its end, misses no message
\* while the connection lasts: each is in the pages or was sent to the socket,
\* or its send is still about to do that, or was lost to a fault.
JoinedReaderMissesNothing ==
    \A s \in Sockets :
        (ReadToTheEnd(s) /\ walk[s].joined /\ status[s] = "open") =>
            \A i \in MessagesOf(walk[s].event) :
                \/ i \in PagesRead(s)
                \/ \E n \in DOMAIN received[s] : received[s][n] = i
                \/ \E n \in DOMAIN outgoing[s] : outgoing[s][n] = i
                \/ pc[i] \in {"publish", "failed"}

\* totalCount counts the whole room, whatever the cursor: it is never smaller
\* than what the client has read so far.
TotalCountCoversPages ==
    \A s \in Sockets : walk[s].at = "answered" =>
        walk[s].totalCount >= Cardinality(PagesRead(s))

\* A message that is stored while a socket is in its room reaches the client,
\* unless a fault hits the send or the connection; that the sender's own
\* connection breaks does not matter to the others.
MessageReachesRoom ==
    \A r \in Sends, s \in Sockets :
        (pc[r] = "publish" /\ s \in rooms[messages[r].event])
            ~> (\/ \E n \in DOMAIN received[s] : received[s][n] = r
                \/ status[s] = "closed" \/ pc[r] = "failed")

\* A user who sends a message again gets the stored one in a success ("the
\* existing message is returned as a success ack").  A resend that overtakes the
\* first send's INSERT fails on the unique index instead.
ResendIsAcknowledged ==
    \A r \in Sends :
        (ack[r] # "" /\ faults = 0 /\ command[r].content = "text"
           /\ command[r].event \in Existing) => ack[r] = OK

=============================================================================
