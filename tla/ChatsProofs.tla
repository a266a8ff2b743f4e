----------------------------- MODULE ChatsProofs -----------------------------
(***************************************************************************)
(* The invariant IInv of Chats is inductive, for any users, events,        *)
(* sockets, sends and page limit; the safety properties follow from it.    *)
(***************************************************************************)
EXTENDS ChatsInvariant, BettingPayoutProofs

Codes == {OK, InternalError, "validation_error", "invalid_chat_message",
          "vote_event_not_found"}

PcValues == {"idle", "find", "insert", "publish", "done", "failed"}

\* The bounds of the clock and of the faults.
LEMMA Bounds ==
    /\ MaxTime \in Nat /\ MaxFaults \in Nat /\ PageLimit \in Nat \ {0}
    /\ \A t \in 0 .. MaxTime : t \in Nat
    /\ \A t \in 0 .. MaxTime : t < MaxTime => t + 1 \in 0 .. MaxTime
    /\ \A n \in 0 .. MaxFaults : n < MaxFaults => n + 1 \in 0 .. MaxFaults
BY ChatsAssumption

\* What a step that acknowledges leaves behind.
LEMMA AcknowledgeType ==
    ASSUME TypeOK, NEW r \in Sends, NEW code \in Codes, NEW i \in Sends \cup {0},
           Acknowledge(r, code, i)
    PROVE  /\ pc' \in [Sends -> PcValues] /\ ack' \in [Sends -> Codes \cup {""}]
           /\ acked' \in [Sends -> Sends \cup {0}]
           /\ pc'[r] = (IF code = InternalError THEN "failed" ELSE "done")
           /\ ack'[r] = code /\ acked'[r] = i
           /\ \A t \in Sends \ {r} : /\ pc'[t] = pc[t] /\ ack'[t] = ack[t]
                                     /\ acked'[t] = acked[t]
BY DEF TypeOK, Acknowledge, Codes, PcValues

LEMMA TypeInit == Init => TypeOK
<1> SUFFICES ASSUME Init PROVE TypeOK
  OBVIOUS
<1>1. <<>> \in Seq(Sends) /\ <<>> \in Seq(SUBSET Sends)
  OBVIOUS
<1>2. NoWalk \in Walk
  BY <1>1 DEF NoWalk, Walk
<1>3. 0 \in 0 .. MaxTime /\ 0 \in 0 .. MaxFaults
  BY Bounds
<1> QED
  BY <1>1, <1>2, <1>3 DEF Init, TypeOK

LEMMA TypeConnection ==
    ASSUME TypeOK, NEW s \in Sockets,
           \/ Connect(s) \/ handleJoin(s) \/ Disconnect(s) \/ Deliver(s)
    PROVE  TypeOK'
<1>1. CASE Connect(s)
  BY <1>1 DEF Connect, TypeOK, sendVars
<1>2. CASE handleJoin(s)
  <2>1. rooms' \in [Events -> SUBSET Sockets]
    <3>1. PICK e \in Events : rooms' = [rooms EXCEPT ![e] = @ \cup {s}]
      BY <1>2 DEF handleJoin
    <3>2. rooms \in [Events -> SUBSET Sockets] /\ rooms[e] \cup {s} \in SUBSET Sockets
      BY DEF TypeOK
    <3> QED
      BY <3>1, <3>2
  <2> QED
    BY <1>2, <2>1 DEF handleJoin, TypeOK, sendVars
<1>3. CASE Disconnect(s)
  <2>1. \A x \in Sockets : <<>> \in Seq(Sends)
    OBVIOUS
  <2>2. /\ status' \in [Sockets -> {"new", "open", "closed"}]
        /\ rooms' \in [Events -> SUBSET Sockets]
        /\ outgoing' \in [Sockets -> Seq(Sends)]
    BY <1>3, <2>1 DEF Disconnect, Close, TypeOK
  <2>3. faults' \in 0 .. MaxFaults
    BY <1>3, Bounds DEF Disconnect, Close, TypeOK
  <2> QED
    BY <1>3, <2>2, <2>3 DEF Disconnect, Close, TypeOK, sendVars
<1>4. CASE Deliver(s)
  <2>1. outgoing[s] \in Seq(Sends) /\ outgoing[s] # <<>> /\ received[s] \in Seq(Sends)
    BY <1>4 DEF Deliver, TypeOK
  <2>2. Head(outgoing[s]) \in Sends /\ Tail(outgoing[s]) \in Seq(Sends)
    BY <2>1
  <2>3. Append(received[s], Head(outgoing[s])) \in Seq(Sends)
    BY <2>1, <2>2
  <2>4. /\ outgoing' \in [Sockets -> Seq(Sends)]
        /\ received' \in [Sockets -> Seq(Sends)]
    BY <1>4, <2>2, <2>3 DEF Deliver, TypeOK
  <2> QED
    BY <1>4, <2>4 DEF Deliver, TypeOK, sendVars
<1> QED
  BY <1>1, <1>2, <1>3, <1>4

LEMMA TypeSend ==
    ASSUME TypeOK, NEW r \in Sends, SendOK(r),
           Receive(r) \/ FindDuplicate(r) \/ Insert(r) \/ Publish(r) \/ Fail(r)
    PROVE  TypeOK'
<1>1. CASE Receive(r)
  <2>1. PICK c \in Outbox[r] :
          /\ command' = [command EXCEPT ![r] = c]
          /\ IF c.content = "none" THEN Acknowledge(r, "validation_error", 0)
             ELSE IF c.content = "blank" THEN Acknowledge(r, "invalid_chat_message", 0)
             ELSE /\ pc' = [pc EXCEPT ![r] = "find"]
                  /\ UNCHANGED <<ack, acked>>
    BY <1>1 DEF Receive
  <2>2. c \in Commands
    BY ChatsAssumption
  <2>3. command' \in [Sends -> Commands \cup {Null}]
    BY <2>1, <2>2 DEF TypeOK
  <2>4. /\ pc' \in [Sends -> PcValues] /\ ack' \in [Sends -> Codes \cup {""}]
        /\ acked' \in [Sends -> Sends \cup {0}]
    <3>1. {"validation_error", "invalid_chat_message"} \subseteq Codes
      BY DEF Codes
    <3>2. CASE c.content \in {"none", "blank"}
      BY <2>1, <3>1, <3>2, AcknowledgeType
    <3>3. CASE c.content \notin {"none", "blank"}
      BY <2>1, <3>3 DEF TypeOK, PcValues, Codes
    <3> QED
      BY <3>2, <3>3
  <2> QED
    BY <1>1, <2>3, <2>4 DEF Receive, TypeOK, PcValues, Codes, socketVars
<1>2. CASE FindDuplicate(r)
  <2>1. /\ pc' \in [Sends -> PcValues] /\ ack' \in [Sends -> Codes \cup {""}]
        /\ acked' \in [Sends -> Sends \cup {0}] /\ createdAt' \in [Sends -> Nat]
    <3>1. {"vote_event_not_found", OK} \subseteq Codes
      BY DEF Codes
    <3>2. CASE command[r].event \notin Existing
      BY <1>2, <3>1, <3>2, AcknowledgeType DEF FindDuplicate, TypeOK
    <3>3. CASE \E i \in SameClientId(r) : Acknowledge(r, OK, i) /\ UNCHANGED createdAt
      BY <3>1, <3>3, AcknowledgeType DEF SameClientId, Stored, TypeOK
    <3>4. CASE /\ pc' = [pc EXCEPT ![r] = "insert"]
               /\ createdAt' = [createdAt EXCEPT ![r] = now]
               /\ UNCHANGED <<ack, acked>>
      <4>1. now \in Nat
        BY Bounds DEF TypeOK
      <4> QED
        BY <3>4, <4>1 DEF TypeOK, PcValues, Codes
    <3> QED
      BY <1>2, <3>2, <3>3, <3>4 DEF FindDuplicate
  <2> QED
    BY <1>2, <2>1 DEF FindDuplicate, TypeOK, PcValues, Codes, socketVars
<1>3. CASE Insert(r)
  <2>1. InternalError \in Codes
    BY DEF Codes
  <2>2. CASE DuplicateKey(r)
    BY <1>3, <2>1, <2>2, AcknowledgeType
       DEF Insert, TypeOK, PcValues, Codes, socketVars
  <2>3. CASE ~DuplicateKey(r)
    <3>1. User(r) \in Users /\ command[r] \in Commands
      BY <1>3, ChatsAssumption DEF SendOK, Insert, User, Commands
    <3>2. [user |-> User(r), event |-> command[r].event,
           clientMessageId |-> command[r].clientMessageId,
           createdAt |-> createdAt[r]] \in Message
      BY <3>1 DEF Commands, Message, TypeOK
    <3>3. messages' \in [Sends -> Message \cup {Null}]
      BY <1>3, <2>3, <3>2 DEF Insert, TypeOK
    <3>4. /\ pc' \in [Sends -> PcValues] /\ ack' \in [Sends -> Codes \cup {""}]
          /\ acked' \in [Sends -> Sends \cup {0}] /\ faults' \in 0 .. MaxFaults
      <4>1. CASE pc' = [pc EXCEPT ![r] = "publish"] /\ UNCHANGED <<ack, acked, faults>>
        BY <4>1 DEF TypeOK, PcValues, Codes
      <4>2. CASE /\ faults < MaxFaults /\ faults' = faults + 1
                 /\ Acknowledge(r, InternalError, 0)
        <5>1. faults' \in 0 .. MaxFaults
          BY <4>2, Bounds DEF TypeOK
        <5> QED
          BY <2>1, <4>2, <5>1, AcknowledgeType
      <4> QED
        BY <1>3, <2>3, <4>1, <4>2 DEF Insert
    <3> QED
      BY <1>3, <3>3, <3>4 DEF Insert, TypeOK, PcValues, Codes, socketVars
  <2> QED
    BY <2>2, <2>3
<1>4. CASE Publish(r)
  <2>1. \A s \in Sockets : Append(outgoing[s], r) \in Seq(Sends)
    <3> TAKE s \in Sockets
    <3>1. outgoing[s] \in Seq(Sends)
      BY DEF TypeOK
    <3> QED
      BY <3>1
  <2>2. outgoing' \in [Sockets -> Seq(Sends)]
    BY <1>4, <2>1 DEF Publish, Emit, TypeOK
  <2>3. OK \in Codes /\ Acknowledge(r, OK, r)
    BY <1>4 DEF Codes, Publish
  <2> QED
    BY <1>4, <2>2, <2>3, AcknowledgeType DEF Publish, TypeOK, PcValues, Codes
<1>5. CASE Fail(r)
  <2>1. InternalError \in Codes /\ Acknowledge(r, InternalError, 0)
    BY <1>5 DEF Codes, Fail
  <2>2. faults' \in 0 .. MaxFaults
    BY <1>5, Bounds DEF Fail, TypeOK
  <2> QED
    BY <1>5, <2>1, <2>2, AcknowledgeType
       DEF Fail, TypeOK, PcValues, Codes, socketVars
<1> QED
  BY <1>1, <1>2, <1>3, <1>4, <1>5

LEMMA StoredFinite ==
    /\ Stored \in SUBSET Sends /\ IsFiniteSet(Stored)
    /\ \A e : /\ MessagesOf(e) \in SUBSET Stored /\ MessagesOf(e) \in SUBSET Sends
              /\ IsFiniteSet(MessagesOf(e)) /\ Cardinality(MessagesOf(e)) \in Nat
<1>1. Stored \in SUBSET Sends /\ \A e : MessagesOf(e) \in SUBSET Stored
  BY DEF Stored, MessagesOf
<1> QED
  BY <1>1, ChatsAssumption, FS_Subset, FS_CardinalityType

LEMMA CandidatesStored ==
    \A e, pages : Candidates(e, pages) \in SUBSET MessagesOf(e)
BY DEF Candidates

\* A walk after one more page.
LEMMA AskPageType ==
    ASSUME TypeOK, NEW s \in Sockets, AskPage(s)
    PROVE  walk' \in [Sockets -> Walk]
<1>1. walk[s] \in Walk
  BY DEF TypeOK
<1>2. CASE \E e \in Visits[s] :
             walk' = [walk EXCEPT ![s].at = IF e \in Existing THEN "page" ELSE "none",
                                  ![s].event = e, ![s].joined = s \in rooms[e]]
  <2>1. PICK e \in Visits[s] :
          walk' = [walk EXCEPT ![s].at = IF e \in Existing THEN "page" ELSE "none",
                               ![s].event = e, ![s].joined = s \in rooms[e]]
    BY <1>2
  <2>2. e \in Events
    BY ChatsAssumption
  <2> DEFINE at == IF e \in Existing THEN "page" ELSE "none"
             joined == s \in rooms[e]
             w  == [walk[s] EXCEPT !.at = at, !.event = e, !.joined = joined]
  <2>3. w \in Walk
    <3>1. joined \in BOOLEAN
      OBVIOUS
    <3>2. at \in {"page", "none"}
      OBVIOUS
    <3> HIDE DEF joined, at
    <3> QED
      BY <1>1, <2>2, <3>1, <3>2 DEF Walk
  <2>4. walk' = [walk EXCEPT ![s] = w]
    BY <2>1 DEF TypeOK
  <2> HIDE DEF w
  <2> QED
    BY <2>3, <2>4 DEF TypeOK
<1>3. CASE walk' = [walk EXCEPT ![s].at = "page"]
  <2>1. [walk[s] EXCEPT !.at = "page"] \in Walk
    BY <1>1 DEF Walk
  <2> QED
    BY <1>3, <2>1 DEF TypeOK
<1> QED
  BY <1>2, <1>3 DEF AskPage

LEMMA ReadPageType ==
    ASSUME TypeOK, NEW s \in Sockets, ReadPage(s)
    PROVE  walk' \in [Sockets -> Walk]
<1> DEFINE candidates == Candidates(walk[s].event, walk[s].pages)
           page == NewestOf(candidates)
           more == Cardinality(candidates) > PageLimit
           known == IF walk[s].pages = <<>> THEN candidates ELSE walk[s].known
           w == [walk[s] EXCEPT !.at = "count", !.pages = Append(@, page),
                                !.hasNext = more, !.known = known]
<1>1. walk[s] \in Walk
  BY DEF TypeOK
<1>2. candidates \in SUBSET Sends /\ page \in SUBSET Sends
  BY StoredFinite, CandidatesStored DEF NewestOf
<1>3. Append(walk[s].pages, page) \in Seq(SUBSET Sends)
  <2>1. walk[s].pages \in Seq(SUBSET Sends)
    BY <1>1 DEF Walk
  <2> HIDE DEF page
  <2> QED
    BY <1>2, <2>1
<1>4. walk' = [walk EXCEPT ![s] = w]
  BY DEF ReadPage, TypeOK
<1>5. more \in BOOLEAN /\ known \in SUBSET Sends
  BY <1>1, <1>2 DEF Walk
<1> HIDE DEF candidates, page, more, known
<1>6. w \in Walk
  BY <1>1, <1>3, <1>5 DEF Walk
<1> HIDE DEF w
<1> QED
  BY <1>4, <1>6 DEF TypeOK

LEMMA ReadCountType ==
    ASSUME TypeOK, NEW s \in Sockets, ReadCount(s)
    PROVE  walk' \in [Sockets -> Walk]
<1> DEFINE total == Cardinality(MessagesOf(walk[s].event))
           w == [walk[s] EXCEPT !.at = "answered", !.totalCount = total]
<1>1. walk[s] \in Walk /\ total \in Nat
  BY StoredFinite DEF TypeOK
<1>2. walk' = [walk EXCEPT ![s] = w]
  BY DEF ReadCount, TypeOK
<1> HIDE DEF total
<1>3. w \in Walk
  BY <1>1 DEF Walk
<1> HIDE DEF w
<1> QED
  BY <1>2, <1>3 DEF TypeOK

LEMMA TypeWalk ==
    ASSUME TypeOK, NEW s \in Sockets, AskPage(s) \/ Read(s)
    PROVE  TypeOK'
<1>1. walk' \in [Sockets -> Walk]
  BY AskPageType, ReadPageType, ReadCountType DEF Read
<1>2. UNCHANGED <<messages, now, socketVars, sendVars, faults>>
  BY DEF AskPage, Read, ReadPage, ReadCount
<1> QED
  BY <1>1, <1>2 DEF TypeOK, socketVars, sendVars

LEMMA TypeRestart ==
    ASSUME TypeOK, Restart
    PROVE  TypeOK'
<1>1. /\ status' \in [Sockets -> {"new", "open", "closed"}]
      /\ rooms' \in [Events -> SUBSET Sockets]
  BY DEF Restart, Close, TypeOK
<1>2. outgoing' \in [Sockets -> Seq(Sends)] /\ received' \in [Sockets -> Seq(Sends)]
  <2>1. <<>> \in Seq(Sends)
    OBVIOUS
  <2> QED
    BY <2>1 DEF Restart, Close, TypeOK
<1>3. faults' \in 0 .. MaxFaults
  BY Bounds DEF Restart, Close, TypeOK
<1>4. pc' \in [Sends -> PcValues]
  BY DEF Restart, TypeOK, PcValues
<1>5. walk' \in [Sockets -> Walk]
  <2>1. \A w \in Walk : [w EXCEPT !.at = "none"] \in Walk
    BY DEF Walk
  <2>2. \A s \in Sockets : walk[s] \in Walk
    BY DEF TypeOK
  <2> QED
    BY <2>1, <2>2 DEF Restart
<1> QED
  BY <1>1, <1>2, <1>3, <1>4, <1>5 DEF Restart, TypeOK, PcValues

\* What every step of one send, of one socket and of the process is.
SendStep(r) == Receive(r) \/ Step(r) \/ Fail(r)

ConnectionStep(s) == Connect(s) \/ handleJoin(s) \/ Disconnect(s) \/ Deliver(s)

WalkStep(s) == AskPage(s) \/ Read(s)

LEMMA NextSteps ==
    [Next]_vars =>
        \/ \E r \in Sends : SendStep(r)
        \/ \E s \in Sockets : ConnectionStep(s) \/ WalkStep(s)
        \/ Restart \/ Tick \/ UNCHANGED vars
BY DEF Next, SendStep, ConnectionStep, WalkStep

LEMMA TypeStep == TypeOK /\ (\A r \in Sends : SendOK(r)) /\ [Next]_vars => TypeOK'
<1> SUFFICES ASSUME TypeOK, \A r \in Sends : SendOK(r), [Next]_vars PROVE TypeOK'
  OBVIOUS
<1>1. CASE \E r \in Sends : SendStep(r)
  BY <1>1, TypeSend DEF SendStep, Step
<1>2. CASE \E s \in Sockets : ConnectionStep(s) \/ WalkStep(s)
  BY <1>2, TypeConnection, TypeWalk DEF ConnectionStep, WalkStep
<1>3. CASE Restart
  BY <1>3, TypeRestart
<1>4. CASE Tick
  <2>1. now' \in 0 .. MaxTime
    BY <1>4, Bounds DEF Tick, TypeOK
  <2> QED
    BY <1>4, <2>1 DEF Tick, TypeOK, socketVars, sendVars
<1>5. CASE UNCHANGED vars
  BY <1>5 DEF vars, TypeOK
<1> QED
  BY <1>1, <1>2, <1>3, <1>4, <1>5, NextSteps

-----------------------------------------------------------------------------
(* What is stored and what is acknowledged *)

SendsInv ==
    /\ \A r \in Sends : SendOK(r)
    /\ OneMessagePerClientId
    /\ AckNamesOwnMessage

\* The row that send r inserts, under a key the unique index does not have.
Inserts(r) ==
    /\ pc[r] = "insert" /\ SameClientId(r) = {}
    /\ messages' = [messages EXCEPT ![r] =
           [user |-> User(r), event |-> command[r].event,
            clientMessageId |-> command[r].clientMessageId,
            createdAt |-> createdAt[r]]]

AckFits(r) ==
    ack[r] = OK =>
        /\ acked[r] \in Stored
        /\ messages[acked[r]].user = User(r)
        /\ messages[acked[r]].clientMessageId = command[r].clientMessageId

\* What a step of send r does to the sends and the messages.
LEMMA SendStepWrites ==
    ASSUME TypeOK, NEW r \in Sends, SendOK(r), AckFits(r), SendStep(r)
    PROVE  /\ \A t \in Sends \ {r} : /\ pc'[t] = pc[t] /\ command'[t] = command[t]
                                     /\ ack'[t] = ack[t] /\ acked'[t] = acked[t]
           /\ messages' # messages => Inserts(r) /\ command' = command
           /\ pc[r] # "idle" => command' = command
           /\ pc[r] = "idle" => command'[r] \in Commands /\ messages' = messages
           /\ pc[r] \in {"idle", "find", "insert", "publish"}
           /\ pc'[r] \notin {"done", "failed"} => ack'[r] = ack[r]
           /\ pc'[r] # "idle"
           /\ pc'[r] = "publish" => pc[r] = "insert" /\ Inserts(r)
           /\ Inserts(r) => pc'[r] \in {"publish", "failed"}
           /\ ack'[r] = OK =>
                 /\ messages' = messages /\ command' = command
                 /\ acked'[r] \in SameClientId(r)
                      \cup IF pc[r] = "publish" THEN {r} ELSE {}
<1> USE DEF OK, InternalError
<1>a. /\ DOMAIN pc = Sends /\ DOMAIN ack = Sends /\ DOMAIN acked = Sends
      /\ DOMAIN command = Sends
      /\ pc = [t \in Sends |-> pc[t]] /\ ack = [t \in Sends |-> ack[t]]
      /\ acked = [t \in Sends |-> acked[t]] /\ command = [t \in Sends |-> command[t]]
  BY DEF TypeOK
<1>0. ack[r] # OK
  BY DEF SendStep, Step, Receive, FindDuplicate, Insert, Publish, Fail, SendOK
<1>b. ASSUME NEW code, NEW i, Acknowledge(r, code, i)
      PROVE  /\ \A t \in Sends \ {r} : /\ pc'[t] = pc[t] /\ ack'[t] = ack[t]
                                       /\ acked'[t] = acked[t]
             /\ pc'[r] \in {"done", "failed"} /\ ack'[r] = code /\ acked'[r] = i
             /\ code = InternalError => pc'[r] = "failed"
  BY <1>a, <1>b DEF Acknowledge
<1>1. CASE Receive(r)
  <2>1. PICK c \in Outbox[r] :
          /\ command' = [command EXCEPT ![r] = c]
          /\ IF c.content = "none" THEN Acknowledge(r, "validation_error", 0)
             ELSE IF c.content = "blank" THEN Acknowledge(r, "invalid_chat_message", 0)
             ELSE /\ pc' = [pc EXCEPT ![r] = "find"]
                  /\ UNCHANGED <<ack, acked>>
    BY <1>1 DEF Receive
  <2>2. c \in Commands
    BY ChatsAssumption
  <2> QED
    <3>1. /\ \A t \in Sends \ {r} : command'[t] = command[t]
          /\ command'[r] \in Commands /\ pc[r] = "idle" /\ messages' = messages
      BY <1>1, <1>a, <2>1, <2>2 DEF Receive
    <3>2. CASE c.content \in {"none", "blank"}
      BY <1>b, <2>1, <3>1, <3>2 DEF Inserts
    <3>3. CASE c.content \notin {"none", "blank"}
      <4>1. /\ \A t \in Sends \ {r} : pc'[t] = pc[t]
            /\ pc'[r] = "find" /\ ack' = ack /\ acked' = acked
        BY <1>a, <2>1, <3>3
      <4> QED
        BY <1>0, <3>1, <4>1 DEF Inserts
    <3> QED
      BY <3>2, <3>3
<1>2. CASE FindDuplicate(r)
  <2>1. pc[r] = "find" /\ messages' = messages /\ command' = command
    BY <1>2 DEF FindDuplicate
  <2>2. \/ Acknowledge(r, "vote_event_not_found", 0)
        \/ \E i \in SameClientId(r) : Acknowledge(r, OK, i)
        \/ pc' = [pc EXCEPT ![r] = "insert"] /\ ack' = ack /\ acked' = acked
    BY <1>2 DEF FindDuplicate
  <2>3. CASE pc' = [pc EXCEPT ![r] = "insert"] /\ ack' = ack /\ acked' = acked
    <3>1. pc'[r] = "insert" /\ \A t \in Sends \ {r} : pc'[t] = pc[t]
      BY <1>a, <2>3
    <3> QED
      BY <1>0, <2>1, <2>3, <3>1 DEF Inserts
  <2> QED
    BY <1>b, <2>1, <2>2, <2>3 DEF Inserts
<1>3. CASE Insert(r)
  <2>1. pc[r] = "insert" /\ command' = command
    BY <1>3 DEF Insert
  <2>2. CASE DuplicateKey(r)
    BY <1>3, <1>b, <2>1, <2>2 DEF Insert, Inserts, DuplicateKey
  <2>3. CASE ~DuplicateKey(r)
    <3>1. Inserts(r)
      BY <1>3, <2>3 DEF Insert, Inserts, DuplicateKey
    <3>2. \/ pc' = [pc EXCEPT ![r] = "publish"] /\ ack' = ack /\ acked' = acked
          \/ Acknowledge(r, InternalError, 0)
      BY <1>3, <2>3 DEF Insert
    <3>3. CASE pc' = [pc EXCEPT ![r] = "publish"] /\ ack' = ack /\ acked' = acked
      <4>1. pc'[r] = "publish" /\ \A t \in Sends \ {r} : pc'[t] = pc[t]
        BY <1>a, <3>3
      <4> QED
        BY <1>0, <2>1, <3>1, <3>3, <4>1
    <3>4. CASE Acknowledge(r, InternalError, 0)
      BY <1>b, <2>1, <3>1, <3>4
    <3> QED
      BY <3>2, <3>3, <3>4
  <2> QED
    BY <2>2, <2>3
<1>4. CASE Publish(r)
  BY <1>4, <1>b DEF Publish, Inserts
<1>5. CASE Fail(r)
  BY <1>5, <1>b DEF Fail, Inserts
<1> QED
  BY <1>1, <1>2, <1>3, <1>4, <1>5 DEF SendStep, Step

LEMMA SendsInit == Init => SendsInv
<1> SUFFICES ASSUME Init PROVE SendsInv
  OBVIOUS
<1>1. Stored = {}
  BY DEF Init, Stored
<1>2. \A r \in Sends : pc[r] = "idle" /\ ack[r] = ""
  BY DEF Init
<1> QED
  BY <1>1, <1>2 DEF SendsInv, SendOK, OneMessagePerClientId, AckNamesOwnMessage, OK

\* A step that stores nothing and acknowledges nothing; at most it loses sends.
LEMMA SendsKept ==
    ASSUME SendsInv, messages' = messages, command' = command, ack' = ack,
           acked' = acked,
           \A r \in Sends : \/ pc'[r] = pc[r]
                            \/ /\ pc[r] \in {"find", "insert", "publish"}
                               /\ pc'[r] = "failed"
    PROVE  SendsInv'
<1>1. Stored' = Stored
  BY DEF Stored
<1>2. \A r \in Sends : User(r)' = User(r)
  BY DEF User
<1>3. ASSUME NEW r \in Sends PROVE SendOK(r)'
  <2>1. SendOK(r) /\ User(r)' = User(r)
    BY <1>2 DEF SendsInv
  <2> QED
    BY <1>1, <2>1 DEF SendOK
<1>4. OneMessagePerClientId'
  BY <1>1 DEF SendsInv, OneMessagePerClientId
<1>5. AckNamesOwnMessage'
  BY <1>1, <1>2 DEF SendsInv, AckNamesOwnMessage
<1> QED
  BY <1>3, <1>4, <1>5 DEF SendsInv

\* Rows are added and never changed.
MessagesKept == \A i \in Stored : messages'[i] = messages[i]

LEMMA InsertsRow ==
    ASSUME TypeOK, TypeOK', NEW r \in Sends, SendOK(r), Inserts(r)
    PROVE  /\ MessagesKept /\ r \notin Stored /\ Stored' = Stored \cup {r}
           /\ messages'[r].user = User(r) /\ messages'[r].event = command[r].event
           /\ messages'[r].clientMessageId = command[r].clientMessageId
           /\ messages'[r].createdAt = createdAt[r]
<1>1. r \notin Stored
  BY DEF SendOK, Inserts
<1>2. /\ \A i \in Sends \ {r} : messages'[i] = messages[i]
      /\ messages'[r] = [user |-> User(r), event |-> command[r].event,
            clientMessageId |-> command[r].clientMessageId,
            createdAt |-> createdAt[r]]
  BY DEF Inserts, TypeOK
<1>3. messages'[r] # Null
  <2>1. User(r) \in Users /\ command[r] \in Commands /\ createdAt[r] \in Nat
    BY ChatsAssumption DEF SendOK, Inserts, User, Commands, TypeOK
  <2>2. messages'[r] \in Message
    BY <1>2, <2>1 DEF Commands, Message
  <2> QED
    BY <2>2, ChatsAssumption
<1> QED
  BY <1>1, <1>2, <1>3 DEF MessagesKept, Stored

LEMMA SendsSend ==
    ASSUME TypeOK, TypeOK', SendsInv, NEW r \in Sends, SendStep(r)
    PROVE  SendsInv' /\ MessagesKept
<1>1. SendOK(r) /\ AckFits(r)
  BY DEF SendsInv, AckNamesOwnMessage, AckFits
<1>2. \A t \in Sends \ {r} : /\ pc'[t] = pc[t] /\ command'[t] = command[t]
                             /\ ack'[t] = ack[t] /\ acked'[t] = acked[t]
  BY <1>1, SendStepWrites
<1>3. \A t \in Sends \ {r} : User(t)' = User(t)
  BY <1>2 DEF User
<1>4. ASSUME messages' # messages
      PROVE  /\ Inserts(r) /\ command' = command
             /\ MessagesKept /\ r \notin Stored /\ Stored' = Stored \cup {r}
             /\ messages'[r].user = User(r) /\ messages'[r].event = command[r].event
             /\ messages'[r].clientMessageId = command[r].clientMessageId
  BY <1>1, <1>4, SendStepWrites, InsertsRow
<1>5. MessagesKept /\ Stored \subseteq Stored' /\ Stored' \subseteq Stored \cup {r}
  <2>1. messages' = messages => MessagesKept /\ Stored' = Stored
    BY DEF MessagesKept, Stored
  <2> QED
    BY <1>4, <2>1
<1>6. ASSUME NEW t \in Sends, t # r PROVE SendOK(t)'
  <2>1. SendOK(t) /\ User(t)' = User(t)
    BY <1>3, <1>6 DEF SendsInv
  <2>2. t \in Stored' <=> t \in Stored
    BY <1>5, <1>6
  <2>3. t \in Stored => messages'[t] = messages[t]
    BY <1>5 DEF MessagesKept
  <2> QED
    BY <1>2, <1>6, <2>1, <2>2, <2>3 DEF SendOK
<1>7. SendOK(r)'
  <2>1. pc'[r] # "idle" => command'[r] \in Commands
    BY <1>1, SendStepWrites DEF SendOK
  <2>2. ack'[r] # "" => pc'[r] \in {"done", "failed"}
    BY <1>1, SendStepWrites DEF SendOK
  <2>3. CASE messages' # messages
    <3>1. User(r)' = User(r)
      BY <1>4, <2>3 DEF User
    <3>2. pc'[r] \in {"publish", "failed"}
      BY <1>1, <1>4, <2>3, SendStepWrites
    <3> QED
      BY <1>4, <2>1, <2>2, <2>3, <3>1, <3>2 DEF SendOK
  <2>4. CASE messages' = messages
    <3>1. Stored' = Stored
      BY <2>4 DEF Stored
    <3>2. pc'[r] # "publish"
      <4>1. pc'[r] = "publish" => Inserts(r)
        BY <1>1, SendStepWrites
      <4>2. Inserts(r) => messages' # messages
        <5>1. Inserts(r) => r \in Stored' /\ r \notin Stored
          BY <1>1, InsertsRow
        <5> QED
          BY <3>1, <5>1
      <4> QED
        BY <2>4, <4>1, <4>2
    <3>3. r \in Stored => pc[r] = "publish"
      BY <1>1, SendStepWrites DEF SendOK
    <3>4. pc[r] = "publish" => pc'[r] \in {"done", "failed"}
      BY <1>1 DEF SendStep, Step, Receive, FindDuplicate, Insert, Publish, Fail,
         Acknowledge, TypeOK
    <3>5. pc[r] = "publish" => command' = command /\ User(r)' = User(r)
      BY <1>1, SendStepWrites DEF User
    <3> QED
      BY <1>1, <2>1, <2>2, <2>4, <3>1, <3>2, <3>3, <3>4, <3>5 DEF SendOK
  <2> QED
    BY <2>3, <2>4
<1>8. OneMessagePerClientId'
  <2>1. CASE messages' = messages
    BY <2>1 DEF SendsInv, OneMessagePerClientId, Stored
  <2>2. CASE messages' # messages
    <3>1. \A i \in Stored : ~(/\ messages[i].user = User(r)
                              /\ messages[i].clientMessageId = command[r].clientMessageId)
      BY <1>4, <2>2 DEF Inserts, SameClientId
    <3> QED
      BY <1>4, <2>2, <3>1 DEF SendsInv, OneMessagePerClientId, MessagesKept
  <2> QED
    BY <2>1, <2>2
<1>9. ASSUME NEW t \in Sends, ack'[t] = OK
      PROVE  /\ acked'[t] \in Stored'
             /\ messages'[acked'[t]].user = User(t)'
             /\ messages'[acked'[t]].clientMessageId = command'[t].clientMessageId
  <2>1. CASE t # r
    <3>1. AckFits(t) /\ ack[t] = OK /\ acked'[t] = acked[t] /\ command'[t] = command[t]
          /\ User(t)' = User(t)
      BY <1>2, <1>3, <1>9, <2>1 DEF SendsInv, AckNamesOwnMessage, AckFits
    <3>2. acked[t] \in Stored
      BY <3>1 DEF AckFits
    <3>3. messages'[acked[t]] = messages[acked[t]] /\ acked[t] \in Stored'
      BY <1>5, <3>2 DEF MessagesKept
    <3> QED
      BY <3>1, <3>3 DEF AckFits
  <2>2. CASE t = r
    <3>1. /\ messages' = messages /\ command' = command
          /\ acked'[r] \in SameClientId(r) \cup IF pc[r] = "publish" THEN {r} ELSE {}
      BY <1>1, <1>9, <2>2, SendStepWrites
    <3>2. Stored' = Stored /\ User(r)' = User(r)
      BY <3>1 DEF Stored, User
    <3>3. acked'[r] \in SameClientId(r)
      BY <1>1, <3>1 DEF SameClientId, SendOK
    <3> QED
      BY <2>2, <3>1, <3>2, <3>3 DEF SameClientId
  <2> QED
    BY <2>1, <2>2
<1>10. AckNamesOwnMessage'
  BY <1>9 DEF AckNamesOwnMessage
<1> QED
  BY <1>5, <1>6, <1>7, <1>8, <1>10 DEF SendsInv

\* The messages stored stay, whatever the step.
LEMMA SendsStep ==
    ASSUME TypeOK, TypeOK', SendsInv, [Next]_vars
    PROVE  SendsInv' /\ MessagesKept
<1>1. CASE \E r \in Sends : SendStep(r)
  BY <1>1, SendsSend
<1>2. CASE ~\E r \in Sends : SendStep(r)
  <2>1. /\ messages' = messages /\ command' = command /\ ack' = ack /\ acked' = acked
        /\ \A r \in Sends : \/ pc'[r] = pc[r]
                            \/ /\ pc[r] \in {"find", "insert", "publish"}
                               /\ pc'[r] = "failed"
    BY <1>2, NextSteps DEF ConnectionStep, WalkStep, Connect, handleJoin, Disconnect,
       Deliver, AskPage, Read, ReadPage, ReadCount, Restart, Tick, vars, sendVars
  <2> QED
    BY <2>1, SendsKept DEF MessagesKept
<1> QED
  BY <1>1, <1>2

-----------------------------------------------------------------------------
(* What is sent to the room *)

LEMMA PacketAppended ==
    ASSUME NEW S, NEW a \in Seq(S), NEW b \in Seq(S), NEW x \in S
    PROVE  a \o Append(b, x) = Append(a \o b, x)
OBVIOUS

LEMMA PacketMoved ==
    ASSUME NEW S, NEW a \in Seq(S), NEW b \in Seq(S), b # <<>>
    PROVE  Append(a, Head(b)) \o Tail(b) = a \o b
OBVIOUS

LEMMA PacketsKept ==
    ASSUME NEW S, NEW a \in Seq(S), NEW b \in Seq(S)
    PROVE  /\ a \o b \in Seq(S) /\ a \o <<>> = a
           /\ \A n \in DOMAIN a : n \in DOMAIN (a \o b) /\ (a \o b)[n] = a[n]
<1>1. a \o b \in Seq(S) /\ a \o <<>> = a
  OBVIOUS
<1>2. \A n \in DOMAIN a : n \in DOMAIN (a \o b) /\ (a \o b)[n] = a[n]
  OBVIOUS
<1> QED
  BY <1>1, <1>2

LEMMA PacketOfEither ==
    ASSUME NEW S, NEW a \in Seq(S), NEW b \in Seq(S), NEW n \in DOMAIN (a \o b)
    PROVE  \/ n \in DOMAIN a /\ (a \o b)[n] = a[n]
           \/ n - Len(a) \in DOMAIN b /\ (a \o b)[n] = b[n - Len(a)]
<1>1. /\ Len(a) \in Nat /\ Len(b) \in Nat
      /\ DOMAIN a = 1 .. Len(a) /\ DOMAIN b = 1 .. Len(b)
      /\ n \in 1 .. Len(a) + Len(b)
  OBVIOUS
<1>2. CASE n <= Len(a)
  BY <1>1, <1>2
<1>3. CASE n > Len(a)
  BY <1>1, <1>3
<1> QED
  BY <1>1, <1>2, <1>3

\* The message that a step publishes to a room socket s is in.
PublishesTo(s, r) == Publish(r) /\ s \in rooms[messages[r].event]

\* What a step that publishes no message leaves of what was sent to socket s.
LEMMA SentQuietly ==
    ASSUME TypeOK, [Next]_vars, NEW s \in Sockets, \A r \in Sends : ~Publish(r)
    PROVE  \/ Sent(s)' = Sent(s)
           \/ Sent(s)' = received[s] /\ status'[s] = "closed"
<1> USE DEF Sent
<1>1. /\ received[s] \in Seq(Sends) /\ outgoing[s] \in Seq(Sends)
      /\ received[s] \o <<>> = received[s]
  <2>1. received[s] \in Seq(Sends) /\ outgoing[s] \in Seq(Sends)
    BY DEF TypeOK
  <2> QED
    BY <2>1, PacketsKept
<1>2. ASSUME NEW gone \in SUBSET Sockets, Close(gone)
      PROVE  \/ Sent(s)' = Sent(s)
             \/ Sent(s)' = received[s] /\ status'[s] = "closed"
  <2>1. /\ received'[s] = received[s]
        /\ outgoing'[s] = IF s \in gone THEN <<>> ELSE outgoing[s]
        /\ s \in gone => status'[s] = "closed"
    BY <1>2 DEF Close
  <2>2. CASE s \in gone
    BY <1>1, <2>1, <2>2
  <2>3. CASE s \notin gone
    <3>1. received'[s] = received[s] /\ outgoing'[s] = outgoing[s]
      BY <2>1, <2>3
    <3> QED
      BY <3>1
  <2> QED
    BY <2>2, <2>3
<1>3. CASE received' = received /\ outgoing' = outgoing
  BY <1>3
<1>4. ASSUME NEW t \in Sockets, Deliver(t) PROVE Sent(s)' = Sent(s)
  <2>1. CASE t = s
    <3>1. /\ received'[s] = Append(received[s], Head(outgoing[s]))
          /\ outgoing'[s] = Tail(outgoing[s]) /\ outgoing[s] # <<>>
      BY <1>4, <2>1 DEF Deliver, TypeOK
    <3>2. Append(received[s], Head(outgoing[s])) \o Tail(outgoing[s])
            = received[s] \o outgoing[s]
      BY <1>1, <3>1, PacketMoved
    <3> QED
      BY <3>1, <3>2
  <2>2. CASE t # s
    <3>1. received'[s] = received[s] /\ outgoing'[s] = outgoing[s]
      BY <1>4, <2>2 DEF Deliver, TypeOK
    <3> QED
      BY <3>1
  <2> QED
    BY <2>1, <2>2
<1>5. \/ received' = received /\ outgoing' = outgoing
      \/ \E t \in Sockets : Deliver(t)
      \/ \E gone \in SUBSET Sockets : Close(gone)
  <2>1. ASSUME NEW t \in Sockets, Disconnect(t) PROVE Close({t}) /\ {t} \in SUBSET Sockets
    BY <2>1 DEF Disconnect
  <2>2. CASE Restart
    <3>1. {t \in Sockets : status[t] = "open"} \in SUBSET Sockets
      OBVIOUS
    <3> QED
      BY <2>2, <3>1 DEF Restart
  <2>3. CASE \E r \in Sends : SendStep(r)
    BY <2>3 DEF SendStep, Step, Receive, FindDuplicate, Insert, Fail, socketVars
  <2>4. CASE \E t \in Sockets : ConnectionStep(t) \/ WalkStep(t)
    BY <2>1, <2>4 DEF ConnectionStep, WalkStep, Connect, handleJoin, AskPage, Read,
       ReadPage, ReadCount, socketVars
  <2>5. CASE Tick \/ UNCHANGED vars
    BY <2>5 DEF Tick, vars, socketVars
  <2> QED
    BY <2>2, <2>3, <2>4, <2>5, NextSteps
<1> QED
  BY <1>2, <1>3, <1>4, <1>5

\* A step keeps what was sent to socket s, appends the message it publishes, or
\* closes the connection and loses what was on its way.
LEMMA SentStep ==
    ASSUME TypeOK, [Next]_vars, NEW s \in Sockets
    PROVE  /\ \/ Sent(s)' = Sent(s)
              \/ \E r \in Sends : PublishesTo(s, r) /\ Sent(s)' = Append(Sent(s), r)
              \/ Sent(s)' = received[s] /\ status'[s] = "closed"
           /\ \A r \in Sends : PublishesTo(s, r) => Sent(s)' = Append(Sent(s), r)
<1>1. CASE \A r \in Sends : ~Publish(r)
  BY <1>1, SentQuietly DEF PublishesTo
<1>2. ASSUME NEW r \in Sends, Publish(r)
      PROVE  IF s \in rooms[messages[r].event]
             THEN Sent(s)' = Append(Sent(s), r) ELSE Sent(s)' = Sent(s)
  <2>1. received[s] \in Seq(Sends) /\ outgoing[s] \in Seq(Sends)
    BY DEF TypeOK
  <2>2. /\ received' = received
        /\ outgoing'[s] = IF s \in rooms[messages[r].event]
                          THEN Append(outgoing[s], r) ELSE outgoing[s]
    BY <1>2 DEF Publish, Emit
  <2>3. received[s] \o Append(outgoing[s], r) = Append(received[s] \o outgoing[s], r)
    <3>1. \A a, b \in Seq(Sends) : a \o Append(b, r) = Append(a \o b, r)
      BY PacketAppended
    <3> QED
      BY <2>1, <3>1
  <2>4. CASE s \in rooms[messages[r].event]
    BY <2>2, <2>3, <2>4 DEF Sent
  <2>5. CASE s \notin rooms[messages[r].event]
    BY <2>2, <2>5 DEF Sent
  <2> QED
    BY <2>4, <2>5
<1>3. ASSUME NEW r \in Sends, PublishesTo(s, r) PROVE Sent(s)' = Append(Sent(s), r)
  BY <1>2, <1>3 DEF PublishesTo
<1> QED
  BY <1>1, <1>2, <1>3 DEF PublishesTo

\* A send that is done stays done, and only its own step publishes it.
LEMMA DoneStays ==
    ASSUME TypeOK, SendsInv, [Next]_vars
    PROVE  /\ \A i \in Sends : pc[i] = "done" => pc'[i] = "done"
           /\ \A r \in Sends : Publish(r) => pc[r] = "publish" /\ pc'[r] = "done"
<1>1. ASSUME NEW i \in Sends, pc[i] = "done" PROVE pc'[i] = "done"
  <2>1. ASSUME NEW r \in Sends, SendStep(r) PROVE pc'[i] = "done"
    <3>1. pc[r] # "done" /\ \A t \in Sends \ {r} : pc'[t] = pc[t]
      BY <2>1, SendStepWrites DEF SendsInv, AckNamesOwnMessage, AckFits
    <3> QED
      BY <1>1, <3>1
  <2>2. CASE ~\E r \in Sends : SendStep(r)
    <3>1. pc' = pc \/ Restart
      BY <2>2, NextSteps DEF ConnectionStep, WalkStep, Connect, handleJoin, Disconnect,
         Deliver, AskPage, Read, ReadPage, ReadCount, Tick, vars, sendVars
    <3> QED
      BY <1>1, <3>1 DEF Restart
  <2> QED
    BY <2>1, <2>2
<1>2. \A r \in Sends : Publish(r) => pc[r] = "publish" /\ pc'[r] = "done"
  BY DEF Publish, Acknowledge, OK, InternalError, TypeOK
<1> QED
  BY <1>1, <1>2

\* No packet is sent twice, since a message is sent by the step that ends its
\* send.
SentInv ==
    /\ \A s \in Sockets : SentWhenDone(s)
    /\ SentOnce

LEMMA SentInit == Init => SentInv
<1> SUFFICES ASSUME Init PROVE SentInv
  OBVIOUS
<1>1. ASSUME NEW s \in Sockets PROVE DOMAIN (received[s] \o outgoing[s]) = {}
  <2>1. received[s] = <<>> /\ outgoing[s] = <<>>
    BY DEF Init
  <2>2. <<>> \o <<>> = <<>> /\ DOMAIN <<>> = {}
    OBVIOUS
  <2> QED
    BY <2>1, <2>2
<1> QED
  BY <1>1 DEF SentInv, SentWhenDone, SentOnce, Sent

SentOnceTo(s) ==
    \A m, n \in DOMAIN Sent(s) : Sent(s)[m] = Sent(s)[n] => m = n

LEMMA SentInvStep ==
    ASSUME TypeOK, SendsInv, SentInv, [Next]_vars
    PROVE  SentInv'
<1>1. /\ \A i \in Sends : pc[i] = "done" => pc'[i] = "done"
      /\ \A r \in Sends : Publish(r) => pc[r] = "publish" /\ pc'[r] = "done"
  BY DoneStays
<1>2. ASSUME NEW s \in Sockets PROVE (SentWhenDone(s) /\ SentOnceTo(s))'
  <2>1. SentWhenDone(s) /\ SentOnceTo(s)
    BY DEF SentInv, SentOnce, SentOnceTo, Sent
  <2>2. received[s] \in Seq(Sends) /\ outgoing[s] \in Seq(Sends)
    BY DEF TypeOK
  <2>3. /\ Sent(s) \in Seq(Sends)
        /\ \A n \in DOMAIN received[s] :
              n \in DOMAIN Sent(s) /\ Sent(s)[n] = received[s][n]
    BY <2>2, PacketsKept DEF Sent
  <2>4. \A n \in DOMAIN Sent(s) : Sent(s)[n] \in Sends /\ pc'[Sent(s)[n]] = "done"
    BY <1>1, <2>1, <2>3 DEF SentWhenDone
  <2>5. CASE Sent(s)' = Sent(s)
    BY <2>1, <2>4, <2>5 DEF SentWhenDone, SentOnceTo
  <2>6. CASE Sent(s)' = received[s]
    BY <2>1, <2>3, <2>4, <2>6 DEF SentWhenDone, SentOnceTo
  <2>7. ASSUME NEW r \in Sends, PublishesTo(s, r), Sent(s)' = Append(Sent(s), r)
        PROVE  (SentWhenDone(s) /\ SentOnceTo(s))'
    <3>1. pc[r] = "publish" /\ pc'[r] = "done"
      BY <1>1, <2>7 DEF PublishesTo
    <3>2. \A n \in DOMAIN Sent(s) : Sent(s)[n] # r
      BY <2>1, <3>1 DEF SentWhenDone
    <3>3. /\ Len(Sent(s)) \in Nat /\ DOMAIN Sent(s) = 1 .. Len(Sent(s))
          /\ DOMAIN (Sent(s)') = 1 .. Len(Sent(s)) + 1
          /\ Sent(s)'[Len(Sent(s)) + 1] = r
          /\ \A n \in 1 .. Len(Sent(s)) : Sent(s)'[n] = Sent(s)[n]
      BY <2>3, <2>7
    <3>4. \A n \in DOMAIN (Sent(s)') : n \in DOMAIN Sent(s) \/ n = Len(Sent(s)) + 1
      BY <3>3
    <3>5. SentWhenDone(s)'
      BY <2>4, <3>1, <3>3, <3>4 DEF SentWhenDone
    <3>6. SentOnceTo(s)'
      BY <2>1, <3>2, <3>3, <3>4 DEF SentOnceTo
    <3> QED
      BY <3>5, <3>6
  <2> QED
    BY <2>5, <2>6, <2>7, SentStep
<1> QED
  BY <1>2 DEF SentInv, SentOnce, SentOnceTo, Sent

-----------------------------------------------------------------------------
(* The order of the messages and the pages of the history *)

\* The history shows the newer of two messages first.
NewerFirst(C) == {p \in C \X C : Before(p[2], p[1])}

OlderFirst(C) == {p \in C \X C : Before(p[1], p[2])}

LEMMA BeforeOrders ==
    ASSUME TypeOK
    PROVE  /\ \A i \in Stored : ~Before(i, i)
           /\ \A i, j \in Stored : i # j => Before(i, j) \/ Before(j, i)
           /\ \A i, j, k \in Stored : Before(i, j) /\ Before(j, k) => Before(i, k)
<1>1. \A i \in Stored : messages[i].createdAt \in Nat /\ i \in Nat
  BY ChatsAssumption DEF TypeOK, Stored, Message
<1> QED
  BY <1>1 DEF Before

LEMMA StrictOrders ==
    ASSUME TypeOK, NEW C \in SUBSET Stored
    PROVE  /\ IsFiniteSet(C)
           /\ StrictOrder(OlderFirst(C), C) /\ StrictOrder(NewerFirst(C), C)
<1>1. IsFiniteSet(C)
  BY StoredFinite, FS_Subset
<1>2. \A x, y \in C : /\ <<x, y>> \in OlderFirst(C) <=> Before(x, y)
                      /\ <<x, y>> \in NewerFirst(C) <=> Before(y, x)
  BY DEF OlderFirst, NewerFirst
<1>3. /\ \A i \in C : ~Before(i, i)
      /\ \A i, j \in C : i # j => Before(i, j) \/ Before(j, i)
      /\ \A i, j, k \in C : Before(i, j) /\ Before(j, k) => Before(i, k)
  BY BeforeOrders
<1>4. StrictOrder(OlderFirst(C), C)
  BY <1>2, <1>3 DEF StrictOrder
<1>5. StrictOrder(NewerFirst(C), C)
  BY <1>2, <1>3 DEF StrictOrder
<1> QED
  BY <1>1, <1>4, <1>5

\* A page is the newest of its candidates; what it leaves out is older than all
\* of it, and there is a next page for it.
LEMMA NewestPage ==
    ASSUME TypeOK, NEW C \in SUBSET Stored
    PROVE  /\ NewestOf(C) \in SUBSET C
           /\ C # {} => NewestOf(C) # {}
           /\ Cardinality(C) > PageLimit => NewestOf(C) # {}
           /\ \A i \in C \ NewestOf(C) :
                 /\ Cardinality(C) > PageLimit
                 /\ \A j \in NewestOf(C) : Before(i, j)
<1> DEFINE R == NewerFirst(C)
<1>1. IsFiniteSet(C) /\ StrictOrder(R, C) /\ Cardinality(C) \in Nat
  BY StrictOrders, FS_CardinalityType
<1>2. /\ \A i \in C : /\ RankIn(R, C, i) \in 0 .. (Cardinality(C) - 1)
                      /\ RankIn(R, C, i) \in Nat
      /\ \A i, j \in C :
            <<i, j>> \in R <=> RankIn(R, C, i) < RankIn(R, C, j)
  BY <1>1, OrderRanks
<1>3. \A i \in C : RankIn(R, C, i) = Cardinality({j \in C : Before(i, j)})
  <2> TAKE i \in C
  <2>1. {j \in C : <<j, i>> \in R} = {j \in C : Before(i, j)}
    BY DEF NewerFirst
  <2> QED
    BY <2>1 DEF RankIn
<1>4. \A i, j \in C : <<i, j>> \in R <=> Before(j, i)
  BY DEF NewerFirst
<1>5. PageLimit \in Nat /\ PageLimit > 0
  BY Bounds
<1>6. NewestOf(C) = {i \in C : RankIn(R, C, i) < PageLimit}
  BY <1>3 DEF NewestOf
<1> HIDE DEF R
<1>7. ASSUME C # {} PROVE NewestOf(C) # {}
  <2>1. PICK i \in C : \A j \in C \ {i} : <<i, j>> \in R
    BY <1>1, <1>7, LeastMember
  <2>2. {j \in C : <<j, i>> \in R} = {}
    BY <1>1, <2>1 DEF StrictOrder
  <2>3. RankIn(R, C, i) = 0
    BY <2>2, FS_EmptySet DEF RankIn
  <2> QED
    BY <1>5, <1>6, <2>3
<1>8. ASSUME NEW i \in C \ NewestOf(C)
      PROVE  Cardinality(C) > PageLimit /\ \A j \in NewestOf(C) : Before(i, j)
  <2>1. RankIn(R, C, i) >= PageLimit
    BY <1>2, <1>5, <1>6
  <2>2. Cardinality(C) > PageLimit
    BY <1>1, <1>2, <1>5, <2>1
  <2>3. ASSUME NEW j \in NewestOf(C) PROVE Before(i, j)
    <3>1. j \in C /\ RankIn(R, C, j) < RankIn(R, C, i)
      BY <1>2, <1>5, <1>6, <2>1
    <3> QED
      BY <1>2, <1>4, <3>1
  <2> QED
    BY <2>2, <2>3
<1>9. Cardinality(C) > PageLimit => C # {}
  BY <1>5, FS_EmptySet
<1> QED
  BY <1>6, <1>7, <1>8, <1>9

\* A cursor is the oldest message of its page.
CursorsFit ==
    \A pages : (pages[Len(pages)] \subseteq Stored /\ pages[Len(pages)] # {}) =>
        /\ Cursor(pages) \in pages[Len(pages)]
        /\ \A j \in pages[Len(pages)] : j # Cursor(pages) => Before(Cursor(pages), j)

LEMMA Cursors == TypeOK => CursorsFit
<1> SUFFICES ASSUME TypeOK, NEW pages, pages[Len(pages)] \subseteq Stored,
                    pages[Len(pages)] # {}
             PROVE  /\ Cursor(pages) \in pages[Len(pages)]
                    /\ \A j \in pages[Len(pages)] :
                          j # Cursor(pages) => Before(Cursor(pages), j)
  BY DEF CursorsFit
<1> DEFINE page == pages[Len(pages)]
<1>1. \E i \in page : \A j \in page \ {i} : Before(i, j)
  <2>1. IsFiniteSet(page) /\ StrictOrder(OlderFirst(page), page)
    BY StrictOrders
  <2>2. \E i \in page : \A j \in page \ {i} : <<i, j>> \in OlderFirst(page)
    BY <2>1, LeastMember
  <2> QED
    BY <2>2 DEF OlderFirst
<1> QED
  BY <1>1 DEF Cursor

LEMMA CursorsThen == TypeOK' => CursorsFit'
BY Cursors, PTL

\* Rows are added and not changed, so their order and the cursors stay.
LEMMA OrderStays ==
    ASSUME TypeOK, TypeOK', MessagesKept, Stored \subseteq Stored'
    PROVE  /\ \A i, j \in Stored : Before(i, j)' = Before(i, j)
           /\ \A e : MessagesOf(e) \subseteq MessagesOf(e)'
           /\ \A pages : (pages[Len(pages)] \subseteq Stored /\ pages[Len(pages)] # {})
                 => Cursor(pages)' = Cursor(pages)
<1>1. ASSUME NEW i \in Stored, NEW j \in Stored PROVE Before(i, j)' = Before(i, j)
  BY DEF MessagesKept, Before
<1>2. \A e : MessagesOf(e) \subseteq MessagesOf(e)'
  BY DEF MessagesKept, MessagesOf
<1>3. ASSUME NEW pages, pages[Len(pages)] \subseteq Stored, pages[Len(pages)] # {}
      PROVE  Cursor(pages)' = Cursor(pages)
  <2> DEFINE page == pages[Len(pages)]
  <2>1. PICK c \in page : /\ c = Cursor(pages)
                          /\ \A j \in page : j # c => Before(c, j)
    BY <1>3, Cursors DEF CursorsFit
  <2>2. PICK d \in page : /\ d = Cursor(pages)'
                          /\ \A j \in page : j # d => Before(d, j)'
    <3>1. page \subseteq Stored' /\ page # {}
      BY <1>3
    <3>2. (\A j \in page : j # Cursor(pages) => Before(Cursor(pages), j))'
      BY <3>1, CursorsThen DEF CursorsFit
    <3>3. Cursor(pages)' \in page
      BY <3>1, CursorsThen DEF CursorsFit
    <3> QED
      BY <3>2, <3>3
  <2>3. c = d
    <3>1. c \in Stored /\ d \in Stored
      BY <1>3
    <3>2. c # d => Before(c, d) /\ Before(d, c)
      BY <1>1, <2>1, <2>2, <3>1
    <3> QED
      BY <3>1, <3>2, BeforeOrders
  <2> QED
    BY <2>1, <2>2, <2>3
<1> QED
  BY <1>1, <1>2, <1>3

-----------------------------------------------------------------------------
(* The history that a client reads *)

InOrder(s) ==
    \A m, n \in DOMAIN walk[s].pages : m < n =>
        \A i \in walk[s].pages[m], j \in walk[s].pages[n] : Before(j, i)

CountCovers(s) ==
    walk[s].at = "answered" => walk[s].totalCount >= Cardinality(PagesRead(s))

\* What the pages read so far are.
PagesInv(s) ==
    WalkOfEvent(s) /\ KnownReadOrToCome(s) /\ InOrder(s) /\ CountCovers(s)

\* What the client gets over its socket.
RoomInv(s) == RoomsAreOpen(s) /\ JoinedGetsTheRest(s)

\* The walk of socket s is where it was, or broken off.
WalkStays(s) ==
    /\ walk'[s].at \in {walk[s].at, "none"}
    /\ walk'[s].at = "idle" => walk'[s] = walk[s]
    /\ walk'[s].event = walk[s].event /\ walk'[s].hasNext = walk[s].hasNext
    /\ walk'[s].pages = walk[s].pages /\ walk'[s].totalCount = walk[s].totalCount
    /\ walk'[s].joined = walk[s].joined /\ walk'[s].known = walk[s].known

LEMMA LastPage ==
    ASSUME TypeOK, NEW s \in Sockets, WalkOfEvent(s)
    PROVE  LET pages == walk[s].pages
           IN  /\ pages \in Seq(SUBSET Sends) /\ PagesRead(s) \subseteq Stored
               /\ \A n \in DOMAIN pages : pages[n] \subseteq PagesRead(s)
               /\ pages # <<>> => /\ Len(pages) \in DOMAIN pages
                                  /\ pages[Len(pages)] \subseteq Stored
<1> DEFINE pages == walk[s].pages
<1>1. pages \in Seq(SUBSET Sends)
  BY DEF TypeOK, Walk
<1>2. PagesRead(s) \subseteq Stored
  BY StoredFinite DEF WalkOfEvent
<1>3. \A n \in DOMAIN pages : pages[n] \subseteq PagesRead(s)
  BY DEF PagesRead
<1>4. pages # <<>> => Len(pages) \in DOMAIN pages
  <2> HIDE DEF pages
  <2> QED
    BY <1>1
<1> QED
  BY <1>1, <1>2, <1>3, <1>4

LEMMA PagesStay ==
    ASSUME TypeOK, TypeOK', MessagesKept, Stored \subseteq Stored',
           NEW s \in Sockets, PagesInv(s), WalkStays(s)
    PROVE  PagesInv(s)'
<1>a. PICK e, pages : /\ e = walk[s].event /\ e = walk'[s].event
                      /\ pages = walk[s].pages /\ pages = walk'[s].pages
  BY DEF WalkStays
<1>1. PagesRead(s)' = PagesRead(s)
  BY DEF WalkStays, PagesRead
<1>2. /\ \A i, j \in Stored : Before(i, j)' = Before(i, j)
      /\ MessagesOf(e) \subseteq MessagesOf(e)'
      /\ (pages[Len(pages)] \subseteq Stored /\ pages[Len(pages)] # {})
            => Cursor(pages)' = Cursor(pages)
  BY OrderStays
<1>3. /\ PagesRead(s) \subseteq Stored
      /\ \A n \in DOMAIN pages : pages[n] \subseteq PagesRead(s)
      /\ pages # <<>> => pages[Len(pages)] \subseteq Stored
  BY <1>a, LastPage DEF PagesInv
<1>4. WalkOfEvent(s)'
  <2>1. WalkOfEvent(s)
    BY DEF PagesInv
  <2>2. PagesRead(s) \subseteq MessagesOf(e)' /\ walk'[s].known \subseteq MessagesOf(e)'
    BY <1>a, <1>2, <2>1 DEF WalkOfEvent, WalkStays
  <2>3. PagesRead(s)' \subseteq MessagesOf(walk[s].event)'
    BY <1>a, <1>1, <2>2
  <2>4. walk'[s].known \subseteq MessagesOf(walk[s].event)'
    BY <1>a, <2>2
  <2>5. /\ walk'[s].at = "idle" => walk'[s] = NoWalk
        /\ walk'[s].at \in {"count", "answered"} => walk'[s].pages # <<>>
        /\ walk'[s].at = "page" => (walk'[s].hasNext <=> walk'[s].pages # <<>>)
    BY <2>1 DEF WalkOfEvent, WalkStays
  <2>6. walk'[s].hasNext
           => walk'[s].pages # <<>> /\ walk'[s].pages[Len(walk'[s].pages)] # {}
    BY <2>1 DEF WalkOfEvent, WalkStays
  <2> QED
    BY <2>3, <2>4, <2>5, <2>6 DEF WalkOfEvent, NoWalk
<1>5. KnownReadOrToCome(s)'
  <2>1. ASSUME NEW i \in walk[s].known, i \notin PagesRead(s)
        PROVE  walk'[s].hasNext /\ Before(i, Cursor(walk[s].pages))'
    <3>1. walk[s].hasNext /\ Before(i, Cursor(pages))
      BY <1>a, <2>1 DEF PagesInv, KnownReadOrToCome
    <3>2. pages[Len(pages)] \subseteq Stored /\ pages[Len(pages)] # {}
      BY <1>a, <1>3, <3>1 DEF PagesInv, WalkOfEvent
    <3>3. PICK c \in Stored : c = Cursor(pages) /\ c = Cursor(pages)'
      BY <1>2, <3>2, Cursors DEF CursorsFit
    <3>4. i \in Stored
      BY <2>1, StoredFinite DEF PagesInv, WalkOfEvent
    <3>5. Before(i, c)'
      BY <1>2, <3>1, <3>3, <3>4
    <3>6. Cursor(walk[s].pages)' = c
      BY <1>a, <3>3
    <3> QED
      BY <3>1, <3>5, <3>6 DEF WalkStays
  <2> QED
    BY <1>1, <2>1 DEF KnownReadOrToCome, WalkStays
<1>6. InOrder(s)'
  <2>1. ASSUME NEW m \in DOMAIN pages, NEW n \in DOMAIN pages, m < n,
               NEW i \in pages[m], NEW j \in pages[n]
        PROVE  Before(j, i)'
    <3>1. Before(j, i)
      BY <1>a, <2>1 DEF PagesInv, InOrder
    <3>2. i \in Stored /\ j \in Stored
      BY <1>3
    <3> QED
      BY <1>2, <3>1, <3>2
  <2> QED
    BY <1>a, <2>1 DEF InOrder
<1>7. CountCovers(s)'
  BY <1>1 DEF PagesInv, CountCovers, WalkStays
<1> QED
  BY <1>4, <1>5, <1>6, <1>7 DEF PagesInv

LEMMA PagesAsk ==
    ASSUME TypeOK, NEW s \in Sockets, PagesInv(s), AskPage(s)
    PROVE  PagesInv(s)'
<1>1. messages' = messages /\ walk \in [Sockets -> Walk]
  BY DEF AskPage, TypeOK
<1>2. /\ walk'[s].pages = walk[s].pages /\ walk'[s].known = walk[s].known
      /\ walk'[s].hasNext = walk[s].hasNext
      /\ \/ walk'[s].at \in {"page", "none"} /\ walk[s] = NoWalk
         \/ /\ walk'[s].at = "page" /\ walk[s].at = "answered" /\ walk[s].hasNext
            /\ walk'[s].event = walk[s].event
  <2>1. CASE walk[s].at = "idle"
    <3>1. walk[s] = NoWalk
      BY <2>1 DEF PagesInv, WalkOfEvent
    <3>2. PICK e \in Visits[s] :
            walk' = [walk EXCEPT ![s].at = IF e \in Existing THEN "page" ELSE "none",
                                 ![s].event = e, ![s].joined = s \in rooms[e]]
      BY <2>1 DEF AskPage
    <3>3. /\ walk'[s].pages = walk[s].pages /\ walk'[s].known = walk[s].known
          /\ walk'[s].hasNext = walk[s].hasNext
      BY <1>1, <3>2 DEF Walk
    <3>4. walk'[s].at = IF e \in Existing THEN "page" ELSE "none"
      BY <1>1, <3>2 DEF Walk
    <3> QED
      BY <3>1, <3>3, <3>4
  <2>2. CASE walk[s].at = "answered"
    BY <1>1, <2>2 DEF AskPage, Walk
  <2> QED
    BY <2>1, <2>2 DEF AskPage
<1>3. walk[s] = NoWalk => PagesRead(s) = {} /\ walk[s].pages = <<>>
                          /\ walk[s].known = {} /\ ~walk[s].hasNext
  BY DEF PagesRead, NoWalk
<1>4. PagesRead(s)' = PagesRead(s)
  BY <1>2 DEF PagesRead
<1>5. WalkOfEvent(s)'
  <2>1. WalkOfEvent(s)
    BY DEF PagesInv
  <2>2. CASE walk[s] = NoWalk
    BY <1>2, <1>3, <1>4, <2>2 DEF WalkOfEvent, NoWalk
  <2>3. CASE walk[s] # NoWalk
    BY <1>1, <1>2, <1>4, <2>1, <2>3 DEF WalkOfEvent, MessagesOf, Stored
  <2> QED
    BY <2>2, <2>3
<1>6. KnownReadOrToCome(s)'
  BY <1>1, <1>2, <1>4 DEF PagesInv, KnownReadOrToCome, Cursor, Before
<1>7. InOrder(s)'
  BY <1>1, <1>2 DEF PagesInv, InOrder, Before
<1>8. CountCovers(s)'
  BY <1>2 DEF CountCovers
<1> QED
  BY <1>5, <1>6, <1>7, <1>8 DEF PagesInv

LEMMA PagesCount ==
    ASSUME TypeOK, NEW s \in Sockets, PagesInv(s), ReadCount(s)
    PROVE  PagesInv(s)'
<1>1. messages' = messages /\ walk \in [Sockets -> Walk]
  BY DEF ReadCount, TypeOK
<1>2. /\ walk'[s].pages = walk[s].pages /\ walk'[s].known = walk[s].known
      /\ walk'[s].hasNext = walk[s].hasNext /\ walk'[s].event = walk[s].event
      /\ walk[s].at = "count" /\ walk'[s].at = "answered"
      /\ walk'[s].totalCount = Cardinality(MessagesOf(walk[s].event))
  BY <1>1 DEF ReadCount, Walk
<1>3. PagesRead(s)' = PagesRead(s)
  BY <1>2 DEF PagesRead
<1>4. WalkOfEvent(s)'
  <2>1. WalkOfEvent(s)
    BY DEF PagesInv
  <2> QED
    BY <1>1, <1>2, <1>3, <2>1 DEF WalkOfEvent, MessagesOf, Stored
<1>5. KnownReadOrToCome(s)'
  BY <1>1, <1>2, <1>3 DEF PagesInv, KnownReadOrToCome, Cursor, Before
<1>6. InOrder(s)'
  BY <1>1, <1>2 DEF PagesInv, InOrder, Before
<1>7. CountCovers(s)'
  <2>1. PagesRead(s) \in SUBSET MessagesOf(walk[s].event)
    BY DEF PagesInv, WalkOfEvent
  <2>2. Cardinality(PagesRead(s)) <= Cardinality(MessagesOf(walk[s].event))
    BY <2>1, StoredFinite, FS_Subset
  <2>3. /\ Cardinality(PagesRead(s)) \in Nat
        /\ Cardinality(MessagesOf(walk[s].event)) \in Nat
    BY <2>1, StoredFinite, FS_Subset, FS_CardinalityType
  <2> QED
    BY <1>2, <1>3, <2>2, <2>3 DEF CountCovers
<1> QED
  BY <1>4, <1>5, <1>6, <1>7 DEF PagesInv

LEMMA PagesGrow ==
    ASSUME TypeOK, NEW s \in Sockets, PagesInv(s), ReadPage(s)
    PROVE  PagesInv(s)'
<1> DEFINE e     == walk[s].event
           pages == walk[s].pages
           k     == Len(pages)
           C     == Candidates(e, pages)
           page  == NewestOf(C)
<1>1. /\ walk[s].at = "page" /\ messages' = messages
      /\ walk'[s].at = "count" /\ walk'[s].event = e
      /\ walk'[s].pages = Append(pages, page)
      /\ walk'[s].hasNext = (Cardinality(C) > PageLimit)
      /\ walk'[s].known = IF pages = <<>> THEN C ELSE walk[s].known
  <2> DEFINE more  == Cardinality(C) > PageLimit
             known == IF pages = <<>> THEN C ELSE walk[s].known
             w     == [walk[s] EXCEPT !.at = "count", !.pages = Append(pages, page),
                                      !.hasNext = more, !.known = known]
  <2>1. walk[s].at = "page" /\ messages' = messages /\ walk'[s] = w
    BY DEF ReadPage, TypeOK
  <2>2. walk[s] \in Walk
    BY DEF TypeOK
  <2> HIDE DEF more, known, C, page
  <2>3. /\ w.at = "count" /\ w.event = e /\ w.pages = Append(pages, page)
        /\ w.hasNext = more /\ w.known = known
    BY <2>2 DEF Walk
  <2> QED
    BY <2>1, <2>3 DEF more, known
<1>2. /\ WalkOfEvent(s) /\ KnownReadOrToCome(s) /\ InOrder(s)
      /\ MessagesOf(e) \subseteq Stored
  BY StoredFinite DEF PagesInv
<1>3. C \in SUBSET MessagesOf(e) /\ C \in SUBSET Stored
  BY <1>2, CandidatesStored
<1>4. /\ page \in SUBSET C
      /\ Cardinality(C) > PageLimit => page # {}
      /\ \A i \in C \ page : /\ Cardinality(C) > PageLimit
                             /\ \A j \in page : Before(i, j)
  BY <1>3, NewestPage
<1>5. /\ pages \in Seq(SUBSET Sends) /\ k \in Nat /\ DOMAIN pages = 1 .. k
      /\ \A n \in 1 .. k : pages[n] \subseteq PagesRead(s) /\ pages[n] \subseteq Stored
      /\ pages # <<>> => k \in 1 .. k /\ pages[k] \subseteq Stored
  <2>1. /\ pages \in Seq(SUBSET Sends) /\ PagesRead(s) \subseteq Stored
        /\ \A n \in DOMAIN pages : pages[n] \subseteq PagesRead(s)
        /\ pages # <<>> => k \in DOMAIN pages /\ pages[k] \subseteq Stored
    BY <1>2, LastPage
  <2>2. k \in Nat /\ DOMAIN pages = 1 .. k
    BY <2>1
  <2> QED
    BY <2>1, <2>2
<1>6. /\ DOMAIN walk'[s].pages = 1 .. k + 1 /\ walk'[s].pages[k + 1] = page
      /\ \A n \in 1 .. k : walk'[s].pages[n] = pages[n]
      /\ Len(walk'[s].pages) = k + 1 /\ walk'[s].pages # <<>>
  <2>1. page \in SUBSET Sends
    BY <1>2, <1>3, <1>4, StoredFinite
  <2> HIDE DEF page, pages
  <2>2. k \in Nat /\ k = Len(pages)
    BY <1>5
  <2> QED
    BY <1>1, <1>5, <2>1
<1> HIDE DEF k, page
<1>7. PagesRead(s)' = PagesRead(s) \cup page
  <2>1. \A n \in 1 .. k + 1 : n \in 1 .. k \/ n = k + 1
    BY <1>5
  <2>2. \A n \in 1 .. k : n \in 1 .. k + 1
    BY <1>5
  <2>3. k + 1 \in 1 .. k + 1
    BY <1>5
  <2> QED
    BY <1>5, <1>6, <2>1, <2>2, <2>3 DEF PagesRead
\* Before the first page there is no cursor; then the candidates are older.
<1>8. ASSUME pages # <<>>
      PROVE  \E c \in pages[k] : /\ c = Cursor(pages)
                                 /\ \A j \in pages[k] : j # c => Before(c, j)
                                 /\ C = {i \in MessagesOf(e) : Before(i, c)}
  <2>1. pages[k] # {}
    BY <1>1, <1>2, <1>8 DEF WalkOfEvent, k
  <2>2. /\ Cursor(pages) \in pages[k]
        /\ \A j \in pages[k] : j # Cursor(pages) => Before(Cursor(pages), j)
    BY <1>5, <1>8, <2>1, Cursors DEF CursorsFit, k
  <2>3. C = {i \in MessagesOf(e) : Before(i, Cursor(pages))}
    BY <1>8 DEF Candidates
  <2> QED
    BY <2>2, <2>3
<1>9. \A i \in C \ page : walk'[s].hasNext /\ Before(i, Cursor(walk[s].pages))'
  <2> TAKE i \in C \ page
  <2>1. /\ Cardinality(C) > PageLimit /\ page # {} /\ page \subseteq Stored
        /\ \A j \in page : Before(i, j)
    BY <1>3, <1>4
  <2>2. PICK ps : ps = walk'[s].pages /\ ps[Len(ps)] = page
    BY <1>6
  <2>3. Cursor(ps) \in page
    BY <2>1, <2>2, Cursors DEF CursorsFit
  <2>4. Before(i, Cursor(ps))
    BY <2>1, <2>3
  <2>5. Before(i, Cursor(ps))'
    BY <1>1, <2>4 DEF Before, Cursor
  <2>6. Before(i, Cursor(walk[s].pages))'
    BY <2>2, <2>5
  <2> QED
    BY <1>1, <2>1, <2>6
<1>10. WalkOfEvent(s)'
  <2>1. MessagesOf(walk[s].event)' = MessagesOf(e)
    BY <1>1 DEF MessagesOf, Stored
  <2>2. PagesRead(s)' \subseteq MessagesOf(e)
    BY <1>2, <1>3, <1>4, <1>7 DEF WalkOfEvent
  <2>3. walk'[s].known \subseteq MessagesOf(e)
    BY <1>1, <1>2, <1>3 DEF WalkOfEvent
  <2>4. walk'[s].hasNext => walk'[s].pages[Len(walk'[s].pages)] # {}
    BY <1>1, <1>4, <1>6
  <2> QED
    BY <1>1, <1>6, <2>1, <2>2, <2>3, <2>4 DEF WalkOfEvent
<1>11. KnownReadOrToCome(s)'
  <2>1. ASSUME NEW i \in walk'[s].known, i \notin PagesRead(s)'
        PROVE  i \in C \ page
    <3>1. i \notin PagesRead(s) /\ i \notin page
      BY <1>7, <2>1
    <3>2. pages # <<>> => i \in C
      <4> HAVE pages # <<>>
      <4>1. i \in walk[s].known /\ i \in MessagesOf(e)
        BY <1>1, <1>2, <2>1 DEF WalkOfEvent
      <4>2. Before(i, Cursor(pages))
        BY <1>2, <3>1, <4>1 DEF KnownReadOrToCome
      <4> QED
        BY <1>8, <4>1, <4>2
    <3> QED
      BY <1>1, <2>1, <3>1, <3>2
  <2> QED
    BY <1>9, <2>1 DEF KnownReadOrToCome
<1>12. InOrder(s)'
  <2>1. ASSUME NEW m \in 1 .. k, NEW i \in pages[m], NEW j \in page
        PROVE  Before(j, i)
    <3>1. PICK c \in pages[k] : /\ \A t \in pages[k] : t # c => Before(c, t)
                                /\ \A t \in C : Before(t, c)
      BY <1>5, <1>8, <2>1
    <3>2. /\ k \in 1 .. k /\ m \in DOMAIN pages /\ k \in DOMAIN pages
          /\ i \in Stored /\ c \in Stored /\ j \in Stored /\ Before(j, c)
      BY <1>3, <1>4, <1>5, <2>1, <3>1
    <3>3. i = c \/ Before(c, i)
      <4>1. m = k \/ m < k
        BY <1>5
      <4>2. m < k => Before(c, i)
        BY <1>2, <3>2 DEF InOrder
      <4> QED
        BY <3>1, <4>1, <4>2
    <3> QED
      BY <3>2, <3>3, BeforeOrders
  <2>2. ASSUME NEW m \in 1 .. k + 1, NEW n \in 1 .. k + 1, m < n,
               NEW i \in walk'[s].pages[m], NEW j \in walk'[s].pages[n]
        PROVE  Before(j, i)
    <3>1. m \in 1 .. k /\ i \in pages[m] /\ (n \in 1 .. k \/ n = k + 1)
      BY <1>5, <1>6, <2>2
    <3>2. CASE n \in 1 .. k
      BY <1>2, <1>5, <1>6, <2>2, <3>1, <3>2 DEF InOrder
    <3>3. CASE n = k + 1
      BY <1>6, <2>1, <2>2, <3>1, <3>3
    <3> QED
      BY <3>1, <3>2, <3>3
  <2>3. \A i, j : Before(j, i)' = Before(j, i)
    BY <1>1 DEF Before
  <2> QED
    BY <1>6, <2>2, <2>3 DEF InOrder
<1>13. CountCovers(s)'
  BY <1>1 DEF CountCovers
<1> QED
  BY <1>10, <1>11, <1>12, <1>13 DEF PagesInv

-----------------------------------------------------------------------------
(* What a client gets that has joined the room *)

\* A message whose broadcast is still to come, or was lost, stays so until its
\* send publishes it; a message just stored is one.
LEMMA ToCome ==
    ASSUME TypeOK, TypeOK', SendsInv, [Next]_vars, NEW i \in Sends
    PROVE  /\ pc[i] \in {"publish", "failed"}
                 => pc'[i] \in {"publish", "failed"} \/ Publish(i)
           /\ i \in Stored' /\ i \notin Stored => pc'[i] \in {"publish", "failed"}
<1>1. ASSUME NEW r \in Sends, SendStep(r)
      PROVE  /\ pc[i] \in {"publish", "failed"}
                   => pc'[i] \in {"publish", "failed"} \/ Publish(i)
             /\ i \in Stored' /\ i \notin Stored => pc'[i] \in {"publish", "failed"}
  <2>1. SendOK(r) /\ AckFits(r)
    BY DEF SendsInv, AckNamesOwnMessage, AckFits
  <2>2. /\ \A t \in Sends \ {r} : pc'[t] = pc[t]
        /\ messages' # messages => Inserts(r)
        /\ Inserts(r) => pc'[r] \in {"publish", "failed"}
        /\ pc[r] # "failed"
    BY <1>1, <2>1, SendStepWrites
  <2>3. pc[r] = "publish" => pc'[r] = "failed" \/ Publish(r)
    BY <1>1 DEF SendStep, Step, Receive, FindDuplicate, Insert, Fail, Acknowledge, TypeOK
  <2>4. i \in Stored' /\ i \notin Stored => i = r /\ Inserts(r)
    <3>1. messages' = messages => Stored' = Stored
      BY DEF Stored
    <3>2. Inserts(r) => Stored' = Stored \cup {r}
      BY <2>1, InsertsRow
    <3> QED
      BY <2>2, <3>1, <3>2
  <2> QED
    BY <2>2, <2>3, <2>4
<1>2. CASE ~\E r \in Sends : SendStep(r)
  <2>1. messages' = messages /\ (pc' = pc \/ Restart)
    BY <1>2, NextSteps DEF ConnectionStep, WalkStep, Connect, handleJoin, Disconnect,
       Deliver, AskPage, Read, ReadPage, ReadCount, Restart, Tick, vars, sendVars
  <2>2. Stored' = Stored
    BY <2>1 DEF Stored
  <2> QED
    BY <2>1, <2>2 DEF Restart
<1> QED
  BY <1>1, <1>2

\* A message of the room that socket s is in.
LEMMA ReachesOrToCome ==
    ASSUME TypeOK, TypeOK', SendsInv, [Next]_vars, MessagesKept, NEW s \in Sockets,
           status'[s] = "open", NEW e, s \in rooms[e], NEW i \in MessagesOf(e)',
           i \in MessagesOf(e) => SentTo(s, i) \/ pc[i] \in {"publish", "failed"}
    PROVE  SentTo(s, i)' \/ pc'[i] \in {"publish", "failed"}
<1>1. i \in Sends /\ i \in Stored'
  BY DEF MessagesOf, Stored
<1>2. CASE i \in Stored
  <2>1. i \in MessagesOf(e) /\ messages[i].event = e
    BY <1>2 DEF MessagesOf, MessagesKept
  <2>2. received[s] \in Seq(Sends) /\ outgoing[s] \in Seq(Sends)
    BY DEF TypeOK
  <2>3. Sent(s) \in Seq(Sends)
    BY <2>2, PacketsKept DEF Sent
  <2>4. CASE SentTo(s, i)
    <3>1. PICK n \in DOMAIN Sent(s) : Sent(s)[n] = i
      BY <2>4 DEF SentTo
    <3>2. Sent(s)' = Sent(s) \/ \E r \in Sends : Sent(s)' = Append(Sent(s), r)
      BY SentStep
    <3>3. n \in DOMAIN (Sent(s)') /\ Sent(s)'[n] = i
      BY <2>3, <3>1, <3>2
    <3> QED
      BY <3>3 DEF SentTo
  <2>5. CASE pc[i] \in {"publish", "failed"}
    <3>1. Publish(i) => PublishesTo(s, i)
      BY <2>1 DEF PublishesTo
    <3>2. Publish(i) => Sent(s)' = Append(Sent(s), i)
      BY <1>1, <3>1, SentStep
    <3>3. Publish(i) => Len(Sent(s)) + 1 \in DOMAIN (Sent(s)')
                        /\ Sent(s)'[Len(Sent(s)) + 1] = i
      BY <1>1, <2>3, <3>2
    <3> QED
      BY <1>1, <2>5, <3>3, ToCome DEF SentTo
  <2> QED
    BY <2>1, <2>4, <2>5
<1>3. CASE i \notin Stored
  BY <1>1, <1>3, ToCome
<1> QED
  BY <1>2, <1>3

LEMMA RoomsStep ==
    ASSUME TypeOK, [Next]_vars, NEW s \in Sockets,
           \A e \in Events : s \in rooms[e] => status[s] = "open"
    PROVE  /\ \A e \in Events : s \in rooms'[e] => status'[s] = "open"
           /\ status[s] # "new" => status'[s] # "new"
           /\ status[s] = "closed" => status'[s] = "closed"
           /\ status'[s] = "open"
                => \A e \in Events : s \in rooms[e] => s \in rooms'[e]
<1>1. CASE status' = status /\ rooms' = rooms
  BY <1>1
<1>2. ASSUME NEW t \in Sockets, Connect(t)
      PROVE  /\ status[t] = "new" /\ rooms' = rooms /\ status'[t] = "open"
             /\ \A u \in Sockets \ {t} : status'[u] = status[u]
  BY <1>2 DEF Connect, TypeOK
<1>3. ASSUME NEW t \in Sockets, handleJoin(t)
      PROVE  /\ status[t] = "open" /\ status' = status
             /\ \A e \in Events : /\ rooms[e] \subseteq rooms'[e]
                                  /\ rooms'[e] \subseteq rooms[e] \cup {t}
  BY <1>3 DEF handleJoin, TypeOK
<1>4. ASSUME NEW gone \in SUBSET Sockets, Close(gone)
      PROVE  /\ status'[s] = IF s \in gone THEN "closed" ELSE status[s]
             /\ \A e \in Events : rooms'[e] = rooms[e] \ gone
  BY <1>4 DEF Close
<1>5. \/ status' = status /\ rooms' = rooms
      \/ \E t \in Sockets : Connect(t) \/ handleJoin(t)
      \/ \E gone \in SUBSET Sockets : Close(gone)
  <2>1. ASSUME NEW t \in Sockets, Disconnect(t) PROVE Close({t}) /\ {t} \in SUBSET Sockets
    BY <2>1 DEF Disconnect
  <2>2. CASE Restart
    <3>1. {t \in Sockets : status[t] = "open"} \in SUBSET Sockets
      OBVIOUS
    <3> QED
      BY <2>2, <3>1 DEF Restart
  <2>3. CASE \E r \in Sends : SendStep(r)
    BY <2>3 DEF SendStep, Step, Receive, FindDuplicate, Insert, Publish, Fail, socketVars
  <2>4. CASE \E t \in Sockets : ConnectionStep(t) \/ WalkStep(t)
    BY <2>1, <2>4 DEF ConnectionStep, WalkStep, Deliver, AskPage, Read,
       ReadPage, ReadCount, socketVars
  <2>5. CASE Tick \/ UNCHANGED vars
    BY <2>5 DEF Tick, vars, socketVars
  <2> QED
    BY <2>2, <2>3, <2>4, <2>5, NextSteps
<1>6. ASSUME NEW t \in Sockets, Connect(t) \/ handleJoin(t)
      PROVE  /\ \A e \in Events : s \in rooms'[e] => status'[s] = "open"
             /\ status[s] # "new" => status'[s] # "new"
             /\ status[s] = "closed" => status'[s] = "closed"
             /\ \A e \in Events : s \in rooms[e] => s \in rooms'[e]
  BY <1>2, <1>3, <1>6
<1> QED
  BY <1>1, <1>4, <1>5, <1>6

\* What a step may do to the walk of socket s.
LEMMA WalkChanges ==
    ASSUME TypeOK, [Next]_vars, NEW s \in Sockets
    PROVE  WalkStays(s) \/ AskPage(s) \/ ReadPage(s) \/ ReadCount(s)
<1>1. walk[s] \in Walk
  BY DEF TypeOK
<1>2. walk'[s] = walk[s] => WalkStays(s)
  BY DEF WalkStays
<1>3. CASE Restart
  <2>1. walk'[s] = IF walk[s].at \in {"page", "count"}
                   THEN [walk[s] EXCEPT !.at = "none"] ELSE walk[s]
    BY <1>3 DEF Restart
  <2>2. ASSUME walk'[s] = [walk[s] EXCEPT !.at = "none"] PROVE WalkStays(s)
    BY <1>1, <2>2 DEF WalkStays, Walk
  <2> QED
    BY <1>2, <2>1, <2>2
<1>4. ASSUME NEW t \in Sockets, t # s, WalkStep(t) PROVE walk'[s] = walk[s]
  BY <1>4 DEF WalkStep, AskPage, Read, ReadPage, ReadCount, TypeOK
<1>5. CASE ~Restart /\ ~\E t \in Sockets : WalkStep(t)
  BY <1>2, <1>5, NextSteps DEF SendStep, Step, Receive, FindDuplicate, Insert, Publish,
     Fail, ConnectionStep, Connect, handleJoin, Disconnect, Deliver, Tick, vars
<1> QED
  BY <1>2, <1>3, <1>4, <1>5 DEF WalkStep, Read

LEMMA RoomInvStep ==
    ASSUME TypeOK, TypeOK', SendsInv, [Next]_vars, MessagesKept, NEW s \in Sockets,
           RoomInv(s), WalkOfEvent(s)
    PROVE  RoomInv(s)'
<1>1. /\ \A e \in Events : s \in rooms[e] => status[s] = "open"
      /\ walk[s].joined => walk[s].event \in Events /\ status[s] # "new"
  BY DEF RoomInv, RoomsAreOpen
<1>2. /\ \A e \in Events : s \in rooms'[e] => status'[s] = "open"
      /\ status[s] # "new" => status'[s] # "new"
      /\ status[s] = "closed" => status'[s] = "closed"
      /\ status'[s] = "open" => \A e \in Events : s \in rooms[e] => s \in rooms'[e]
      /\ status[s] \in {"new", "open", "closed"}
  BY <1>1, RoomsStep DEF TypeOK
<1>3. /\ walk \in [Sockets -> Walk] /\ walk[s] \in Walk
  BY DEF TypeOK
\* The client asks for its first page.
<1>4. CASE walk[s].at = "idle" /\ AskPage(s)
  <2>1. walk[s] = NoWalk
    BY <1>4 DEF WalkOfEvent
  <2>2. PICK e \in Visits[s] :
          walk' = [walk EXCEPT ![s].at = IF e \in Existing THEN "page" ELSE "none",
                               ![s].event = e, ![s].joined = s \in rooms[e]]
    BY <1>4 DEF AskPage
  <2>3. e \in Events
    BY ChatsAssumption
  <2>4. /\ walk'[s].pages = <<>> /\ walk'[s].event = e
        /\ walk'[s].joined = (s \in rooms[e])
    <3>1. walk'[s].event = e /\ walk'[s].pages = walk[s].pages
      BY <1>3, <2>2 DEF Walk
    <3>2. walk'[s].joined = (s \in rooms[e])
      BY <1>3, <2>2 DEF Walk
    <3> QED
      BY <2>1, <3>1, <3>2 DEF NoWalk
  <2>5. rooms' = rooms /\ status' = status
    BY <1>4 DEF AskPage, socketVars
  <2>6. RoomsAreOpen(s)'
    BY <1>1, <2>3, <2>4, <2>5 DEF RoomsAreOpen
  <2>7. JoinedGetsTheRest(s)'
    BY <2>4, <2>5 DEF JoinedGetsTheRest
  <2> QED
    BY <2>6, <2>7 DEF RoomInv
\* Afterwards the event stays, and what was known stays or is read now.
<1>5. CASE ~(walk[s].at = "idle" /\ AskPage(s))
  <2>1. /\ walk'[s].event = walk[s].event /\ walk'[s].joined = walk[s].joined
        /\ \/ walk'[s].known = walk[s].known /\ walk'[s].pages = walk[s].pages
           \/ /\ walk[s].pages # <<>> /\ walk'[s].known = walk[s].known
           \/ /\ messages' = messages
              /\ walk'[s].known = MessagesOf(walk[s].event)
    <3>1. CASE WalkStays(s)
      BY <3>1 DEF WalkStays
    <3>2. CASE AskPage(s)
      BY <1>3, <1>5, <3>2 DEF AskPage, Walk
    <3>3. CASE ReadCount(s)
      BY <1>3, <3>3 DEF ReadCount, Walk
    <3>4. CASE ReadPage(s)
      <4> DEFINE C == Candidates(walk[s].event, walk[s].pages)
      <4>1. /\ walk'[s].event = walk[s].event /\ walk'[s].joined = walk[s].joined
            /\ walk'[s].known = IF walk[s].pages = <<>> THEN C ELSE walk[s].known
            /\ messages' = messages
        BY <1>3, <3>4 DEF ReadPage, Walk
      <4>2. walk[s].pages = <<>> => C = MessagesOf(walk[s].event)
        BY DEF Candidates
      <4> QED
        BY <4>1, <4>2
    <3> QED
      BY <3>1, <3>2, <3>3, <3>4, WalkChanges
  <2>2. RoomsAreOpen(s)'
    BY <1>1, <1>2, <2>1 DEF RoomsAreOpen
  <2>3. ASSUME walk'[s].joined, status'[s] = "open"
        PROVE  /\ s \in rooms'[walk'[s].event]
               /\ walk'[s].pages # <<>> => \A i \in MessagesOf(walk[s].event)' :
                     i \in walk'[s].known \/ SentTo(s, i)' \/ pc'[i] \in {"publish", "failed"}
    <3>1. PICK e \in Events : e = walk[s].event /\ e = walk'[s].event
      BY <1>1, <2>1, <2>3
    <3>2. /\ status[s] = "open" /\ s \in rooms[e] /\ s \in rooms'[e]
          /\ walk[s].pages # <<>> => \A i \in MessagesOf(e) :
                i \in walk[s].known \/ SentTo(s, i) \/ pc[i] \in {"publish", "failed"}
      BY <1>1, <1>2, <2>1, <2>3, <3>1 DEF RoomInv, JoinedGetsTheRest
    <3>3. ASSUME NEW i \in MessagesOf(e)', walk'[s].pages # <<>>
          PROVE  i \in walk'[s].known \/ SentTo(s, i)' \/ pc'[i] \in {"publish", "failed"}
      <4>1. CASE messages' = messages /\ walk'[s].known = MessagesOf(walk[s].event)
        BY <3>1, <3>3, <4>1 DEF MessagesOf, Stored
      <4>2. CASE walk[s].pages # <<>> /\ walk'[s].known = walk[s].known
        <5>1. i \in MessagesOf(e) =>
                i \in walk[s].known \/ SentTo(s, i) \/ pc[i] \in {"publish", "failed"}
          BY <3>2, <4>2
        <5> QED
          BY <2>3, <3>2, <3>3, <4>2, <5>1, ReachesOrToCome
      <4> QED
        BY <2>1, <3>3, <4>1, <4>2
    <3>4. MessagesOf(walk[s].event)' = MessagesOf(e)'
      BY <3>1
    <3> QED
      BY <3>1, <3>2, <3>3, <3>4
  <2>4. JoinedGetsTheRest(s)'
    BY <2>3 DEF JoinedGetsTheRest
  <2> QED
    BY <2>2, <2>4 DEF RoomInv
<1> QED
  BY <1>4, <1>5

-----------------------------------------------------------------------------
(* The invariant and what it says *)

WalksInv == \A s \in Sockets : PagesInv(s) /\ RoomInv(s)

LEMMA WalksInit == Init => WalksInv
<1> SUFFICES ASSUME Init, NEW s \in Sockets PROVE PagesInv(s) /\ RoomInv(s)
  BY DEF WalksInv
<1>1. walk[s] = NoWalk /\ status[s] = "new" /\ \A e \in Events : rooms[e] = {}
  BY DEF Init
<1>2. /\ walk[s].at = "idle" /\ walk[s].pages = <<>> /\ walk[s].known = {}
      /\ ~walk[s].hasNext /\ ~walk[s].joined
  BY <1>1 DEF NoWalk
<1>3. DOMAIN walk[s].pages = {}
  BY <1>2
<1>4. PagesRead(s) = {}
  BY <1>3 DEF PagesRead
<1>5. PagesInv(s)
  BY <1>1, <1>2, <1>3, <1>4
     DEF PagesInv, WalkOfEvent, KnownReadOrToCome, InOrder, CountCovers
<1>6. RoomInv(s)
  BY <1>1, <1>2 DEF RoomInv, RoomsAreOpen, JoinedGetsTheRest
<1> QED
  BY <1>5, <1>6

LEMMA WalksStep ==
    ASSUME TypeOK, TypeOK', SendsInv, MessagesKept, WalksInv, [Next]_vars
    PROVE  WalksInv'
<1>1. ASSUME NEW s \in Sockets PROVE (PagesInv(s) /\ RoomInv(s))'
  <2>1. PagesInv(s) /\ RoomInv(s) /\ WalkOfEvent(s)
    BY DEF WalksInv, PagesInv
  <2>2. RoomInv(s)'
    BY <2>1, RoomInvStep
  <2>3. Stored \subseteq Stored'
    BY <1>1 DEF MessagesKept, Stored
  <2>4. PagesInv(s)'
    BY <2>1, <2>3, WalkChanges, PagesStay, PagesAsk, PagesGrow, PagesCount
  <2> QED
    BY <2>2, <2>4
<1> QED
  BY <1>1 DEF WalksInv

LEMMA InvParts == IInv <=> TypeOK /\ SendsInv /\ SentInv /\ WalksInv
BY DEF IInv, SendsInv, SentInv, WalksInv, WalkOK, PagesInv, RoomInv, PagesInOrder,
   InOrder, TotalCountCoversPages, CountCovers

LEMMA InvPartsThen == IInv' <=> TypeOK' /\ SendsInv' /\ SentInv' /\ WalksInv'
BY InvParts, PTL

\* IInv holds in every state, however sends, deliveries, page reads, broken
\* connections and restarts interleave.
THEOREM ChatsInvariance == Spec => []IInv
<1>1. Init => IInv
  BY TypeInit, SendsInit, SentInit, WalksInit, InvParts
<1>2. IInv /\ [Next]_vars => IInv'
  <2> SUFFICES ASSUME IInv, [Next]_vars PROVE IInv'
    OBVIOUS
  <2>1. TypeOK /\ SendsInv /\ SentInv /\ WalksInv
    BY InvParts
  <2>2. TypeOK'
    BY <2>1, TypeStep DEF SendsInv
  <2>3. SendsInv' /\ MessagesKept
    BY <2>1, <2>2, SendsStep
  <2>4. SentInv'
    BY <2>1, SentInvStep
  <2>5. WalksInv'
    BY <2>1, <2>2, <2>3, WalksStep
  <2> QED
    BY <2>2, <2>3, <2>4, <2>5, InvPartsThen
<1> QED
  BY <1>1, <1>2, PTL DEF Spec

\* The variables of Chats hold what they should.
THEOREM ChatsTypeCorrect == Spec => []TypeOK
<1>1. IInv => TypeOK
  BY DEF IInv
<1> QED
  BY <1>1, ChatsInvariance, PTL

\* However often a message is sent, and however the sends interleave and fail,
\* it is stored once per user and clientMessageId.
THEOREM MessagesAreStoredOnce == Spec => []OneMessagePerClientId
<1>1. IInv => OneMessagePerClientId
  BY DEF IInv
<1> QED
  BY <1>1, ChatsInvariance, PTL

\* A success carries the sender's own stored message under the clientMessageId
\* of the command, whether the send inserted it or found it.
THEOREM SuccessNamesOwnMessage == Spec => []AckNamesOwnMessage
<1>1. IInv => AckNamesOwnMessage
  BY DEF IInv
<1> QED
  BY <1>1, ChatsInvariance, PTL

\* No client is sent a message twice: a resend is not broadcast again.
THEOREM MessagesAreSentOnce == Spec => []SentOnce
<1>1. IInv => SentOnce
  BY DEF IInv
<1> QED
  BY <1>1, ChatsInvariance, PTL

\* Each page of the history is older than the pages read before it, whatever is
\* stored in between, so the cursor neither repeats nor reorders a message.
THEOREM PagesAreInOrder == Spec => []PagesInOrder
<1>1. IInv => PagesInOrder
  BY DEF IInv
<1> QED
  BY <1>1, ChatsInvariance, PTL

\* totalCount is never smaller than what the client has read.
THEOREM TotalCountCovers == Spec => []TotalCountCoversPages
<1>1. IInv => TotalCountCoversPages
  BY DEF IInv
<1> QED
  BY <1>1, ChatsInvariance, PTL

\* Who reads the history to its end has seen every message that was stored when
\* the first page was read.
THEOREM HistoryIsComplete == Spec => []HistoryComplete
<1>1. IInv => HistoryComplete
  BY DEF IInv, WalkOK, KnownReadOrToCome, HistoryComplete, ReadToTheEnd
<1> QED
  BY <1>1, ChatsInvariance, PTL

\* Who joins the room before reading the history to its end misses no message
\* while the connection lasts, except one whose send a fault has hit.
THEOREM NoMessageMissed == Spec => []JoinedReaderMissesNothing
<1>1. IInv => JoinedReaderMissesNothing
  <2> SUFFICES ASSUME IInv, NEW s \in Sockets, ReadToTheEnd(s), walk[s].joined,
                      status[s] = "open", NEW i \in MessagesOf(walk[s].event)
               PROVE  \/ i \in PagesRead(s)
                      \/ \E n \in DOMAIN received[s] : received[s][n] = i
                      \/ \E n \in DOMAIN outgoing[s] : outgoing[s][n] = i
                      \/ pc[i] \in {"publish", "failed"}
    BY DEF JoinedReaderMissesNothing
  <2>1. WalkOfEvent(s) /\ KnownReadOrToCome(s) /\ JoinedGetsTheRest(s) /\ TypeOK
    BY DEF IInv, WalkOK
  <2>2. walk[s].pages # <<>> /\ walk[s].known \subseteq PagesRead(s)
    BY <2>1 DEF WalkOfEvent, KnownReadOrToCome, ReadToTheEnd
  <2>3. i \in walk[s].known \/ SentTo(s, i) \/ pc[i] \in {"publish", "failed"}
    BY <2>1, <2>2 DEF JoinedGetsTheRest
  <2>4. ASSUME SentTo(s, i)
        PROVE  \/ \E n \in DOMAIN received[s] : received[s][n] = i
               \/ \E n \in DOMAIN outgoing[s] : outgoing[s][n] = i
    <3>1. received[s] \in Seq(Sends) /\ outgoing[s] \in Seq(Sends)
      BY <2>1 DEF TypeOK
    <3>2. PICK n \in DOMAIN Sent(s) : Sent(s)[n] = i
      BY <2>4 DEF SentTo
    <3>3. \/ n \in DOMAIN received[s] /\ received[s][n] = i
          \/ /\ n - Len(received[s]) \in DOMAIN outgoing[s]
             /\ outgoing[s][n - Len(received[s])] = i
      <4>1. \A a, b \in Seq(Sends) : \A m \in DOMAIN (a \o b) :
               \/ m \in DOMAIN a /\ (a \o b)[m] = a[m]
               \/ m - Len(a) \in DOMAIN b /\ (a \o b)[m] = b[m - Len(a)]
        BY PacketOfEither
      <4>2. \A m \in DOMAIN (received[s] \o outgoing[s]) :
               \/ /\ m \in DOMAIN received[s]
                  /\ (received[s] \o outgoing[s])[m] = received[s][m]
               \/ /\ m - Len(received[s]) \in DOMAIN outgoing[s]
                  /\ (received[s] \o outgoing[s])[m] = outgoing[s][m - Len(received[s])]
        BY <3>1, <4>1
      <4> QED
        BY <3>2, <4>2 DEF Sent
    <3> QED
      BY <3>3
  <2> QED
    BY <2>2, <2>3, <2>4
<1> QED
  BY <1>1, ChatsInvariance, PTL

=============================================================================
