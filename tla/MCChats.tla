------------------------------- MODULE MCChats -------------------------------
(* Scenarios of Chats for TLC: who is connected, sends what and reads what. *)
EXTENDS ChatsProperties

CONSTANTS alice, bob, e1, e2, s1, s2, c1, c2, c3

TwoUsers == {alice, bob}
Users2Of == [s \in {s1, s2} |-> IF s = s1 THEN alice ELSE bob]

Says(s, e, c, content) ==
    [socket |-> s, event |-> e, clientMessageId |-> c, content |-> content]

\* Alice sends one message, then the same again or another, unless one of them is
\* refused for its event or its content; bob sends one with the same client id as
\* alice's first.
SendOutbox ==
    <<{Says(s1, e1, c1, "text"), Says(s1, e2, c1, "text")},
      {Says(s1, e1, c1, "text"), Says(s1, e1, c2, "text"), Says(s1, e1, c1, "blank"),
       Says(s1, e1, c2, "none")},
      {Says(s2, e1, c1, "text")}>>
NoVisits == [s \in {s1, s2} |-> {}]

\* Bob sends three messages and reads the history over the same socket: sends
\* do not wait for each other, so they meet his reads as those of others would.
BobOf == [s \in {s2} |-> bob]
HistoryOutbox == <<{Says(s2, e1, c1, "text")}, {Says(s2, e1, c2, "text")},
                   {Says(s2, e1, c3, "text")}>>
BobVisits == [s \in {s2} |-> {e1}]

\* Alice sends one message and sends it again.
ResendOutbox == <<{Says(s1, e1, c1, "text")}, {Says(s1, e1, c1, "text")}>>

=============================================================================
