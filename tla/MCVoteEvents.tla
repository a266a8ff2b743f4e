---------------------------- MODULE MCVoteEvents ----------------------------
(* Scenarios of VoteEvents for TLC: who sends which calls to which events. *)
EXTENDS VoteEventsInvariant

CONSTANTS alice, bob, carol, e1, e2, e3

TwoUsers   == {alice, bob}
ThreeUsers == {alice, bob, carol}

Call(kind, u, e) ==
    [kind |-> kind, user |-> u, event |-> e, option |-> "A", tokenAmount |-> 0,
     category |-> "daily", deadlineAt |-> 0]
Vote(u, e, o, n)   == [Call("vote", u, e) EXCEPT !.option = o, !.tokenAmount = n]
Confirm(u, e, o)   == [Call("confirm", u, e) EXCEPT !.option = o]
Claim(u, e)        == Call("claim", u, e)
Open(u, e, k, d)   == [Call("create", u, e) EXCEPT !.category = k, !.deadlineAt = d]

\* One betting event of alice's.  Alice and bob stake as much on A, carol one
\* token that cannot be halved on B; alice confirms A; then the winners or the loser
\* claim, with one claim sent twice.
RaceEvents == [e \in {e1} |-> NewEvent("betting", alice, 1)]
RaceInbox ==
    <<{Vote(alice, e1, "A", 1)}, {Vote(bob, e1, "A", 1)}, {Vote(carol, e1, "B", 1)},
      {Confirm(alice, e1, "A")},
      {Claim(alice, e1), Claim(carol, e1)},
      {Claim(alice, e1), Claim(bob, e1)}>>

\* The betting events e1 of alice's and e2 of bob's close at 1 and at 2.  Alice
\* sends two votes at once, on one event or on both, with tokens enough for the
\* two or for either alone; a confirmation, an event opened for a vote, a
\* claim, a second confirmation: every one may be lost to a fault.
ClashEvents ==
    [e \in {e1, e2, e3} |->
        CASE e = e1 -> NewEvent("betting", alice, 1)
          [] e = e2 -> NewEvent("betting", bob, 2)
          [] e = e3 -> Null]
ClashInbox ==
    <<{Vote(alice, e1, "A", 2), Vote(alice, e1, "A", 1)},
      {Vote(alice, e1, "B", 1), Vote(alice, e2, "A", 1)},
      {Confirm(alice, e1, "A"), Open(alice, e3, "daily", 1),
       Open(alice, e3, "daily", Null)},
      {Claim(alice, e1), Claim(bob, e1), Confirm(alice, e1, "B"),
       Vote(bob, e3, "B", 0), Vote(bob, e3, "B", 1)}>>

\* A betting and a daily event, on which two users and one user twice vote, with
\* a confirmation and a claim among the votes: every cycle of waits.
ProgressEvents ==
    [e \in {e1, e2, e3} |->
        CASE e = e1 -> NewEvent("betting", alice, 1)
          [] e = e2 -> NewEvent("daily", bob, 2)
          [] e = e3 -> Null]
ProgressInbox ==
    <<{Vote(alice, e1, "A", 1), Vote(alice, e2, "A", 0)},
      {Vote(alice, e2, "B", 0), Vote(bob, e1, "A", 1), Vote(bob, e1, "A", 0)},
      {Confirm(alice, e1, "A"), Confirm(bob, e1, "A"), Vote(bob, e2, "B", 0)},
      {Claim(alice, e1), Open(alice, e3, "daily", 1)}>>

=============================================================================
