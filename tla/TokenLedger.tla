----------------------------- MODULE TokenLedger -----------------------------
(***************************************************************************)
(* What betting promises, as if each request were one indivisible step:    *)
(* a bet moves its stake out of the wallet of its user and is placed only  *)
(* while the event has no result and once per user; an event is settled    *)
(* once; each winning bet is paid once, by the payout rule.  VoteEvents    *)
(* implements it with transactions that interleave, wait, fail and retry.  *)
(***************************************************************************)
EXTENDS BettingPayout

CONSTANTS Users, Events, Ids, Null, InitialVoteToken

VARIABLES wallet,  \* tokens each user can spend
          bets,    \* participation of each id, Null while there is none
          result,  \* winning option of each event, Null until it is settled
          paid     \* ids of the bets whose payout was credited

ledger == <<wallet, bets, result, paid>>

Placed == {i \in Ids : bets[i] # Null}

BetsOn(e) == [i \in {j \in Placed : bets[j].event = e} |-> bets[i]]

Init ==
    /\ wallet = [u \in Users |-> InitialVoteToken]
    /\ bets = [i \in Ids |-> Null]
    /\ result = [e \in Events |-> Null]
    /\ paid = {}

\* The participation b is recorded under the new id i and its stake debited.
Place(i, b) ==
    /\ bets[i] = Null /\ b # Null
    /\ result[b.event] = Null
    /\ \A j \in Placed : bets[j].event = b.event => bets[j].user # b.user
    /\ wallet[b.user] >= b.tokenAmount
    /\ bets' = [bets EXCEPT ![i] = b]
    /\ wallet' = [wallet EXCEPT ![b.user] = @ - b.tokenAmount]
    /\ UNCHANGED <<result, paid>>

Settle(e, option) ==
    /\ result[e] = Null
    /\ result' = [result EXCEPT ![e] = option]
    /\ UNCHANGED <<wallet, bets, paid>>

Pay(i) ==
    /\ i \in Placed \ paid
    /\ result[bets[i].event] = bets[i].selectedOption
    /\ wallet' = [wallet EXCEPT ![bets[i].user] = @ +
                    calculateBettingPayouts(BetsOn(bets[i].event),
                                            bets[i].selectedOption)[i]]
    /\ paid' = paid \cup {i}
    /\ UNCHANGED <<bets, result>>

Next ==
    \/ \E i \in Ids : Place(i, bets'[i])
    \/ \E e \in Events, option \in {"A", "B"} : Settle(e, option)
    \/ \E i \in Ids : Pay(i)

Spec == Init /\ [][Next]_ledger

=============================================================================
