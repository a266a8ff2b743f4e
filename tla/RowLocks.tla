------------------------------ MODULE RowLocks ------------------------------
(***************************************************************************)
(* The row locks of MariaDB's InnoDB engine as the transactions of this    *)
(* API meet them: shared locks taken by foreign key checks, exclusive      *)
(* locks taken by UPDATE, by SELECT ... FOR UPDATE and by an INSERT on its *)
(* unique key.  A transaction keeps what it was granted until it ends.     *)
(* held maps each transaction to its set of locks, wanted to the locks of  *)
(* the statement it is about to execute or is waiting in.                  *)
(***************************************************************************)
LOCAL INSTANCE Integers

Shared(row)    == [row |-> row, mode |-> "S"]
Exclusive(row) == [row |-> row, mode |-> "X"]

\* The rows the transactions lock, told apart by their table.
UserRow(u)              == <<"users", u>>
EventRow(e)             == <<"vote_events", e>>
ParticipationKey(e, u)  == <<"vote_event_participations", e, u>>

\* Two locks of different transactions that InnoDB does not grant together.
Conflict(k, l) == k.row = l.row /\ (k.mode = "X" \/ l.mode = "X")

\* Transaction r waits for transaction t.
WaitsFor(held, wanted, r, t) ==
    /\ r # t
    /\ \E k \in held[t], l \in wanted[r] : Conflict(k, l)

Blocked(held, wanted, r) ==
    \E t \in DOMAIN held : WaitsFor(held, wanted, r, t)

\* Every transaction of ts waits for another one of ts, so none can go on.
Stuck(held, wanted, ts) ==
    /\ ts # {}
    /\ \A r \in ts : \E t \in ts : WaitsFor(held, wanted, r, t)

\* The transactions on a cycle of waits, one of which InnoDB rolls back.
Deadlocked(held, wanted) ==
    LET waiting == {r \in DOMAIN held : Blocked(held, wanted, r)}
    IN  UNION {ts \in SUBSET waiting :
                  /\ Stuck(held, wanted, ts)
                  /\ \A us \in SUBSET ts : Stuck(held, wanted, us) => us = ts}

=============================================================================
