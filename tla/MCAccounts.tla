----------------------------- MODULE MCAccounts -----------------------------
(* An instance of Accounts for TLC. *)
EXTENDS Accounts, TLC

CONSTANTS alice, bob, carol, p1, p2, c1, c2

MCPool == <<bob, carol>>

MCInitialUsers == 0 :> [nickname |-> alice, password |-> p1, affiliation |-> c1]

Body(kind, nickname, password, code) ==
    [kind |-> kind, nickname |-> nickname, password |-> password, code |-> code]

Signups(nickname, passwords, codes) ==
    {Body("signup", nickname, p, c) : p \in passwords, c \in codes}

Plain(kinds) == {Body(k, bob, p1, c1) : k \in kinds}

MCInbox ==
    1 :> Signups(bob, {p1}, {c1}) \cup {Body("login", alice, p1, c1), Body("login", alice, p2, c1)}
 @@ 2 :> Signups(bob, {p1, p2}, {c1, c2}) \cup {Body("signup", carol, p1, c1)}
         \cup Plain({"refresh"})
 @@ 3 :> Plain({"available", "suggest", "login", "refresh", "act"})
 @@ 4 :> Plain({"suggest", "act", "view"})
=============================================================================
