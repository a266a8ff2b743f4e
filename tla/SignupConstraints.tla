-------------------------- MODULE SignupConstraints --------------------------
(***************************************************************************)
(* Migration20260630120000_UserSignupConstraints, run by run-migrations.ts *)
(* on each deployment and rolled back by hand.  It is not transactional:   *)
(* every statement commits on its own, and a run that stops half-way is    *)
(* started again from the first statement, which is what the questions it  *)
(* puts to information_schema are for.  A question and the statement that  *)
(* hangs on it are one step, for nobody else changes the schema.           *)
(***************************************************************************)
EXTENDS Naturals

CONSTANTS
    Users, Codes,
    MaxCrashes,   \* bound: runs that stop half-way
    MaxRollbacks  \* bound: uses of down

ASSUME SignupConstraintsAssumption == MaxCrashes \in Nat /\ MaxRollbacks \in Nat

VARIABLES
    schema,    \* what the migration may change of the two tables
    value,     \* what each user's row refers to its affiliation by
    origin,    \* the affiliation each user has, by code
    direction, \* "up" or "down"
    pc,        \* statement the run is at
    run,       \* "running", "stopped", "failed" or "recorded"
    crashedAt, \* statements before which a run of up stopped
    crashes, rollbacks

vars == <<schema, value, origin, direction, pc, run, crashedAt, crashes,
          rollbacks>>

\* A legacy affiliation's id; its code is another column of its row.
Id(code) == <<"id", code>>

\* Codes are words ("education", "e-academy"); no generated id is one of them.
ASSUME IdsAssumption == \A c \in Codes : Id(c) \notin Codes

\* Migration20260630075056, for a database made from the migrations.
CodeBased ==
    [column |-> "affiliation_code", notNull |-> FALSE, voteToken |-> 0,
     indexes |-> {"users_affiliation_code_index"},
     foreignKeys |-> {"users_affiliation_code_foreign"}, onDelete |-> "set_null",
     hasId |-> FALSE, primaryKey |-> "code"]

\* The older database the migration looks for.
Legacy ==
    [column |-> "affiliation_id", notNull |-> FALSE, voteToken |-> 0,
     indexes |-> {"users_affiliation_id_index", "affiliations_code_unique"},
     foreignKeys |-> {"users_affiliation_id_foreign"}, onDelete |-> "set_null",
     hasId |-> TRUE, primaryKey |-> "id"]

Init ==
    /\ origin \in [Users -> Codes]
    /\ \/ schema = CodeBased /\ value = origin
       \/ schema = Legacy /\ value = [u \in Users |-> Id(origin[u])]
    /\ direction = "up" /\ pc = 1 /\ run = "running"
    /\ crashedAt = {} /\ crashes = 0 /\ rollbacks = 0

-----------------------------------------------------------------------------
(* Statements *)

\* Statement n: when its question is answered yes it is executed, and the run
\* fails if it cannot be; when no, the run goes on at another statement.
Statement(way, n, asked, otherwise, possible, change) ==
    /\ run = "running" /\ direction = way /\ pc = n
    /\ pc' = IF asked THEN n + 1 ELSE otherwise
    /\ run' = IF asked /\ ~possible THEN "failed" ELSE run
    /\ schema' = IF asked /\ possible THEN change ELSE schema
    /\ UNCHANGED <<value, origin, direction, crashedAt, crashes, rollbacks>>

HasForeignKey_Assumed(name) == TRUE

HasForeignKey(name) == name \in schema.foreignKeys

DropForeignKey(way, n, name) ==
    Statement(way, n, HasForeignKey(name), n + 1, name \in schema.foreignKeys,
              [schema EXCEPT !.foreignKeys = @ \ {name}])

DropIndex(n, name) ==
    Statement("up", n, name \in schema.indexes, n + 1, TRUE,
              [schema EXCEPT !.indexes = @ \ {name}])

\* A foreign key can be added when it is not there yet, there is a key to refer
\* to, and every row refers to one; down does not ask first.
AddForeignKey(way, n, rule) ==
    Statement(way, n, way = "down" \/ ~HasForeignKey("users_affiliation_code_foreign"), n + 1,
              /\ "users_affiliation_code_foreign" \notin schema.foreignKeys
              /\ schema.primaryKey = "code"
              /\ \A u \in Users : value[u] \in Codes,
              [schema EXCEPT !.foreignKeys = @ \cup {"users_affiliation_code_foreign"},
                             !.onDelete = rule])

ModifyCode(way, n, notNull) ==
    Statement(way, n, TRUE, n, TRUE, [schema EXCEPT !.notNull = notNull])

ModifyVoteToken(way, n, default) ==
    Statement(way, n, TRUE, n, TRUE, [schema EXCEPT !.voteToken = default])

\* The renaming; without the old column the UPDATE is passed over too.
RenameColumn ==
    Statement("up", 3, schema.column = "affiliation_id", 5, TRUE,
              [schema EXCEPT !.column = "affiliation_code"])

AsksForId_Never == FALSE

\* hasColumn('affiliations', 'id'), inside the block of the renaming.
AsksForId == schema.hasId

\* The UPDATE that turns the ids in users into codes.
Translate ==
    /\ run = "running" /\ direction = "up" /\ pc = 4
    /\ pc' = 5
    /\ value' = [u \in Users |->
           IF AsksForId /\ \E c \in Codes : value[u] = Id(c)
           THEN CHOOSE c \in Codes : value[u] = Id(c) ELSE value[u]]
    /\ UNCHANGED <<schema, origin, direction, run, crashedAt, crashes, rollbacks>>

\* The key of affiliations moves from id to code; without the id the block is
\* passed over, and a key that is gone cannot be dropped.
DropPrimaryKey ==
    Statement("up", 6, schema.hasId, 10, schema.primaryKey # "none",
              [schema EXCEPT !.primaryKey = "none"])

AddPrimaryKey ==
    Statement("up", 8, TRUE, 8, schema.primaryKey = "none",
              [schema EXCEPT !.primaryKey = "code"])

DropIdColumn == Statement("up", 9, TRUE, 9, TRUE, [schema EXCEPT !.hasId = FALSE])

MissesCodeIndex_Never == FALSE

MissesCodeIndex == "users_affiliation_code_index" \notin schema.indexes

AddCodeIndex ==
    Statement("up", 12, MissesCodeIndex, 13, TRUE,
              [schema EXCEPT !.indexes = @ \cup {"users_affiliation_code_index"}])

\* The migrator notes that the migration has run, or that it no longer has.
Record(way, n) ==
    /\ run = "running" /\ direction = way /\ pc = n
    /\ run' = "recorded"
    /\ UNCHANGED <<schema, value, origin, direction, pc, crashedAt, crashes, rollbacks>>

Up ==
    \/ DropForeignKey("up", 1, "users_affiliation_code_foreign")
    \/ DropForeignKey("up", 2, "users_affiliation_id_foreign")
    \/ RenameColumn \/ Translate
    \/ DropIndex(5, "users_affiliation_id_index")
    \/ DropPrimaryKey \/ DropIndex(7, "affiliations_code_unique")
    \/ AddPrimaryKey \/ DropIdColumn
    \/ ModifyCode("up", 10, TRUE) \/ ModifyVoteToken("up", 11, 1000)
    \/ AddCodeIndex \/ AddForeignKey("up", 13, "restrict")
    \/ Record("up", 14)

DownVoteToken_Kept == 1000

\* The default down gives back to vote_token.
DownVoteToken == 0

Down ==
    \/ DropForeignKey("down", 1, "users_affiliation_code_foreign")
    \/ ModifyCode("down", 2, FALSE) \/ ModifyVoteToken("down", 3, DownVoteToken)
    \/ AddForeignKey("down", 4, "set_null")
    \/ Record("down", 5)

-----------------------------------------------------------------------------
(* Runs *)

\* The run is killed, or loses its connection, before its next statement.
Crash ==
    /\ run = "running" /\ crashes < MaxCrashes
    /\ run' = "stopped" /\ crashes' = crashes + 1
    /\ crashedAt' = IF direction = "up" THEN crashedAt \cup {pc} ELSE crashedAt
    /\ UNCHANGED <<schema, value, origin, direction, pc, rollbacks>>

\* The next deployment, or the operator again.
Rerun ==
    /\ run \in {"stopped", "failed"}
    /\ run' = "running" /\ pc' = 1
    /\ UNCHANGED <<schema, value, origin, direction, crashedAt, crashes, rollbacks>>

\* migration:down after up, and up again after that.
Turn ==
    /\ run = "recorded"
    /\ \/ /\ direction = "up" /\ rollbacks < MaxRollbacks
          /\ direction' = "down" /\ rollbacks' = rollbacks + 1
       \/ /\ direction = "down"
          /\ direction' = "up" /\ UNCHANGED rollbacks
    /\ run' = "running" /\ pc' = 1
    /\ UNCHANGED <<schema, value, origin, crashedAt, crashes>>

Next == Up \/ Down \/ Crash \/ Rerun \/ Turn

Spec == Init /\ [][Next]_vars

\* A run that is not killed goes on, and one that stopped is started again.
FairSpec == Spec /\ WF_vars(Up) /\ WF_vars(Down) /\ WF_vars(Rerun)

-----------------------------------------------------------------------------
(* Properties *)

\* The windows a rerun cannot mend: up was killed between the renaming and the
\* UPDATE, which the rerun passes over, or while affiliations had no primary key,
\* which the rerun fails to drop.
Torn == crashedAt \cap {4, 7, 8} # {}

Target ==
    [column |-> "affiliation_code", notNull |-> TRUE, voteToken |-> 1000,
     indexes |-> {"users_affiliation_code_index"},
     foreignKeys |-> {"users_affiliation_code_foreign"}, onDelete |-> "restrict",
     hasId |-> FALSE, primaryKey |-> "code"]

\* When the migration is recorded, every user still has the affiliation it had,
\* by code, and the schema is the one the entities expect, whichever database it
\* began with and however often it was killed: a run that lost the mapping fails
\* and is never taken for a finished one (Migration20260630120000:8).
RecordedIsWhole ==
    run = "recorded" /\ direction = "up" => schema = Target /\ value = origin

\* Down gives back the schema of Migration20260630075056, though up may have begun
\* with the older one (Migration20260630120000:61).
RollbackRestores ==
    run = "recorded" /\ direction = "down" => schema = CodeBased /\ value = origin

\* As long as no run was killed in one of the two windows, every user's row leads
\* to its affiliation: by code, or by an id the table still has
\* (Migration20260630120000:13).
AffiliationKept ==
    ~Torn => \A u \in Users :
        value[u] \in {origin[u]} \cup (IF schema.hasId THEN {Id(origin[u])} ELSE {})

\* Up, and down after it, are recorded in the end when they are run again whenever
\* they stop, unless a run was killed in one of the two windows
\* (Migration20260630120000:17, 29).
EndsUnlessTorn == []<>(run = "recorded" \/ Torn)

=============================================================================
