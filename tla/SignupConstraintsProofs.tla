---------------------- MODULE SignupConstraintsProofs ----------------------
(***************************************************************************)
(* The signup migration, for any users and affiliations and however often  *)
(* it is killed, run again and rolled back.  Migrated and RolledBack say    *)
(* what the statements behind a run have made of the schema; Mapping, which *)
(* holds whatever stopped, where the affiliations of the users are.         *)
(***************************************************************************)
EXTENDS SignupConstraints, TLAPS

Columns == {"affiliation_code", "affiliation_id"}
VoteTokens == {0, 1000}
Indexes == SUBSET {"users_affiliation_code_index", "affiliations_code_unique",
                   "users_affiliation_id_index"}
ForeignKeys == SUBSET {"users_affiliation_code_foreign", "users_affiliation_id_foreign"}
Rules == {"set_null", "restrict"}
PrimaryKeys == {"id", "code", "none"}

Schema == [column : Columns, notNull : BOOLEAN, voteToken : VoteTokens,
           indexes : Indexes, foreignKeys : ForeignKeys, onDelete : Rules,
           hasId : BOOLEAN, primaryKey : PrimaryKeys]

Ids == [u \in Users |-> Id(origin[u])]

\* The rows refer to the affiliations by id until the UPDATE; it was passed over
\* only where a run was killed right before it.
Mapping ==
    /\ value \in {origin, Ids}
    /\ schema.column = "affiliation_id" => value = Ids /\ schema.hasId
    /\ schema.column = "affiliation_code" /\ value # origin =>
          4 \in crashedAt \/ (run = "running" /\ direction = "up" /\ pc = 4)
    /\ ~schema.hasId => /\ schema.primaryKey = "code"
                        /\ "affiliations_code_unique" \notin schema.indexes

\* What the statements of up before statement n have made of the schema.
Migrated(n) ==
    /\ n >= 2 /\ n <= 13 => "users_affiliation_code_foreign" \notin schema.foreignKeys
    /\ n >= 3 => "users_affiliation_id_foreign" \notin schema.foreignKeys
    /\ n = 4 => value = Ids /\ schema.hasId
    /\ n >= 4 => schema.column = "affiliation_code"
    /\ n >= 6 => "users_affiliation_id_index" \notin schema.indexes
    /\ n \in 7 .. 9 => schema.hasId
    /\ n \in 7 .. 8 => schema.primaryKey = "none"
    /\ n >= 8 => "affiliations_code_unique" \notin schema.indexes
    /\ n >= 9 => schema.primaryKey = "code"
    /\ n >= 10 => ~schema.hasId
    /\ n >= 11 => schema.notNull
    /\ n >= 12 => schema.voteToken = 1000
    /\ n >= 13 => "users_affiliation_code_index" \in schema.indexes
    /\ n = 14 => /\ "users_affiliation_code_foreign" \in schema.foreignKeys
                 /\ schema.onDelete = "restrict"
                 /\ \A u \in Users : value[u] \in Codes

\* What up leaves to down, and the statements of down before statement n.
Migrates ==
    /\ value = origin
    /\ schema.column = "affiliation_code" /\ ~schema.hasId
    /\ schema.primaryKey = "code"
    /\ schema.indexes = {"users_affiliation_code_index"}
    /\ "users_affiliation_id_foreign" \notin schema.foreignKeys

RolledBack(n) ==
    /\ n <= 5
    /\ n \in 2 .. 4 => "users_affiliation_code_foreign" \notin schema.foreignKeys
    /\ n >= 3 => ~schema.notNull
    /\ n >= 4 => schema.voteToken = 0
    /\ n = 5 => /\ "users_affiliation_code_foreign" \in schema.foreignKeys
                /\ schema.onDelete = "set_null"

IInv ==
    /\ schema \in Schema
    /\ origin \in [Users -> Codes]
    /\ direction \in {"up", "down"} /\ pc \in 1 .. 14
    /\ run \in {"running", "stopped", "failed", "recorded"}
    /\ Mapping
    /\ run = "running" /\ direction = "up" => Migrated(pc)
    /\ direction = "down" => Migrates
    /\ run = "running" /\ direction = "down" => RolledBack(pc)
    /\ RecordedIsWhole
    /\ RollbackRestores

-----------------------------------------------------------------------------

LEMMA InvInit == Init => IInv
<1> SUFFICES ASSUME Init PROVE IInv
  OBVIOUS
<1>1. origin \in [Users -> Codes] /\ pc = 1 /\ direction = "up" /\ run = "running"
  BY DEF Init
<1>2. CASE schema = CodeBased /\ value = origin
  <2>1. schema \in Schema
    BY <1>2 DEF CodeBased, Schema, Columns, VoteTokens, Indexes, ForeignKeys, Rules,
                PrimaryKeys
  <2>2. Mapping
    BY <1>2 DEF CodeBased, Mapping
  <2> QED
    BY <1>1, <2>1, <2>2 DEF IInv, Migrated, RecordedIsWhole, RollbackRestores
<1>3. CASE schema = Legacy /\ value = [u \in Users |-> Id(origin[u])]
  <2>1. schema \in Schema
    BY <1>3 DEF Legacy, Schema, Columns, VoteTokens, Indexes, ForeignKeys, Rules,
                PrimaryKeys
  <2>2. Mapping
    BY <1>3 DEF Legacy, Mapping, Ids
  <2> QED
    BY <1>1, <2>1, <2>2 DEF IInv, Migrated, RecordedIsWhole, RollbackRestores
<1> QED
  BY <1>2, <1>3 DEF Init

-----------------------------------------------------------------------------
(* The statements of up *)

\* One statement of up that does not record the migration.
UpStatement(n) ==
    /\ direction = "up" /\ direction' = "up" /\ run = "running" /\ pc = n
    /\ run' \in {"running", "failed"} /\ pc' \in 1 .. 14
    /\ origin' = origin /\ crashedAt' = crashedAt

LEMMA UpKept ==
    ASSUME IInv, NEW n \in 1 .. 13, UpStatement(n), schema' \in Schema, Mapping',
           run' = "running" => Migrated(pc)'
    PROVE  IInv'
BY DEF IInv, UpStatement, RecordedIsWhole, RollbackRestores

\* A statement that leaves the column and the rows alone does not disturb the
\* mapping, unless it takes an id away too early.
LEMMA MappingKept ==
    ASSUME IInv, NEW n \in 1 .. 13, n # 4, UpStatement(n), value' = value, pc' # 4,
           schema'.column = schema.column,
           \/ /\ schema'.hasId = schema.hasId
              /\ ~schema.hasId =>
                    /\ schema'.primaryKey = schema.primaryKey
                    /\ "affiliations_code_unique" \in schema'.indexes
                          => "affiliations_code_unique" \in schema.indexes
           \/ /\ schema.column = "affiliation_code"
              /\ schema'.primaryKey = "code"
              /\ "affiliations_code_unique" \notin schema'.indexes
    PROVE  Mapping'
<1>1. Mapping /\ Ids' = Ids
  BY DEF IInv, UpStatement, Ids
<1> QED
  BY <1>1 DEF Mapping, UpStatement

LEMMA DropForeignKeys ==
    ASSUME IInv, NEW n \in 1 .. 2,
           NEW name \in {"users_affiliation_code_foreign", "users_affiliation_id_foreign"},
           n = 1 <=> name = "users_affiliation_code_foreign",
           DropForeignKey("up", n, name)
    PROVE  IInv'
<1>1. UpStatement(n) /\ value' = value /\ pc' = n + 1 /\ run' = "running"
  BY DEF DropForeignKey, Statement, UpStatement, HasForeignKey
<1>2. \/ name \in schema.foreignKeys
            /\ schema' = [schema EXCEPT !.foreignKeys = @ \ {name}]
      \/ name \notin schema.foreignKeys /\ schema' = schema
  BY DEF DropForeignKey, Statement, HasForeignKey
<1>3. schema \in Schema /\ schema.foreignKeys \ {name} \in ForeignKeys
  BY DEF IInv, Schema, ForeignKeys
<1>4. /\ schema' \in Schema /\ schema'.foreignKeys = schema.foreignKeys \ {name}
      /\ schema'.column = schema.column /\ schema'.hasId = schema.hasId
      /\ schema'.primaryKey = schema.primaryKey /\ schema'.indexes = schema.indexes
  <2>1. CASE schema' = [schema EXCEPT !.foreignKeys = @ \ {name}]
    BY <1>3, <2>1 DEF Schema
  <2>2. CASE name \notin schema.foreignKeys /\ schema' = schema
    BY <1>3, <2>2
  <2> QED
    BY <1>2, <2>1, <2>2
<1>5. Mapping'
  BY <1>1, <1>4, MappingKept
<1>6. Migrated(pc)'
  BY <1>1, <1>4 DEF IInv, Migrated, UpStatement
<1> QED
  BY <1>1, <1>4, <1>5, <1>6, UpKept

LEMMA RenameColumnKeeps == IInv /\ RenameColumn => IInv'
<1> SUFFICES ASSUME IInv, RenameColumn PROVE IInv'
  OBVIOUS
<1>1. /\ UpStatement(3) /\ value' = value /\ run' = "running" /\ Migrated(3) /\ Mapping
      /\ schema \in Schema /\ Ids' = Ids
  BY DEF RenameColumn, Statement, UpStatement, IInv, Ids
<1>2. CASE schema.column = "affiliation_id"
  <2>1. /\ pc' = 4 /\ schema' = [schema EXCEPT !.column = "affiliation_code"]
        /\ value = Ids /\ schema.hasId
    BY <1>1, <1>2 DEF RenameColumn, Statement, Mapping
  <2>2. "affiliation_code" \in Columns
    BY DEF Columns
  <2>3. /\ schema' \in Schema /\ schema'.column = "affiliation_code"
        /\ schema'.foreignKeys = schema.foreignKeys /\ schema'.hasId = schema.hasId
    BY <1>1, <2>1, <2>2 DEF Schema
  <2>4. Mapping'
    BY <1>1, <2>1, <2>3 DEF UpStatement, Mapping
  <2>5. Migrated(pc)'
    BY <1>1, <2>1, <2>3 DEF Migrated
  <2> QED
    BY <1>1, <2>3, <2>4, <2>5, UpKept
<1>3. CASE schema.column # "affiliation_id"
  <2>1. pc' = 5 /\ schema' = schema /\ schema.column = "affiliation_code"
    BY <1>1, <1>3 DEF RenameColumn, Statement, Schema, Columns
  <2>2. Mapping'
    BY <1>1, <2>1, MappingKept
  <2>3. Migrated(pc)'
    BY <1>1, <2>1 DEF Migrated
  <2> QED
    BY <1>1, <2>1, <2>2, <2>3, UpKept
<1> QED
  BY <1>2, <1>3

LEMMA TranslateKeeps == IInv /\ Translate => IInv'
<1> SUFFICES ASSUME IInv, Translate PROVE IInv'
  OBVIOUS
<1>1. /\ UpStatement(4) /\ schema' = schema /\ run' = "running" /\ pc' = 5 /\ Migrated(4)
      /\ schema \in Schema /\ origin \in [Users -> Codes]
  BY DEF Translate, UpStatement, IInv
<1>2. value = Ids /\ schema.hasId /\ schema.column = "affiliation_code"
  BY <1>1 DEF Migrated
<1>3. value' = origin
  <2>1. ASSUME NEW u \in Users
        PROVE  /\ \E c \in Codes : value[u] = Id(c)
               /\ (CHOOSE c \in Codes : value[u] = Id(c)) = origin[u]
    <3>1. origin[u] \in Codes /\ value[u] = Id(origin[u])
      BY <1>1, <1>2 DEF Ids
    <3>2. \A c \in Codes : value[u] = Id(c) <=> c = origin[u]
      BY <3>1 DEF Id
    <3> QED
      BY <3>1, <3>2
  <2>2. value' = [u \in Users |-> origin[u]]
    BY <1>2, <2>1 DEF Translate, AsksForId
  <2> QED
    BY <1>1, <2>2
<1>4. Mapping'
  BY <1>1, <1>2, <1>3 DEF IInv, Mapping, UpStatement
<1>5. Migrated(pc)'
  BY <1>1 DEF Migrated
<1> QED
  BY <1>1, <1>4, <1>5, UpKept

LEMMA DropIndexes ==
    ASSUME IInv, NEW n \in {5, 7},
           NEW name, name = IF n = 5 THEN "users_affiliation_id_index"
                                     ELSE "affiliations_code_unique",
           DropIndex(n, name)
    PROVE  IInv'
<1>1. UpStatement(n) /\ value' = value /\ pc' = n + 1 /\ run' = "running"
  BY DEF DropIndex, Statement, UpStatement
<1>2. \/ schema' = [schema EXCEPT !.indexes = @ \ {name}]
      \/ name \notin schema.indexes /\ schema' = schema
  BY DEF DropIndex, Statement
<1>3. schema \in Schema /\ schema.indexes \ {name} \in Indexes
  BY DEF IInv, Schema, Indexes
<1>4. /\ schema' \in Schema /\ schema'.indexes = schema.indexes \ {name}
      /\ schema'.column = schema.column /\ schema'.hasId = schema.hasId
      /\ schema'.primaryKey = schema.primaryKey /\ schema'.foreignKeys = schema.foreignKeys
  <2>1. CASE schema' = [schema EXCEPT !.indexes = @ \ {name}]
    BY <1>3, <2>1 DEF Schema
  <2>2. CASE name \notin schema.indexes /\ schema' = schema
    BY <1>3, <2>2
  <2> QED
    BY <1>2, <2>1, <2>2
<1>5. Mapping'
  BY <1>1, <1>4, MappingKept
<1>6. Migrated(n)
  BY <1>1 DEF IInv, UpStatement
<1>7. Migrated(pc)'
  BY <1>1, <1>4, <1>6 DEF Migrated
<1> QED
  BY <1>1, <1>4, <1>5, <1>7, UpKept

LEMMA DropPrimaryKeyKeeps == IInv /\ DropPrimaryKey => IInv'
<1> SUFFICES ASSUME IInv, DropPrimaryKey PROVE IInv'
  OBVIOUS
<1>1. /\ UpStatement(6) /\ value' = value /\ Migrated(6) /\ Mapping
      /\ schema \in Schema /\ pc' # 4
  BY DEF DropPrimaryKey, Statement, UpStatement, IInv
<1>2. CASE schema.hasId /\ schema.primaryKey # "none"
  <2>1. pc' = 7 /\ run' = "running" /\ schema' = [schema EXCEPT !.primaryKey = "none"]
    BY <1>2 DEF DropPrimaryKey, Statement
  <2>2. "none" \in PrimaryKeys
    BY DEF PrimaryKeys
  <2>3. /\ schema' \in Schema /\ schema'.primaryKey = "none"
        /\ schema'.column = schema.column /\ schema'.hasId = schema.hasId
        /\ schema'.indexes = schema.indexes /\ schema'.foreignKeys = schema.foreignKeys
    BY <1>1, <2>1, <2>2 DEF Schema
  <2>4. Mapping'
    BY <1>1, <1>2, <2>3, MappingKept
  <2>5. Migrated(pc)'
    BY <1>1, <1>2, <2>1, <2>3 DEF Migrated
  <2> QED
    BY <1>1, <2>3, <2>4, <2>5, UpKept
<1>3. CASE schema.hasId /\ schema.primaryKey = "none"
  <2>1. run' = "failed" /\ schema' = schema
    BY <1>3 DEF DropPrimaryKey, Statement
  <2>2. Mapping'
    BY <1>1, <2>1, MappingKept
  <2> QED
    BY <1>1, <2>1, <2>2, UpKept
<1>4. CASE ~schema.hasId
  <2>1. pc' = 10 /\ schema' = schema
    BY <1>4 DEF DropPrimaryKey, Statement
  <2>2. Mapping'
    BY <1>1, <2>1, MappingKept
  <2>3. Migrated(pc)'
    BY <1>1, <1>4, <2>1 DEF Migrated, Mapping
  <2> QED
    BY <1>1, <2>1, <2>2, <2>3, UpKept
<1> QED
  BY <1>2, <1>3, <1>4

LEMMA AddPrimaryKeyKeeps == IInv /\ AddPrimaryKey => IInv'
<1> SUFFICES ASSUME IInv, AddPrimaryKey PROVE IInv'
  OBVIOUS
<1>1. /\ UpStatement(8) /\ value' = value /\ Migrated(8) /\ schema \in Schema
      /\ pc' = 9
  BY DEF AddPrimaryKey, Statement, UpStatement, IInv
<1>2. schema.hasId /\ schema.primaryKey = "none"
  BY <1>1 DEF Migrated
<1>3. schema' = [schema EXCEPT !.primaryKey = "code"]
  BY <1>2 DEF AddPrimaryKey, Statement
<1>4. "code" \in PrimaryKeys
  BY DEF PrimaryKeys
<1>5. /\ schema' \in Schema /\ schema'.primaryKey = "code"
      /\ schema'.column = schema.column /\ schema'.hasId = schema.hasId
      /\ schema'.indexes = schema.indexes /\ schema'.foreignKeys = schema.foreignKeys
  BY <1>1, <1>3, <1>4 DEF Schema
<1>6. Mapping'
  BY <1>1, <1>2, <1>5, MappingKept
<1>7. Migrated(pc)'
  BY <1>1, <1>2, <1>5 DEF Migrated
<1> QED
  BY <1>1, <1>5, <1>6, <1>7, UpKept

LEMMA DropIdColumnKeeps == IInv /\ DropIdColumn => IInv'
<1> SUFFICES ASSUME IInv, DropIdColumn PROVE IInv'
  OBVIOUS
<1>1. /\ UpStatement(9) /\ value' = value /\ Migrated(9) /\ schema \in Schema
      /\ pc' = 10 /\ schema' = [schema EXCEPT !.hasId = FALSE]
  BY DEF DropIdColumn, Statement, UpStatement, IInv
<1>2. /\ schema' \in Schema /\ schema'.hasId = FALSE
      /\ schema'.column = schema.column /\ schema'.primaryKey = schema.primaryKey
      /\ schema'.indexes = schema.indexes /\ schema'.foreignKeys = schema.foreignKeys
  BY <1>1 DEF Schema
<1>3. Mapping'
  <2>1. /\ schema.column = "affiliation_code" /\ schema.primaryKey = "code"
        /\ "affiliations_code_unique" \notin schema.indexes
    BY <1>1 DEF Migrated
  <2>2. /\ schema'.primaryKey = "code" /\ "affiliations_code_unique" \notin schema'.indexes
        /\ 9 \in 1 .. 13 /\ 9 # 4 /\ pc' # 4
    BY <1>1, <1>2, <2>1
  <2> QED
    BY <1>1, <1>2, <2>1, <2>2, MappingKept
<1>4. Migrated(pc)'
  BY <1>1, <1>2 DEF Migrated
<1> QED
  BY <1>1, <1>2, <1>3, <1>4, UpKept

\* Statements 10 to 13 change neither the column nor the key of affiliations.
LEMMA ModifyCodeKeeps == IInv /\ ModifyCode("up", 10, TRUE) => IInv'
<1> SUFFICES ASSUME IInv, ModifyCode("up", 10, TRUE) PROVE IInv'
  OBVIOUS
<1>1. /\ UpStatement(10) /\ value' = value /\ Migrated(10) /\ schema \in Schema
      /\ pc' = 11 /\ schema' = [schema EXCEPT !.notNull = TRUE]
  BY DEF ModifyCode, Statement, UpStatement, IInv
<1>2. /\ schema' \in Schema /\ schema'.notNull = TRUE /\ schema'.hasId = schema.hasId
      /\ schema'.column = schema.column /\ schema'.primaryKey = schema.primaryKey
      /\ schema'.indexes = schema.indexes /\ schema'.foreignKeys = schema.foreignKeys
  BY <1>1 DEF Schema
<1>3. Mapping'
  BY <1>1, <1>2, MappingKept
<1>4. Migrated(pc)'
  BY <1>1, <1>2 DEF Migrated
<1> QED
  BY <1>1, <1>2, <1>3, <1>4, UpKept

LEMMA ModifyVoteTokenKeeps == IInv /\ ModifyVoteToken("up", 11, 1000) => IInv'
<1> SUFFICES ASSUME IInv, ModifyVoteToken("up", 11, 1000) PROVE IInv'
  OBVIOUS
<1>1. /\ UpStatement(11) /\ value' = value /\ Migrated(11) /\ schema \in Schema
      /\ pc' = 12 /\ schema' = [schema EXCEPT !.voteToken = 1000]
  BY DEF ModifyVoteToken, Statement, UpStatement, IInv
<1>2. 1000 \in VoteTokens
  BY DEF VoteTokens
<1>3. /\ schema' \in Schema /\ schema'.voteToken = 1000 /\ schema'.hasId = schema.hasId
      /\ schema'.column = schema.column /\ schema'.primaryKey = schema.primaryKey
      /\ schema'.indexes = schema.indexes /\ schema'.foreignKeys = schema.foreignKeys
      /\ schema'.notNull = schema.notNull
  BY <1>1, <1>2 DEF Schema
<1>4. Mapping'
  BY <1>1, <1>3, MappingKept
<1>5. Migrated(pc)'
  BY <1>1, <1>3 DEF Migrated
<1> QED
  BY <1>1, <1>3, <1>4, <1>5, UpKept

LEMMA AddCodeIndexKeeps == IInv /\ AddCodeIndex => IInv'
<1> SUFFICES ASSUME IInv, AddCodeIndex PROVE IInv'
  OBVIOUS
<1>1. /\ UpStatement(12) /\ value' = value /\ Migrated(12) /\ schema \in Schema
      /\ pc' = 13
      /\ \/ schema' = [schema EXCEPT !.indexes = @ \cup {"users_affiliation_code_index"}]
         \/ "users_affiliation_code_index" \in schema.indexes /\ schema' = schema
  BY DEF AddCodeIndex, MissesCodeIndex, Statement, UpStatement, IInv
<1>2. schema.indexes \cup {"users_affiliation_code_index"} \in Indexes
  BY <1>1 DEF Schema, Indexes
<1>3. /\ schema' \in Schema
      /\ schema'.indexes = schema.indexes \cup {"users_affiliation_code_index"}
      /\ schema'.column = schema.column /\ schema'.primaryKey = schema.primaryKey
      /\ schema'.foreignKeys = schema.foreignKeys /\ schema'.hasId = schema.hasId
      /\ schema'.notNull = schema.notNull /\ schema'.voteToken = schema.voteToken
  <2>1. CASE schema' = [schema EXCEPT !.indexes = @ \cup {"users_affiliation_code_index"}]
    BY <1>1, <1>2, <2>1 DEF Schema
  <2>2. CASE "users_affiliation_code_index" \in schema.indexes /\ schema' = schema
    BY <1>1, <2>2
  <2> QED
    BY <1>1, <2>1, <2>2
<1>4. Mapping'
  BY <1>1, <1>3, MappingKept
<1>5. Migrated(pc)'
  BY <1>1, <1>3 DEF Migrated
<1> QED
  BY <1>1, <1>3, <1>4, <1>5, UpKept

\* The foreign key checks the rows: where the ids were never translated it cannot
\* be added, and the run fails.
LEMMA AddForeignKeyUpKeeps == IInv /\ AddForeignKey("up", 13, "restrict") => IInv'
<1> SUFFICES ASSUME IInv, AddForeignKey("up", 13, "restrict") PROVE IInv'
  OBVIOUS
<1> DEFINE possible == \A u \in Users : value[u] \in Codes
<1>1. /\ UpStatement(13) /\ value' = value /\ Migrated(13) /\ schema \in Schema
      /\ pc' = 14
  BY DEF AddForeignKey, HasForeignKey, Statement, UpStatement, IInv
<1>2. /\ "users_affiliation_code_foreign" \notin schema.foreignKeys
      /\ schema.primaryKey = "code"
  BY <1>1 DEF Migrated
<1>3. CASE possible
  <2>1. schema' = [schema EXCEPT
            !.foreignKeys = @ \cup {"users_affiliation_code_foreign"},
            !.onDelete = "restrict"]
    BY <1>2, <1>3 DEF AddForeignKey, HasForeignKey, Statement
  <2>2. /\ schema.foreignKeys \cup {"users_affiliation_code_foreign"} \in ForeignKeys
        /\ "restrict" \in Rules
    BY <1>1 DEF Schema, ForeignKeys, Rules
  <2>3. /\ schema' \in Schema /\ schema'.onDelete = "restrict"
        /\ schema'.foreignKeys = schema.foreignKeys \cup {"users_affiliation_code_foreign"}
        /\ schema'.column = schema.column /\ schema'.primaryKey = schema.primaryKey
        /\ schema'.indexes = schema.indexes /\ schema'.hasId = schema.hasId
        /\ schema'.notNull = schema.notNull /\ schema'.voteToken = schema.voteToken
    BY <1>1, <2>1, <2>2 DEF Schema
  <2>4. Mapping'
    BY <1>1, <2>3, MappingKept
  <2>5. Migrated(pc)'
    BY <1>1, <1>3, <2>3 DEF Migrated
  <2> QED
    BY <1>1, <2>3, <2>4, <2>5, UpKept
<1>4. CASE ~possible
  <2>1. run' = "failed" /\ schema' = schema
    BY <1>2, <1>4 DEF AddForeignKey, HasForeignKey, Statement
  <2>2. Mapping'
    BY <1>1, <2>1, MappingKept
  <2> QED
    BY <1>1, <2>1, <2>2, UpKept
<1> QED
  BY <1>3, <1>4

-----------------------------------------------------------------------------
(* The statements of down *)

\* Down changes nothing of what up left but the foreign key and two defaults.
LEMMA DownKept ==
    ASSUME IInv, direction = "down", direction' = "down", value' = value,
           origin' = origin, crashedAt' = crashedAt, run = "running",
           run' \in {"running", "failed"}, pc' \in 1 .. 5,
           schema' \in Schema,
           schema'.column = schema.column, schema'.hasId = schema.hasId,
           schema'.primaryKey = schema.primaryKey, schema'.indexes = schema.indexes,
           "users_affiliation_id_foreign" \in schema'.foreignKeys
               => "users_affiliation_id_foreign" \in schema.foreignKeys,
           run' = "running" => RolledBack(pc)'
    PROVE  IInv'
<1>1. Migrates /\ Mapping /\ Ids' = Ids
  BY DEF IInv, Ids
<1>2. Migrates'
  BY <1>1 DEF Migrates
<1>3. Mapping'
  BY <1>1 DEF Migrates, Mapping
<1> QED
  BY <1>2, <1>3 DEF IInv, RecordedIsWhole, RollbackRestores

LEMMA DownDropKeeps ==
    IInv /\ DropForeignKey("down", 1, "users_affiliation_code_foreign") => IInv'
<1> DEFINE name == "users_affiliation_code_foreign"
<1> SUFFICES ASSUME IInv, DropForeignKey("down", 1, name) PROVE IInv'
  OBVIOUS
<1>1. /\ direction = "down" /\ direction' = "down" /\ value' = value /\ origin' = origin
      /\ crashedAt' = crashedAt /\ run = "running" /\ run' = "running" /\ pc' = 2
      /\ schema \in Schema
      /\ \/ schema' = [schema EXCEPT !.foreignKeys = @ \ {name}]
         \/ name \notin schema.foreignKeys /\ schema' = schema
  BY DEF DropForeignKey, Statement, HasForeignKey, IInv
<1>2. schema.foreignKeys \ {name} \in ForeignKeys
  BY <1>1 DEF Schema, ForeignKeys
<1>3. /\ schema' \in Schema /\ schema'.foreignKeys = schema.foreignKeys \ {name}
      /\ schema'.column = schema.column /\ schema'.hasId = schema.hasId
      /\ schema'.primaryKey = schema.primaryKey /\ schema'.indexes = schema.indexes
  <2>1. CASE schema' = [schema EXCEPT !.foreignKeys = @ \ {name}]
    BY <1>1, <1>2, <2>1 DEF Schema
  <2>2. CASE name \notin schema.foreignKeys /\ schema' = schema
    BY <1>1, <2>2
  <2> QED
    BY <1>1, <2>1, <2>2
<1>4. RolledBack(pc)'
  BY <1>1, <1>3 DEF RolledBack
<1> QED
  BY <1>1, <1>3, <1>4, DownKept

LEMMA DownModifyCodeKeeps == IInv /\ ModifyCode("down", 2, FALSE) => IInv'
<1> SUFFICES ASSUME IInv, ModifyCode("down", 2, FALSE) PROVE IInv'
  OBVIOUS
<1>1. /\ direction = "down" /\ direction' = "down" /\ value' = value /\ origin' = origin
      /\ crashedAt' = crashedAt /\ run = "running" /\ run' = "running" /\ pc' = 3
      /\ schema \in Schema /\ RolledBack(2) /\ schema' = [schema EXCEPT !.notNull = FALSE]
  BY DEF ModifyCode, Statement, IInv
<1>2. /\ schema' \in Schema /\ schema'.notNull = FALSE
      /\ schema'.foreignKeys = schema.foreignKeys
      /\ schema'.column = schema.column /\ schema'.hasId = schema.hasId
      /\ schema'.primaryKey = schema.primaryKey /\ schema'.indexes = schema.indexes
  BY <1>1 DEF Schema
<1>3. RolledBack(pc)'
  BY <1>1, <1>2 DEF RolledBack
<1> QED
  BY <1>1, <1>2, <1>3, DownKept

LEMMA DownModifyVoteTokenKeeps ==
    IInv /\ ModifyVoteToken("down", 3, DownVoteToken) => IInv'
<1> SUFFICES ASSUME IInv, ModifyVoteToken("down", 3, DownVoteToken) PROVE IInv'
  OBVIOUS
<1>1. /\ direction = "down" /\ direction' = "down" /\ value' = value /\ origin' = origin
      /\ crashedAt' = crashedAt /\ run = "running" /\ run' = "running" /\ pc' = 4
      /\ schema \in Schema /\ RolledBack(3) /\ schema' = [schema EXCEPT !.voteToken = 0]
  BY DEF ModifyVoteToken, DownVoteToken, Statement, IInv
<1>2. 0 \in VoteTokens
  BY DEF VoteTokens
<1>3. /\ schema' \in Schema /\ schema'.voteToken = 0 /\ schema'.notNull = schema.notNull
      /\ schema'.foreignKeys = schema.foreignKeys
      /\ schema'.column = schema.column /\ schema'.hasId = schema.hasId
      /\ schema'.primaryKey = schema.primaryKey /\ schema'.indexes = schema.indexes
  BY <1>1, <1>2 DEF Schema
<1>4. RolledBack(pc)'
  BY <1>1, <1>3 DEF RolledBack
<1> QED
  BY <1>1, <1>3, <1>4, DownKept

LEMMA DownAddKeeps == IInv /\ AddForeignKey("down", 4, "set_null") => IInv'
<1> SUFFICES ASSUME IInv, AddForeignKey("down", 4, "set_null") PROVE IInv'
  OBVIOUS
<1> DEFINE name == "users_affiliation_code_foreign"
<1>1. /\ direction = "down" /\ direction' = "down" /\ value' = value /\ origin' = origin
      /\ crashedAt' = crashedAt /\ run = "running" /\ run' \in {"running", "failed"}
      /\ pc' = 5 /\ schema \in Schema /\ RolledBack(4) /\ Migrates
      /\ origin \in [Users -> Codes]
  BY DEF AddForeignKey, Statement, IInv
<1>2. /\ name \notin schema.foreignKeys /\ schema.primaryKey = "code"
      /\ schema.notNull = FALSE /\ schema.voteToken = 0
      /\ \A u \in Users : value[u] \in Codes
  <2> HIDE DEF name
  <2>1. RolledBack(4) /\ name = "users_affiliation_code_foreign"
    BY <1>1 DEF name
  <2>2. name \notin schema.foreignKeys /\ ~schema.notNull /\ schema.voteToken = 0
    BY <2>1 DEF RolledBack
  <2>3. value = origin /\ schema.primaryKey = "code"
    BY <1>1 DEF Migrates
  <2> QED
    BY <1>1, <2>2, <2>3 DEF Schema
<1>3. schema' = [schema EXCEPT !.foreignKeys = @ \cup {name}, !.onDelete = "set_null"]
  BY <1>2 DEF AddForeignKey, Statement
<1>4. schema.foreignKeys \cup {name} \in ForeignKeys /\ "set_null" \in Rules
  BY <1>1 DEF Schema, ForeignKeys, Rules
<1>5. /\ schema' \in Schema /\ schema'.foreignKeys = schema.foreignKeys \cup {name}
      /\ schema'.onDelete = "set_null" /\ schema'.notNull = schema.notNull
      /\ schema'.voteToken = schema.voteToken
      /\ schema'.column = schema.column /\ schema'.hasId = schema.hasId
      /\ schema'.primaryKey = schema.primaryKey /\ schema'.indexes = schema.indexes
  BY <1>1, <1>3, <1>4 DEF Schema
<1>6. RolledBack(pc)'
  <2>1. /\ pc' = 5 /\ name \in schema'.foreignKeys /\ ~schema'.notNull
        /\ schema'.voteToken = 0 /\ schema'.onDelete = "set_null"
    BY <1>1, <1>2, <1>5
  <2> QED
    BY <2>1 DEF RolledBack
<1>7. pc' \in 1 .. 5
  <2>1. pc' = 5
    BY <1>1
  <2> QED
    BY <2>1
<1> QED
  BY <1>1, <1>5, <1>6, <1>7, DownKept

-----------------------------------------------------------------------------
(* The end of a run, and runs *)

\* The rows up ends with refer to codes, hence to those the users began with.
LEMMA CodesAreOrigins ==
    ASSUME origin \in [Users -> Codes], value \in {origin, Ids},
           \A u \in Users : value[u] \in Codes
    PROVE  value = origin
<1> SUFFICES ASSUME value = Ids PROVE Ids = origin
  OBVIOUS
<1>1. ASSUME NEW u \in Users PROVE FALSE
  <2>1. origin[u] \in Codes /\ value[u] = Id(origin[u])
    BY DEF Ids
  <2> QED
    BY <2>1, IdsAssumption
<1>2. Ids = [u \in Users |-> origin[u]]
  BY <1>1 DEF Ids
<1> QED
  BY <1>2

LEMMA RecordUpKeeps == IInv /\ Record("up", 14) => IInv'
<1> SUFFICES ASSUME IInv, Record("up", 14) PROVE IInv'
  OBVIOUS
<1>1. /\ direction = "up" /\ run = "running" /\ pc = 14 /\ run' = "recorded"
      /\ schema' = schema /\ value' = value /\ origin' = origin /\ pc' = pc
      /\ direction' = direction /\ crashedAt' = crashedAt
  BY DEF Record
<1>2. Migrated(14) /\ Mapping /\ schema \in Schema /\ origin \in [Users -> Codes]
  BY <1>1 DEF IInv
<1>3. value = origin
  BY <1>2, CodesAreOrigins DEF Migrated, Mapping
<1>4. schema = Target
  <2>1. /\ schema.column = "affiliation_code" /\ schema.notNull = TRUE
        /\ schema.voteToken = 1000 /\ schema.onDelete = "restrict"
        /\ schema.hasId = FALSE /\ schema.primaryKey = "code"
    BY <1>2 DEF Migrated, Schema
  <2>2. schema.indexes = {"users_affiliation_code_index"}
    BY <1>2 DEF Migrated, Schema, Indexes
  <2>3. schema.foreignKeys = {"users_affiliation_code_foreign"}
    BY <1>2 DEF Migrated, Schema, ForeignKeys
  <2> QED
    BY <1>2, <2>1, <2>2, <2>3 DEF Target, Schema
<1>5. Mapping'
  BY <1>1, <1>2, <1>3 DEF Mapping, Ids
<1> QED
  BY <1>1, <1>2, <1>3, <1>4, <1>5 DEF IInv, RecordedIsWhole, RollbackRestores, Target

LEMMA RecordDownKeeps == IInv /\ Record("down", 5) => IInv'
<1> SUFFICES ASSUME IInv, Record("down", 5) PROVE IInv'
  OBVIOUS
<1>1. /\ direction = "down" /\ run = "running" /\ pc = 5 /\ run' = "recorded"
      /\ schema' = schema /\ value' = value /\ origin' = origin /\ pc' = pc
      /\ direction' = direction /\ crashedAt' = crashedAt
  BY DEF Record
<1>2. RolledBack(5) /\ Migrates /\ Mapping /\ schema \in Schema
  BY <1>1 DEF IInv
<1>3. schema = CodeBased
  <2>1. /\ schema.column = "affiliation_code" /\ schema.notNull = FALSE
        /\ schema.voteToken = 0 /\ schema.onDelete = "set_null"
        /\ schema.hasId = FALSE /\ schema.primaryKey = "code"
        /\ schema.indexes = {"users_affiliation_code_index"}
    <3>0. RolledBack(5)
      BY <1>2
    <3>1. ~schema.notNull /\ schema.voteToken = 0 /\ schema.onDelete = "set_null"
      BY <3>0 DEF RolledBack
    <3>2. /\ schema.column = "affiliation_code" /\ ~schema.hasId
          /\ schema.primaryKey = "code"
          /\ schema.indexes = {"users_affiliation_code_index"}
      BY <1>2 DEF Migrates
    <3> QED
      BY <1>2, <3>1, <3>2 DEF Schema
  <2>2. schema.foreignKeys = {"users_affiliation_code_foreign"}
    BY <1>2 DEF RolledBack, Migrates, Schema, ForeignKeys
  <2> QED
    BY <1>2, <2>1, <2>2 DEF CodeBased, Schema
<1>4. Mapping' /\ Migrates'
  BY <1>1, <1>2 DEF Mapping, Ids, Migrates
<1> QED
  BY <1>1, <1>2, <1>3, <1>4 DEF IInv, RecordedIsWhole, RollbackRestores, Migrates

LEMMA CrashKeeps == IInv /\ Crash => IInv'
<1> SUFFICES ASSUME IInv, Crash PROVE IInv'
  OBVIOUS
<1>1. /\ run = "running" /\ run' = "stopped" /\ schema' = schema /\ value' = value
      /\ origin' = origin /\ direction' = direction /\ pc' = pc
      /\ crashedAt \subseteq crashedAt' /\ (direction = "up" => pc \in crashedAt')
  BY DEF Crash
<1>2. Mapping'
  <2>1. Mapping /\ Ids' = Ids /\ (direction = "up" /\ pc = 4 => 4 \in crashedAt')
    BY <1>1 DEF IInv, Ids
  <2> QED
    BY <1>1, <2>1 DEF Mapping
<1>3. Migrates <=> Migrates'
  BY <1>1 DEF Migrates
<1> QED
  BY <1>1, <1>2, <1>3 DEF IInv, RecordedIsWhole, RollbackRestores

LEMMA RerunKeeps == IInv /\ Rerun => IInv'
<1> SUFFICES ASSUME IInv, Rerun PROVE IInv'
  OBVIOUS
<1>1. /\ run # "running" /\ run' = "running" /\ schema' = schema /\ value' = value
      /\ origin' = origin /\ direction' = direction /\ pc' = 1 /\ crashedAt' = crashedAt
  BY DEF Rerun
<1>2. Mapping'
  BY <1>1 DEF IInv, Mapping, Ids
<1>3. Migrates <=> Migrates'
  BY <1>1 DEF Migrates
<1>4. Migrated(pc)' /\ RolledBack(pc)'
  BY <1>1 DEF Migrated, RolledBack
<1> QED
  BY <1>1, <1>2, <1>3, <1>4 DEF IInv, RecordedIsWhole, RollbackRestores

\* What is turned to down is what up has recorded.
LEMMA TurnKeeps == IInv /\ Turn => IInv'
<1> SUFFICES ASSUME IInv, Turn PROVE IInv'
  OBVIOUS
<1>1. /\ run = "recorded" /\ run' = "running" /\ schema' = schema /\ value' = value
      /\ origin' = origin /\ pc' = 1 /\ crashedAt' = crashedAt
      /\ \/ direction = "up" /\ direction' = "down"
         \/ direction = "down" /\ direction' = "up"
  BY DEF Turn
<1>2. Mapping'
  BY <1>1 DEF IInv, Mapping, Ids
<1>3. direction' = "down" => Migrates'
  BY <1>1 DEF IInv, RecordedIsWhole, Target, Migrates
<1>4. Migrated(pc)' /\ RolledBack(pc)'
  BY <1>1 DEF Migrated, RolledBack
<1> QED
  BY <1>1, <1>2, <1>3, <1>4 DEF IInv, RecordedIsWhole, RollbackRestores

LEMMA InvStep == IInv /\ [Next]_vars => IInv'
<1> SUFFICES ASSUME IInv, [Next]_vars PROVE IInv'
  OBVIOUS
<1>1. CASE Up
  <2>1. CASE \/ DropForeignKey("up", 1, "users_affiliation_code_foreign")
             \/ DropForeignKey("up", 2, "users_affiliation_id_foreign")
    BY <2>1, DropForeignKeys
  <2>2. CASE RenameColumn \/ Translate
    BY <2>2, RenameColumnKeeps, TranslateKeeps
  <2>3. CASE \/ DropIndex(5, "users_affiliation_id_index")
             \/ DropIndex(7, "affiliations_code_unique")
    BY <2>3, DropIndexes
  <2>4. CASE DropPrimaryKey \/ AddPrimaryKey \/ DropIdColumn
    BY <2>4, DropPrimaryKeyKeeps, AddPrimaryKeyKeeps, DropIdColumnKeeps
  <2>5. CASE ModifyCode("up", 10, TRUE) \/ ModifyVoteToken("up", 11, 1000)
    BY <2>5, ModifyCodeKeeps, ModifyVoteTokenKeeps
  <2>6. CASE AddCodeIndex \/ AddForeignKey("up", 13, "restrict") \/ Record("up", 14)
    BY <2>6, AddCodeIndexKeeps, AddForeignKeyUpKeeps, RecordUpKeeps
  <2> QED
    BY <1>1, <2>1, <2>2, <2>3, <2>4, <2>5, <2>6, PTL DEF Up
<1>2. CASE Down
  BY <1>2, DownDropKeeps, DownModifyCodeKeeps, DownModifyVoteTokenKeeps, DownAddKeeps,
     RecordDownKeeps DEF Down
<1>3. CASE Crash \/ Rerun \/ Turn
  BY <1>3, CrashKeeps, RerunKeeps, TurnKeeps
<1>4. CASE UNCHANGED vars
  <2>1. /\ schema' = schema /\ value' = value /\ origin' = origin /\ direction' = direction
        /\ pc' = pc /\ run' = run /\ crashedAt' = crashedAt
    BY <1>4 DEF vars
  <2>2. Mapping <=> Mapping'
    BY <2>1 DEF Mapping, Ids
  <2>3. (Migrates <=> Migrates') /\ (RolledBack(pc) <=> RolledBack(pc)')
    BY <2>1 DEF Migrates, RolledBack
  <2>4. Migrated(pc) => Migrated(pc)'
    <3>1. Ids' = Ids
      BY <2>1 DEF Ids
    <3> QED
      BY <2>1, <3>1 DEF Migrated
  <2> QED
    BY <2>1, <2>2, <2>3, <2>4 DEF IInv, RecordedIsWhole, RollbackRestores
<1> QED
  BY <1>1, <1>2, <1>3, <1>4 DEF Next

\* The inductive invariant of the migration, for any users, affiliations and
\* numbers of kills and roll backs (Migration20260630120000:6).
THEOREM MigrationInvariance == Spec => []IInv
<1> QED
  BY InvInit, InvStep, PTL DEF Spec

\* A migration that is recorded has the schema the entities expect, and every user
\* has the affiliation it had (Migration20260630120000:8).
THEOREM RecordedRunsAreWhole == Spec => []RecordedIsWhole
<1>1. IInv => RecordedIsWhole
  BY DEF IInv
<1> QED
  BY <1>1, MigrationInvariance, PTL

\* A roll back that is recorded has given back the schema up began with in a
\* database made from the migrations, with every affiliation
\* (Migration20260630120000:61).
THEOREM RollbacksRestore == Spec => []RollbackRestores
<1>1. IInv => RollbackRestores
  BY DEF IInv
<1> QED
  BY <1>1, MigrationInvariance, PTL

\* While no run was killed in one of the two windows, every user's row leads to
\* its affiliation (Migration20260630120000:13).
THEOREM AffiliationsKept == Spec => []AffiliationKept
<1>1. IInv => AffiliationKept
  <2> SUFFICES ASSUME IInv, ~Torn, NEW u \in Users
               PROVE  value[u] \in {origin[u]} \cup
                          (IF schema.hasId THEN {Id(origin[u])} ELSE {})
    BY DEF AffiliationKept
  <2>1. CASE value = origin
    BY <2>1
  <2>2. CASE value # origin
    <3>1. value = Ids
      BY <2>2 DEF IInv, Mapping
    <3>2. schema.hasId
      <4>1. 4 \notin crashedAt
        BY DEF Torn
      <4>2. CASE schema.column = "affiliation_id"
        BY <4>2 DEF IInv, Mapping
      <4>3. CASE schema.column = "affiliation_code"
        BY <2>2, <4>1, <4>3 DEF IInv, Mapping, Migrated
      <4> QED
        BY <4>2, <4>3 DEF IInv, Schema, Columns
    <3> QED
      BY <3>1, <3>2 DEF Ids
  <2> QED
    BY <2>1, <2>2
<1> QED
  BY <1>1, MigrationInvariance, PTL

=============================================================================
